---------------------------- MODULE SessionsProofs ----------------------------
(***************************************************************************)
(* The safety of Sessions for any number of requests, browsers, tokens and *)
(* passwords and any grace, lifetime and lockout.  The inductive invariant *)
(* adds who holds which row, what an UPDATE that revokes tokens has still  *)
(* to reach, what a request remembers of the account, and where each token *)
(* is on its way between the server, a browser's jar and a request.        *)
(***************************************************************************)
EXTENDS Sessions, FiniteSetTheorems, TLAPS

Pc(r, pc) == req[r].pc = pc

\* A request that came with a refresh token and is not answered yet.
Carrying(r) == req[r].op \in {"refresh", "logout"} /\ ~Pc(r, "idle") /\ ~Pc(r, "answered")

\* A request that is ending the account's sessions and holds the account's row.
Changing(r) == SetsPassword(r) /\ Pc(r, "revoking")

\* What a request can be at each of its steps.
Shape(r) ==
  /\ Pc(r, "idle") => req[r] = Idle
  /\ Pc(r, "sent") => req[r].op \in {"refresh", "logout"}
  /\ Pc(r, "waiting") \/ Pc(r, "rotating") => req[r].op = "refresh"
  /\ Pc(r, "loaded") => req[r].op \in {"login", "change", "reset"}
  /\ Pc(r, "revoking") => req[r].op \in {"refresh", "logout", "change", "reset"}
  /\ ~Pc(r, "revoking") => req[r].todo = {} /\ req[r].marked = {}
  /\ Carrying(r) => req[r].token \in Ids
  /\ ~Pc(r, "idle") /\ req[r].op \in {"refresh", "logout", "login", "change", "register"}
       => req[r].browser \in Browsers
  /\ req[r].issued <= Len(tokens)

RequestShape == \A r \in Requests : Shape(r)

\* A request starts before its transaction and both before now.
RequestTimes == \A r \in Requests :
  /\ req[r].sent <= clock /\ req[r].now <= clock
  /\ req[r].op = "refresh" /\ req[r].pc \in {"waiting", "rotating", "revoking"}
       => req[r].sent <= req[r].now

\* A family is numbered by one of the tokens.
FamilyIds == \A i \in Ids : tokens[i].family \in Ids

\* Every request in flight that is not answered has room for a token.
Pending == {r \in Requests : ~Pc(r, "idle") /\ ~Pc(r, "answered")}
Room == IsFiniteSet(Active) /\ Len(tokens) + Cardinality(Pending) <= MaxTokens

\* No row is held twice, and a row that somebody is about to revoke is not revoked yet.
RowLocks ==
  /\ \A q, r \in Requests : q # r => Holds(q) \cap Holds(r) = {}
  /\ \A r \in Requests : Pc(r, "rotating") => Unrevoked(req[r].token)
  /\ \A r \in Requests : \A i \in req[r].marked : Unrevoked(i)

AccountLock == \A q, r \in Requests : Changing(q) /\ Changing(r) => q = r

\* Without the account there is nothing.
NothingAbsent == account.role = "none" => account = Absent /\ tokens = <<>> /\ Active = {}

\* A lockout is set for the time from now.
LockoutBound == account.lockedUntil <= clock + Lockout

\* What a request remembers of the account is that of an earlier version, or of this one.
SeenVersion == \A r \in Requests : Pc(r, "loaded") =>
  /\ Seen(r).version <= account.version
  /\ Seen(r).version = account.version => Seen(r).password = account.password \/ reverted

\* A request that ends sessions has reached, or will, every token of theirs that can be
\* used; the exception is a family that got a token meanwhile.
EndsAll == \A r \in Requests : Pc(r, "revoking") =>
  \A i \in Ids : Unrevoked(i) /\ (SetsPassword(r) \/ tokens[i].family = Family(r))
    => i \in req[r].todo \cup req[r].marked \/ tokens[i].family \in overlap

\* Where a token is: on its way to one browser in one answer, then in that browser's jar
\* and in requests of that browser.  On its way nobody else can have used it.
Cookies ==
  /\ \A b, c \in Browsers : jar[b] = jar[c] /\ jar[b] # None => b = c
  /\ \A r \in Requests, b \in Browsers :
       Carrying(r) /\ jar[b] = req[r].token => req[r].browser = b
  /\ \A q \in Requests : Pc(q, "answered") /\ req[q].issued # None =>
       /\ \A b \in Browsers : jar[b] # req[q].issued
       /\ \A r \in Requests : Carrying(r) => req[r].token # req[q].issued
       /\ \A r \in Requests \ {q} : req[r].issued # req[q].issued
       /\ UnrevokedOf(tokens[req[q].issued].family) # {} => Unrevoked(req[q].issued)

\* An old token of a session that goes on.
Superseded(i) == ~Unrevoked(i) /\ UnrevokedOf(tokens[i].family) # {}

\* While no answer is late: a browser keeps an old token only until the answer that
\* brings the new one, so no request comes with a token replaced half a grace ago.
Prompt == ~late => \A r \in Active : clock - req[r].sent <= Grace \div 2

JarFresh == ~late => \A b \in Browsers : jar[b] # None /\ Superseded(jar[b]) =>
  \E q \in Requests : /\ Pc(q, "answered") /\ req[q].browser = b /\ req[q].issued # None
                      /\ tokens[req[q].issued].family = tokens[jar[b]].family
                      /\ req[q].sent <= tokens[jar[b]].revoked

RequestFresh == ~late => \A r \in Requests :
  Carrying(r) /\ Superseded(req[r].token)
    => req[r].sent <= tokens[req[r].token].revoked + Grace \div 2

\* A family is being revoked because its token came long after it was replaced, and
\* nothing else is revoked with it.
ReuseIsOld == \A r \in Requests :
  req[r].op = "refresh" /\ Pc(r, "revoking") =>
    /\ Replaced(r) /\ ~WithinGrace(r)
    /\ \A i \in req[r].todo \cup req[r].marked : tokens[i].family = Family(r)

IInv ==
  /\ TypeOK
  /\ RequestShape
  /\ RequestTimes
  /\ FamilyIds
  /\ Room
  /\ RowLocks
  /\ AccountLock
  /\ OneLiveToken
  /\ NothingAbsent
  /\ LockoutBound
  /\ SeenVersion
  /\ PasswordIsLastSet
  /\ EndsAll
  /\ EndedStaysEnded
  /\ Cookies
  /\ Prompt
  /\ JarFresh
  /\ RequestFresh
  /\ ReuseIsOld
  /\ RetriesKeepTheSession

----------------------------------------------------------------------------
(* What the steps do to requests and to rows. *)

\* Tokens are numbered from 1.
LEMMA IdsAre == TypeOK => Ids = 1..Len(tokens) /\ Len(tokens) \in Nat
BY DEF TypeOK, Ids

\* The records that requests and rows are made of.
LEMMA RecordTypes ==
  /\ Idle \in Request /\ Absent \in AccountRow
  /\ \A f \in Nat \ {0}, auth \in Nat, now \in Time : NewToken(f, auth, now) \in TokenRow
<1>1. Absent \in AccountRow
  BY DEF Absent, AccountRow, Word, Null, None
<1>2. 0 \in Time
  BY LimitsAssumption DEF Time
<1> QED
  BY <1>1, <1>2, DurationsAssumption
  DEF Idle, Request, Word, None, NewToken, TokenRow, Null, Time

\* Appending a row to a table.
LEMMA Appended ==
  ASSUME NEW rows \in Seq(TokenRow), NEW row \in TokenRow
  PROVE  /\ Append(rows, row) \in Seq(TokenRow)
         /\ Len(Append(rows, row)) = Len(rows) + 1
         /\ DOMAIN Append(rows, row) = DOMAIN rows \cup {Len(rows) + 1}
         /\ \A i \in DOMAIN rows : Append(rows, row)[i] = rows[i]
         /\ Append(rows, row)[Len(rows) + 1] = row
OBVIOUS

\* The tokens of X are revoked at time t, the others are not touched.
Kept(X, t) == /\ Ids \subseteq Ids'
              /\ \A i \in Ids : /\ tokens'[i].family = tokens[i].family
                                /\ tokens'[i].auth = tokens[i].auth
                                /\ tokens'[i].revoked = IF i \in X THEN t ELSE tokens[i].revoked

\* A token is added to family f that was authenticated at version v of the account.
Added(f, v) == /\ Ids' = Ids \cup {Len(tokens) + 1} /\ Len(tokens') = Len(tokens) + 1
               /\ tokens'[Len(tokens) + 1].family = f
               /\ tokens'[Len(tokens) + 1].auth = v
               /\ tokens'[Len(tokens) + 1].revoked = Null

NoneAdded == Ids' = Ids /\ Len(tokens') = Len(tokens)

\* Steps with the same effect.
Load(r) == BeginLogin(r) \/ BeginChange(r) \/ BeginReset(r)
Refuse(r) == RefuseRefresh(r) \/ RefuseLocked(r) \/ RefuseWeak(r)

LEMMA Cases ==
  ASSUME NEW r \in Requests, Refresh(r) \/ Revoke(r) \/ Account(r) \/ Browser(r)
  PROVE  \/ Send(r) \/ Answer(r) \/ LoseAnswer(r) \/ BeginRefresh(r) \/ RotateToken(r)
         \/ CommitRotation(r) \/ DetectReuse(r) \/ BeginLogout(r) \/ RevokeRow(r)
         \/ CommitEnd(r) \/ CommitPassword(r) \/ Load(r) \/ Refuse(r) \/ RegisterFailure(r)
         \/ Login(r) \/ BeginPassword(r) \/ Register(r) \/ CreateAdmin(r)
BY DEF Refresh, Revoke, Account, Browser, Load, Refuse

\* An answer without cookies ends the request, any other waits to arrive.
LEMMA AnsweredEffect ==
  ASSUME TypeOK, NEW r \in Requests, NEW id \in Nat
  PROVE  /\ Answered(r, id) \in [Requests -> Request]
         /\ \A q \in Requests : q # r => Answered(r, id)[q] = req[q]
         /\ id = None /\ req[r].op # "logout" => Answered(r, id)[r] = Idle
         /\ id # None \/ req[r].op = "logout" =>
              Answered(r, id)[r] = [Idle EXCEPT !.op = req[r].op, !.pc = "answered",
                                                !.browser = req[r].browser,
                                                !.sent = req[r].sent, !.issued = id]
<1>1. Idle \in Request
  BY RecordTypes
<1>2. [Idle EXCEPT !.op = req[r].op, !.pc = "answered", !.browser = req[r].browser,
                   !.sent = req[r].sent, !.issued = id] \in Request
  BY <1>1 DEF TypeOK, Request
<1> QED
  BY <1>1, <1>2 DEF Answered, TypeOK

\* A refusal ends the request and changes nothing else.
LEMMA RefuseEffect ==
  ASSUME TypeOK, RequestShape, NEW r \in Requests, Refuse(r)
  PROVE  /\ req' = [req EXCEPT ![r] = Idle]
         /\ Pc(r, "waiting") \/ Pc(r, "loaded")
         /\ UNCHANGED <<clock, tokens, account, jar, sent, past>>
<1>1. /\ req' = Answered(r, None)
      /\ Pc(r, "waiting") \/ Pc(r, "loaded")
      /\ UNCHANGED <<clock, tokens, account, jar, sent, past>>
  BY DEF Refuse, RefuseRefresh, RefuseLocked, RefuseWeak, LocksToken, Pc
<1>2. req[r].op # "logout"
  BY <1>1 DEF RequestShape, Shape, Pc
<1>3. None \in Nat
  BY DEF None
<1> DEFINE a == Answered(r, None)
<1>4. a \in [Requests -> Request] /\ a[r] = Idle /\ \A q \in Requests : q # r => a[q] = req[q]
  BY <1>2, <1>3, AnsweredEffect
<1> HIDE DEF a
<1>5. a = [req EXCEPT ![r] = Idle]
  BY <1>4 DEF TypeOK
<1> QED
  BY <1>1, <1>5 DEF a

\* A request about the account begins with what the account's row says.
LEMMA LoadEffect ==
  ASSUME TypeOK, NEW r \in Requests, Load(r)
  PROVE  /\ CanSend(r) /\ account # Absent
         /\ req' \in [Requests -> Request]
         /\ \A q \in Requests : q # r => req'[q] = req[q]
         /\ req'[r].pc = "loaded" /\ req'[r].op \in {"login", "change", "reset"}
         /\ req'[r].op # "reset" => req'[r].browser \in Browsers
         /\ req'[r].sent = clock /\ req'[r].now = clock /\ req'[r].seen = account
         /\ req'[r].todo = {} /\ req'[r].marked = {} /\ req'[r].issued = None
         /\ sent' = sent + 1 /\ UNCHANGED <<clock, tokens, account, jar, past>>
<1>1. ASSUME NEW request \in Request, LoadAccount(r, request)
      PROVE  /\ CanSend(r) /\ account # Absent
             /\ req' \in [Requests -> Request]
             /\ req' = [req EXCEPT ![r] = [request EXCEPT !.pc = "loaded", !.sent = clock,
                                                          !.now = clock, !.seen = account]]
             /\ sent' = sent + 1 /\ UNCHANGED <<clock, tokens, account, jar, past>>
  <2>1. [request EXCEPT !.pc = "loaded", !.sent = clock, !.now = clock, !.seen = account]
          \in Request
    BY DEF Request, TypeOK
  <2> QED
    BY <1>1, <2>1 DEF LoadAccount, TypeOK
<1>2. Idle \in Request
  BY RecordTypes
<1>3. CASE BeginLogin(r)
  <2> PICK b \in Browsers, given \in Passwords :
         LoadAccount(r, [Idle EXCEPT !.op = "login", !.browser = b, !.given = given])
    BY <1>3 DEF BeginLogin
  <2>1. [Idle EXCEPT !.op = "login", !.browser = b, !.given = given] \in Request
    BY <1>2 DEF Request, Word
  <2> DEFINE request == [Idle EXCEPT !.op = "login", !.browser = b, !.given = given]
  <2>2. LoadAccount(r, request) /\ request \in Request
    BY <2>1
  <2>3. /\ request.op = "login" /\ request.browser \in Browsers /\ request.todo = {}
        /\ request.marked = {} /\ request.issued = None
    BY DEF Idle
  <2> HIDE DEF request
  <2>4. req'[r] = [request EXCEPT !.pc = "loaded", !.sent = clock, !.now = clock,
                                  !.seen = account]
    BY <1>1, <2>2 DEF TypeOK
  <2>5. \A q \in Requests : q # r => req'[q] = req[q]
    BY <1>1, <2>2 DEF TypeOK
  <2> QED
    BY <1>1, <2>2, <2>3, <2>4, <2>5 DEF Request
<1>4. CASE BeginChange(r)
  <2> PICK b \in Browsers, given \in Passwords, wanted \in Passwords :
         LoadAccount(r, [Idle EXCEPT !.op = "change", !.browser = b, !.given = given,
                                     !.wanted = wanted])
    BY <1>4 DEF BeginChange
  <2>1. [Idle EXCEPT !.op = "change", !.browser = b, !.given = given, !.wanted = wanted]
          \in Request
    BY <1>2 DEF Request, Word
  <2> DEFINE request == [Idle EXCEPT !.op = "change", !.browser = b, !.given = given, !.wanted = wanted]
  <2>2. LoadAccount(r, request) /\ request \in Request
    BY <2>1
  <2>3. /\ request.op = "change" /\ request.browser \in Browsers /\ request.todo = {}
        /\ request.marked = {} /\ request.issued = None
    BY DEF Idle
  <2> HIDE DEF request
  <2>4. req'[r] = [request EXCEPT !.pc = "loaded", !.sent = clock, !.now = clock,
                                  !.seen = account]
    BY <1>1, <2>2 DEF TypeOK
  <2>5. \A q \in Requests : q # r => req'[q] = req[q]
    BY <1>1, <2>2 DEF TypeOK
  <2> QED
    BY <1>1, <2>2, <2>3, <2>4, <2>5 DEF Request
<1>5. CASE BeginReset(r)
  <2> PICK wanted \in Passwords :
         LoadAccount(r, [Idle EXCEPT !.op = "reset", !.wanted = wanted])
    BY <1>5 DEF BeginReset
  <2>1. [Idle EXCEPT !.op = "reset", !.wanted = wanted] \in Request
    BY <1>2 DEF Request, Word
  <2> DEFINE request == [Idle EXCEPT !.op = "reset", !.wanted = wanted]
  <2>2. LoadAccount(r, request) /\ request \in Request
    BY <2>1
  <2>3. /\ request.op = "reset" /\ request.todo = {}
        /\ request.marked = {} /\ request.issued = None
    BY DEF Idle
  <2> HIDE DEF request
  <2>4. req'[r] = [request EXCEPT !.pc = "loaded", !.sent = clock, !.now = clock,
                                  !.seen = account]
    BY <1>1, <2>2 DEF TypeOK
  <2>5. \A q \in Requests : q # r => req'[q] = req[q]
    BY <1>1, <2>2 DEF TypeOK
  <2> QED
    BY <1>1, <2>2, <2>3, <2>4, <2>5 DEF Request
<1> QED
  BY <1>3, <1>4, <1>5 DEF Load

\* A new session is a family of its own.
LEMMA StartEffect ==
  ASSUME NEW rows \in Seq(TokenRow), NEW v \in Nat, TypeOK
  PROVE  LET n == Len(rows) + 1
             s == StartSession(rows, v, clock)
         IN /\ s \in Seq(TokenRow) /\ Len(s) = n /\ DOMAIN s = DOMAIN rows \cup {n}
            /\ \A i \in DOMAIN rows : s[i] = rows[i]
            /\ s[n].family = n /\ s[n].auth = v /\ s[n].revoked = Null
<1>1. Len(rows) + 1 \in Nat \ {0}
  OBVIOUS
<1>2. NewToken(Len(rows) + 1, v, clock) \in TokenRow
  BY <1>1, RecordTypes DEF TypeOK
<1> QED
  BY <1>2, Appended DEF StartSession, NewToken

\* What an UPDATE leaves of the table.
LEMMA RevokedEffect ==
  ASSUME TypeOK, NEW r \in Requests
  PROVE  /\ Revoked(r) \in Seq(TokenRow) /\ Len(Revoked(r)) = Len(tokens)
         /\ DOMAIN Revoked(r) = Ids
         /\ \A i \in Ids : /\ Revoked(r)[i].family = tokens[i].family
                           /\ Revoked(r)[i].auth = tokens[i].auth
                           /\ Revoked(r)[i].revoked = IF i \in req[r].marked THEN req[r].now
                                                      ELSE tokens[i].revoked
<1>1. \A i \in Ids : tokens[i] \in TokenRow
  BY DEF TypeOK, Ids
<1>2. req[r].now \in Time
  BY DEF TypeOK, Request
<1>3. \A i \in Ids : [tokens[i] EXCEPT !.revoked = req[r].now] \in TokenRow
  BY <1>1, <1>2 DEF TokenRow
<1>4. \A i \in 1..Len(tokens) : Revoked(r)[i] \in TokenRow
  BY <1>1, <1>3, IdsAre DEF Revoked
<1>5. Revoked(r) \in [1..Len(tokens) -> TokenRow]
  BY <1>4, IdsAre DEF Revoked
<1>6. Revoked(r) \in Seq(TokenRow) /\ Len(Revoked(r)) = Len(tokens)
  BY <1>5, IdsAre
<1> QED
  BY <1>1, <1>6, IdsAre DEF Revoked, TokenRow

\* The types of what a token's commit is made from.
LEMMA RequestFields ==
  ASSUME TypeOK, NEW r \in Requests
  PROVE  /\ req[r].now \in Time /\ req[r].sent \in Time /\ req[r].issued \in Nat
         /\ req[r].token \in Nat /\ req[r].seen \in AccountRow
         /\ req[r].todo \subseteq Ids /\ req[r].marked \subseteq Ids
         /\ \A i \in Ids : tokens[i] \in TokenRow
BY IdsAre DEF TypeOK, Request, Ids

\* A rotation replaces one token by another of the same family.
LEMMA RotationEffect ==
  ASSUME TypeOK, RequestShape, FamilyIds, NEW r \in Requests, CommitRotation(r)
  PROVE  /\ tokens' \in Seq(TokenRow) /\ req[r].token \in Ids /\ Family(r) \in Ids
         /\ Kept({req[r].token}, req[r].now)
         /\ Added(Family(r), tokens[req[r].token].auth)
         /\ req' = Answered(r, Len(tokens) + 1) /\ req[r].op = "refresh"
<1> DEFINE i == req[r].token
           rows == [tokens EXCEPT ![i].revoked = req[r].now]
           row == NewToken(Family(r), tokens[i].auth, req[r].now)
<1>1. /\ tokens' = Append(rows, row) /\ req' = Answered(r, Len(tokens'))
      /\ Pc(r, "rotating") /\ req[r].op = "refresh" /\ i \in Ids
  BY DEF CommitRotation, RequestShape, Shape, Carrying, Pc
<1>2. tokens[i] \in TokenRow /\ Family(r) \in Ids /\ Family(r) \in Nat \ {0}
  BY <1>1, RequestFields, IdsAre DEF FamilyIds, Family
<1>3. row \in TokenRow /\ row.family = Family(r) /\ row.auth = tokens[i].auth
      /\ row.revoked = Null
  BY <1>2, RecordTypes, RequestFields DEF NewToken, TokenRow
<1>4. [tokens[i] EXCEPT !.revoked = req[r].now] \in TokenRow
  BY <1>2, RequestFields DEF TokenRow
<1>5. /\ rows \in Seq(TokenRow) /\ Len(rows) = Len(tokens) /\ DOMAIN rows = Ids
      /\ \A j \in Ids : rows[j] = IF j = i THEN [tokens[i] EXCEPT !.revoked = req[r].now]
                                  ELSE tokens[j]
  BY <1>1, <1>4, IdsAre DEF TypeOK, Ids
<1> HIDE DEF i, rows, row
<1>6. /\ tokens' \in Seq(TokenRow) /\ Len(tokens') = Len(tokens) + 1
      /\ Ids' = Ids \cup {Len(tokens) + 1} /\ tokens'[Len(tokens) + 1] = row
      /\ \A j \in Ids : tokens'[j] = rows[j]
  BY <1>1, <1>3, <1>5, Appended DEF Ids
<1>7. \A j \in Ids : rows[j].family = tokens[j].family /\ rows[j].auth = tokens[j].auth
                     /\ rows[j].revoked = IF j = i THEN req[r].now ELSE tokens[j].revoked
  <2>1. ASSUME NEW row1 \in TokenRow, NEW t \in Time
        PROVE  /\ [row1 EXCEPT !.revoked = t].family = row1.family
               /\ [row1 EXCEPT !.revoked = t].auth = row1.auth
               /\ [row1 EXCEPT !.revoked = t].revoked = t
    BY DEF TokenRow
  <2>2. req[r].now \in Time
    BY RequestFields
  <2>3. ASSUME NEW j \in Ids PROVE
              /\ rows[j].family = tokens[j].family /\ rows[j].auth = tokens[j].auth
              /\ rows[j].revoked = IF j = i THEN req[r].now ELSE tokens[j].revoked
    <3>1. CASE j = i
      <4>1. rows[j] = [tokens[j] EXCEPT !.revoked = req[r].now] /\ tokens[j] \in TokenRow
        BY <1>2, <1>5, <3>1
      <4> QED
        BY <2>1, <2>2, <3>1, <4>1
    <3>2. CASE j # i
      BY <1>5, <3>2
    <3> QED
      BY <3>1, <3>2
  <2> QED
    BY <2>3
<1> QED
  BY <1>1, <1>2, <1>3, <1>6, <1>7 DEF Kept, Added, i

\* Ending a session or a family adds nothing.
LEMMA EndEffect ==
  ASSUME TypeOK, RequestShape, NEW r \in Requests, CommitEnd(r)
  PROVE  /\ tokens' \in Seq(TokenRow) /\ req[r].token \in Ids
         /\ Kept(req[r].marked, req[r].now) /\ NoneAdded
         /\ req' = Answered(r, None) /\ Pc(r, "revoking") /\ req[r].todo = {}
         /\ req[r].op \in {"refresh", "logout"}
BY RevokedEffect DEF CommitEnd, RevokesAll, Kept, NoneAdded, RequestShape, Shape, Carrying, Pc, Ids

\* A success clears the failures and the lockout, and nothing else.
LEMMA ClearedEffect ==
  ASSUME NEW seen \in AccountRow, NEW row \in AccountRow
  PROVE  /\ Cleared(seen, row) \in AccountRow
         /\ Cleared(seen, row).role = row.role /\ Cleared(seen, row).password = row.password
         /\ Cleared(seen, row).old = row.old /\ Cleared(seen, row).version = row.version
         /\ Cleared(seen, row).lastSet = row.lastSet
         /\ Cleared(seen, row).lockedUntil = IF seen.lockedUntil = Null THEN row.lockedUntil
                                             ELSE Null
<1> DEFINE failed == IF seen.failed = 0 THEN row.failed ELSE 0
           until == IF seen.lockedUntil = Null THEN row.lockedUntil ELSE Null
<1>1. failed \in Nat /\ until \in Nat \cup {Null}
  BY DEF AccountRow
<1>2. Cleared(seen, row) = [row EXCEPT !.failed = failed, !.lockedUntil = until]
  BY DEF Cleared
<1> HIDE DEF failed
<1> QED
  BY <1>1, <1>2 DEF AccountRow

\* A new password adds the session it starts, if it starts one.
LEMMA PasswordEffect ==
  ASSUME TypeOK, NEW r \in Requests, CommitPassword(r)
  PROVE  /\ tokens' \in Seq(TokenRow) /\ account' \in AccountRow
         /\ Kept(req[r].marked, req[r].now)
         /\ \/ NoneAdded /\ req' = Answered(r, None) /\ req[r].op = "reset"
            \/ /\ Added(Len(tokens) + 1, account'.version)
               /\ req' = Answered(r, Len(tokens) + 1) /\ req[r].op = "change"
         /\ account'.version = account.version + 1 /\ account'.password = account'.lastSet
         /\ account'.role = account.role
         /\ account'.lockedUntil \in {account.lockedUntil, Null}
<1>1. req[r].seen \in AccountRow /\ req[r].wanted \in Word /\ account \in AccountRow
  BY DEF TypeOK, Request
<1>2. account' = [Cleared(req[r].seen, account) EXCEPT !.password = req[r].wanted,
                    !.old = FALSE, !.version = @ + 1, !.lastSet = req[r].wanted]
  BY DEF CommitPassword, PasswordSet
<1> DEFINE row == Cleared(req[r].seen, account)
<1>4. /\ row \in AccountRow /\ row.version = account.version /\ row.role = account.role
      /\ row.lockedUntil \in {account.lockedUntil, Null}
  BY <1>1, ClearedEffect
<1>3. account' = [row EXCEPT !.password = req[r].wanted, !.old = FALSE,
                             !.version = row.version + 1, !.lastSet = req[r].wanted]
  BY <1>2
<1>9. row.version + 1 \in Nat
  BY <1>4 DEF AccountRow
<1> HIDE DEF row
<1>5. /\ account' \in AccountRow
      /\ account'.version = account.version + 1 /\ account'.password = account'.lastSet
      /\ account'.role = account.role
      /\ account'.lockedUntil \in {account.lockedUntil, Null}
  <2> DEFINE v == row.version + 1  new == req[r].wanted
  <2>1. v \in Nat /\ v = account.version + 1 /\ new \in Word
    BY <1>1, <1>4, <1>9
  <2>2. account' = [row EXCEPT !.password = new, !.old = FALSE, !.version = v, !.lastSet = new]
    BY <1>3
  <2> HIDE DEF v, new
  <2>3. /\ account' \in AccountRow /\ account'.version = v /\ account'.password = new
        /\ account'.lastSet = new /\ account'.role = row.role
        /\ account'.lockedUntil = row.lockedUntil
    <3>1. FALSE \in BOOLEAN
      OBVIOUS
    <3> QED
      BY <1>4, <2>1, <2>2, <3>1 DEF AccountRow
  <2> QED
    BY <1>4, <2>1, <2>3
<1>6. account'.version \in Nat
  BY <1>5 DEF AccountRow
<1>7. CASE req[r].op = "change"
  <2>1. /\ tokens' = StartSession(Revoked(r), account'.version, clock)
        /\ req' = Answered(r, Len(tokens'))
    BY <1>7 DEF CommitPassword
  <2> DEFINE rows == Revoked(r)
  <2>2. /\ rows \in Seq(TokenRow) /\ Len(rows) = Len(tokens) /\ DOMAIN rows = Ids
        /\ \A i \in Ids : /\ rows[i].family = tokens[i].family
                          /\ rows[i].auth = tokens[i].auth
                          /\ rows[i].revoked = IF i \in req[r].marked THEN req[r].now
                                               ELSE tokens[i].revoked
    BY RevokedEffect
  <2> HIDE DEF rows
  <2>3. /\ tokens' \in Seq(TokenRow) /\ Len(tokens') = Len(tokens) + 1
        /\ Ids' = Ids \cup {Len(tokens) + 1}
        /\ \A i \in Ids : tokens'[i] = rows[i]
        /\ tokens'[Len(tokens) + 1].family = Len(tokens) + 1
        /\ tokens'[Len(tokens) + 1].auth = account'.version
        /\ tokens'[Len(tokens) + 1].revoked = Null
    <3> DEFINE s == StartSession(rows, account'.version, clock)
    <3>1. /\ s \in Seq(TokenRow) /\ Len(s) = Len(rows) + 1
          /\ DOMAIN s = DOMAIN rows \cup {Len(rows) + 1}
          /\ \A i \in DOMAIN rows : s[i] = rows[i]
          /\ s[Len(rows) + 1].family = Len(rows) + 1
          /\ s[Len(rows) + 1].auth = account'.version /\ s[Len(rows) + 1].revoked = Null
      BY <1>6, <2>2, StartEffect
    <3>2. tokens' = s
      BY <2>1 DEF rows
    <3> HIDE DEF s
    <3> QED
      BY <2>2, <3>1, <3>2 DEF Ids
  <2> QED
    BY <1>5, <1>7, <2>1, <2>2, <2>3 DEF Kept, Added
<1>8. CASE req[r].op = "reset"
  BY <1>5, <1>8, RevokedEffect DEF CommitPassword, Kept, NoneAdded, Ids
<1> QED
  BY <1>7, <1>8 DEF CommitPassword, SetsPassword

\* A login or a registration adds a session.
LEMMA LoginEffect ==
  ASSUME TypeOK, NEW r \in Requests, Login(r)
  PROVE  /\ tokens' \in Seq(TokenRow) /\ account' \in AccountRow
         /\ Kept({}, clock) /\ Added(Len(tokens) + 1, Seen(r).version)
         /\ req' = Answered(r, Len(tokens) + 1)
         /\ account'.version = account.version /\ account'.lastSet = account.lastSet
         /\ account'.role = account.role
         /\ account'.lockedUntil \in {account.lockedUntil, Null}
         /\ account'.password = IF Seen(r).old THEN Seen(r).password ELSE account.password
<1>1. /\ Seen(r) \in AccountRow /\ account \in AccountRow /\ req[r].given \in Word
      /\ req[r].given = Seen(r).password
  BY DEF TypeOK, Request, Seen, Login, PasswordOk
<1>2. tokens' = StartSession(tokens, Seen(r).version, clock) /\ req' = Answered(r, Len(tokens'))
  BY DEF Login
<1>3. Seen(r).version \in Nat /\ tokens \in Seq(TokenRow)
  BY <1>1 DEF AccountRow, TypeOK
<1> DEFINE row == Cleared(Seen(r), account)
<1>5. /\ row \in AccountRow /\ row.version = account.version /\ row.role = account.role
      /\ row.lockedUntil \in {account.lockedUntil, Null} /\ row.lastSet = account.lastSet
      /\ row.password = account.password
  BY <1>1, ClearedEffect
<1>6. account' = IF Seen(r).old THEN [row EXCEPT !.password = req[r].given, !.old = FALSE]
                 ELSE row
  BY DEF Login, NeedsRehash
<1> HIDE DEF row
<1>7. /\ account' \in AccountRow
      /\ account'.version = account.version /\ account'.lastSet = account.lastSet
      /\ account'.role = account.role
      /\ account'.lockedUntil \in {account.lockedUntil, Null}
      /\ account'.password = IF Seen(r).old THEN Seen(r).password ELSE account.password
  BY <1>1, <1>5, <1>6 DEF AccountRow
<1> QED
  BY <1>2, <1>3, <1>7, StartEffect DEF Kept, Added, Ids

LEMMA RegisterEffect ==
  ASSUME TypeOK, NEW r \in Requests, Register(r)
  PROVE  /\ tokens' \in Seq(TokenRow) /\ account' \in AccountRow
         /\ Kept({}, clock) /\ Added(Len(tokens) + 1, 0)
         /\ req' \in [Requests -> Request] /\ \A q \in Requests : q # r => req'[q] = req[q]
         /\ req'[r].pc = "answered" /\ req'[r].op = "register" /\ req'[r].sent = clock
         /\ req'[r].now = 0 /\ req'[r].issued = Len(tokens) + 1 /\ req'[r].browser \in Browsers
         /\ req'[r].todo = {} /\ req'[r].marked = {}
         /\ account'.role = "CUSTOMER" /\ account'.version = 0 /\ account'.lockedUntil = Null
         /\ account'.password = account'.lastSet
<1> PICK b \in Browsers, p \in Passwords :
       /\ account' = NewUser("CUSTOMER", p)
       /\ req' = [req EXCEPT ![r] = [Idle EXCEPT !.op = "register", !.browser = b,
                  !.pc = "answered", !.sent = clock, !.issued = Len(tokens')]]
  BY DEF Register
<1>1. tokens' = StartSession(tokens, 0, clock)
  BY DEF Register
<1>2. /\ tokens' \in Seq(TokenRow) /\ Kept({}, clock) /\ Added(Len(tokens) + 1, 0)
      /\ Len(tokens') = Len(tokens) + 1 /\ Len(tokens') \in Nat
  <2> DEFINE s == StartSession(tokens, 0, clock)
  <2>1. tokens \in Seq(TokenRow) /\ 0 \in Nat
    BY DEF TypeOK
  <2>2. /\ s \in Seq(TokenRow) /\ Len(s) = Len(tokens) + 1
        /\ DOMAIN s = DOMAIN tokens \cup {Len(tokens) + 1}
        /\ \A i \in DOMAIN tokens : s[i] = tokens[i]
        /\ s[Len(tokens) + 1].family = Len(tokens) + 1
        /\ s[Len(tokens) + 1].auth = 0 /\ s[Len(tokens) + 1].revoked = Null
    BY <2>1, StartEffect
  <2>3. tokens' = s
    BY <1>1
  <2> HIDE DEF s
  <2> QED
    BY <2>1, <2>2, <2>3 DEF Kept, Added, Ids
<1> DEFINE request == [Idle EXCEPT !.op = "register", !.browser = b, !.pc = "answered",
                                   !.sent = clock, !.issued = Len(tokens')]
<1>3. /\ request \in Request /\ request.pc = "answered" /\ request.op = "register"
      /\ request.sent = clock /\ request.now = 0 /\ request.issued = Len(tokens) + 1
      /\ request.browser \in Browsers /\ request.todo = {} /\ request.marked = {}
  <2>1. Idle \in Request /\ clock \in Time
    BY RecordTypes DEF TypeOK
  <2> QED
    BY <1>2, <2>1 DEF Request, Idle
<1> HIDE DEF request
<1>4. req' \in [Requests -> Request] /\ req'[r] = request
      /\ \A q \in Requests : q # r => req'[q] = req[q]
  BY <1>3 DEF TypeOK, request
<1>5. /\ account' \in AccountRow /\ account'.role = "CUSTOMER" /\ account'.version = 0
      /\ account'.lockedUntil = Null /\ account'.password = account'.lastSet
  <2>1. p \in Word
    BY DEF Word
  <2> QED
    BY <2>1 DEF NewUser, AccountRow, Absent, Null
<1> QED
  BY <1>2, <1>3, <1>4, <1>5

\* A wrong password is counted, which may set a lockout.
LEMMA FailureEffect ==
  ASSUME TypeOK, RequestShape, NEW r \in Requests, RegisterFailure(r)
  PROVE  /\ req' = [req EXCEPT ![r] = Idle] /\ Pc(r, "loaded")
         /\ account' \in AccountRow
         /\ account'.version = account.version /\ account'.password = account.password
         /\ account'.lastSet = account.lastSet /\ account'.role = account.role
         /\ \/ account'.lockedUntil \in {account.lockedUntil, Null, req[r].now + Lockout}
               /\ req[r].op = "login"
            \/ account'.lockedUntil \in {account.lockedUntil, clock + Lockout}
         /\ UNCHANGED <<clock, tokens, jar, sent, past>>
<1> DEFINE row == IF req[r].op = "login" /\ Served(r) THEN Cleared(Seen(r), account) ELSE account
           now == IF req[r].op = "login" THEN req[r].now ELSE clock
           until == IF row.failed + 1 >= MaxFailed THEN now + Lockout ELSE row.lockedUntil
<1>1. /\ account' = [row EXCEPT !.failed = row.failed + 1, !.lockedUntil = until]
      /\ Pc(r, "loaded") /\ req' = Answered(r, None)
      /\ UNCHANGED <<clock, tokens, jar, sent, past>>
      /\ req[r].op \in {"login", "change"}
  BY DEF RegisterFailure, Pc
<1>2. req' = [req EXCEPT ![r] = Idle]
  <2>1. None \in Nat /\ req[r].op # "logout"
    BY <1>1 DEF None
  <2> DEFINE a == Answered(r, None)
  <2>2. a \in [Requests -> Request] /\ a[r] = Idle
        /\ \A q \in Requests : q # r => a[q] = req[q]
    BY <2>1, AnsweredEffect
  <2> HIDE DEF a
  <2>3. a = [req EXCEPT ![r] = Idle]
    BY <2>2 DEF TypeOK
  <2> QED
    BY <1>1, <2>3 DEF a
<1>3. /\ Seen(r) \in AccountRow /\ account \in AccountRow /\ clock \in Nat /\ req[r].now \in Nat
      /\ Lockout \in Nat
  BY DurationsAssumption, RequestFields DEF TypeOK, Time, Seen
<1>4. /\ row \in AccountRow /\ row.version = account.version /\ row.role = account.role
      /\ row.lockedUntil \in {account.lockedUntil, Null} /\ row.lastSet = account.lastSet
      /\ row.password = account.password
      /\ req[r].op # "login" => row = account
  BY <1>3, ClearedEffect
<1>5. /\ now \in Nat /\ now = (IF req[r].op = "login" THEN req[r].now ELSE clock)
  BY <1>3
<1> HIDE DEF row, now
<1>6. row.failed \in Nat /\ row.lockedUntil \in Nat \cup {Null}
  BY <1>4 DEF AccountRow
<1>7. row.failed + 1 \in Nat /\ now + Lockout \in Nat
  BY <1>3, <1>5, <1>6
<1>8. until \in Nat \cup {Null} /\ until \in {row.lockedUntil, now + Lockout}
  BY <1>6, <1>7
<1> HIDE DEF until
<1>9. account' \in AccountRow /\ account'.lockedUntil = until
  <2> DEFINE failed == row.failed + 1
  <2>1. failed \in Nat /\ account' = [row EXCEPT !.failed = failed, !.lockedUntil = until]
    BY <1>1, <1>7
  <2> HIDE DEF failed
  <2> QED
    BY <1>4, <1>8, <2>1 DEF AccountRow
<1>10. /\ account'.version = account.version /\ account'.password = account.password
       /\ account'.lastSet = account.lastSet /\ account'.role = account.role
  BY <1>1, <1>4 DEF AccountRow
<1> QED
  BY <1>1, <1>2, <1>4, <1>5, <1>8, <1>9, <1>10

\* No time is the null time.
LEMMA TimesAre == Time \subseteq Nat /\ Null \notin Nat /\ 0 \in Time /\ None = 0
BY LimitsAssumption DEF Time, Null, None

LEMMA IdleIs ==
  /\ Idle.op = "none" /\ Idle.pc = "idle" /\ Idle.browser = None /\ Idle.sent = 0
  /\ Idle.now = 0 /\ Idle.token = 0 /\ Idle.todo = {} /\ Idle.marked = {} /\ Idle.issued = 0
BY DEF Idle, None

\* What becomes of a request: it goes on to its next step, it is over, or its answer is
\* under way.
Others(r) == req' \in [Requests -> Request] /\ \A q \in Requests : q # r => req'[q] = req[q]

Moves(r, pc) ==
  /\ Others(r) /\ req'[r].pc = pc /\ ~Pc(r, "idle") /\ ~Pc(r, "answered")
  /\ req'[r].op = req[r].op /\ req'[r].browser = req[r].browser /\ req'[r].sent = req[r].sent
  /\ req'[r].token = req[r].token /\ req'[r].seen = req[r].seen
  /\ req'[r].issued = req[r].issued
  /\ UNCHANGED <<clock, tokens, account, jar, sent, past>>

Ends(r) == Others(r) /\ req'[r] = Idle

Answers(r, id) ==
  /\ Others(r) /\ req'[r].pc = "answered" /\ req'[r].op = req[r].op
  /\ req'[r].browser = req[r].browser /\ req'[r].sent = req[r].sent /\ req'[r].now = 0
  /\ req'[r].issued = id /\ req'[r].todo = {} /\ req'[r].marked = {}

LEMMA AnsweredIs ==
  ASSUME TypeOK, NEW r \in Requests, NEW id \in Nat, req' = Answered(r, id)
  PROVE  IF id = None /\ req[r].op # "logout" THEN Ends(r) ELSE Answers(r, id)
<1> DEFINE a == Answered(r, id)
<1>1. CASE id = None /\ req[r].op # "logout"
  <2>1. /\ a \in [Requests -> Request] /\ a[r] = Idle
        /\ \A q \in Requests : q # r => a[q] = req[q]
    BY <1>1, AnsweredEffect
  <2> QED
    BY <1>1, <2>1 DEF Ends, Others
<1>2. CASE ~(id = None /\ req[r].op # "logout")
  <2> DEFINE row == [Idle EXCEPT !.op = req[r].op, !.pc = "answered",
                                 !.browser = req[r].browser, !.sent = req[r].sent,
                                 !.issued = id]
  <2>1. /\ a \in [Requests -> Request] /\ a[r] = row
        /\ \A q \in Requests : q # r => a[q] = req[q]
    BY <1>2, AnsweredEffect
  <2>2. /\ row.pc = "answered" /\ row.op = req[r].op /\ row.browser = req[r].browser
        /\ row.sent = req[r].sent /\ row.now = 0 /\ row.issued = id /\ row.todo = {}
        /\ row.marked = {}
    BY DEF Idle
  <2> HIDE DEF a, row
  <2>3. req' = a
    BY DEF a
  <2>4. Answers(r, id)
    BY <2>1, <2>2, <2>3 DEF Answers, Others
  <2> QED
    BY <1>2, <2>4
<1> QED
  BY <1>1, <1>2

\* A request that was no more than refused.
LEMMA OverEffect ==
  ASSUME TypeOK, NEW r \in Requests, req' = [req EXCEPT ![r] = Idle]
  PROVE  Ends(r)
BY RecordTypes DEF Ends, Others, TypeOK

LEMMA SendEffect ==
  ASSUME TypeOK, NEW r \in Requests, Send(r)
  PROVE  /\ CanSend(r) /\ Others(r) /\ req'[r].pc = "sent"
         /\ req'[r].op \in {"refresh", "logout"} /\ req'[r].browser \in Browsers
         /\ jar[req'[r].browser] # None /\ req'[r].token = jar[req'[r].browser]
         /\ req'[r].sent = clock /\ req'[r].now = 0 /\ req'[r].issued = 0
         /\ req'[r].todo = {} /\ req'[r].marked = {}
         /\ sent' = sent + 1 /\ sent < MaxSent
         /\ UNCHANGED <<clock, tokens, account, jar, past>>
<1> PICK b \in Browsers, op \in {"refresh", "logout"} :
       /\ jar[b] # None
       /\ req' = [req EXCEPT ![r] = [Idle EXCEPT !.op = op, !.pc = "sent", !.browser = b,
                                                 !.sent = clock, !.token = jar[b]]]
  BY DEF Send
<1> DEFINE row == [Idle EXCEPT !.op = op, !.pc = "sent", !.browser = b, !.sent = clock,
                               !.token = jar[b]]
<1>1. Idle \in Request /\ clock \in Time /\ jar[b] \in Nat
  BY RecordTypes DEF TypeOK
<1>2. /\ row \in Request /\ row.pc = "sent" /\ row.op = op /\ row.browser = b
      /\ row.token = jar[b] /\ row.sent = clock /\ row.now = 0 /\ row.issued = 0
      /\ row.todo = {} /\ row.marked = {}
  BY <1>1 DEF Request, Idle, None
<1> HIDE DEF row
<1>3. req' = [req EXCEPT ![r] = row] /\ req \in [Requests -> Request]
  BY DEF row, TypeOK
<1>4. Others(r) /\ req'[r] = row
  BY <1>2, <1>3 DEF Others
<1> QED
  BY <1>2, <1>4 DEF Send, CanSend

\* The steps that only move a request on.
LEMMA MovesEffect ==
  ASSUME TypeOK, RequestShape, NEW r \in Requests
  PROVE  /\ BeginRefresh(r) =>
              /\ Moves(r, "waiting") /\ Pc(r, "sent") /\ req[r].op = "refresh"
              /\ req'[r].now = clock /\ req'[r].todo = {} /\ req'[r].marked = {}
         /\ RotateToken(r) =>
              /\ Moves(r, "rotating") /\ LocksToken(r) /\ ~Replaced(r) /\ req[r].op = "refresh"
              /\ req'[r].now = req[r].now /\ req'[r].todo = {} /\ req'[r].marked = {}
         /\ DetectReuse(r) =>
              /\ Moves(r, "revoking") /\ LocksToken(r) /\ Replaced(r) /\ ~WithinGrace(r)
              /\ req[r].op = "refresh" /\ req'[r].now = req[r].now
              /\ req'[r].todo = UnrevokedOf(Family(r)) /\ req'[r].marked = {}
         /\ BeginLogout(r) =>
              /\ Moves(r, "revoking") /\ Pc(r, "sent") /\ req[r].op = "logout"
              /\ req'[r].now = clock
              /\ req'[r].todo = UnrevokedOf(Family(r)) /\ req'[r].marked = {}
         /\ BeginPassword(r) =>
              /\ Moves(r, "revoking") /\ Pc(r, "loaded") /\ SetsPassword(r) /\ AccountFree(r)
              /\ req'[r].now = clock
              /\ req'[r].todo = {i \in Ids : Unrevoked(i)} /\ req'[r].marked = {}
<1> DEFINE Step(pc, now, todo) ==
      req' = [req EXCEPT ![r].pc = pc, ![r].now = now, ![r].todo = todo]
<1>0. req[r] \in Request /\ req \in [Requests -> Request]
  BY DEF TypeOK
<1>1. ASSUME NEW pc \in {"waiting", "rotating", "revoking"}, NEW now \in Time,
             NEW todo \in SUBSET Nat, Step(pc, now, todo)
      PROVE  /\ Others(r) /\ req'[r].pc = pc /\ req'[r].now = now /\ req'[r].todo = todo
             /\ req'[r].marked = req[r].marked
             /\ req'[r].op = req[r].op /\ req'[r].browser = req[r].browser
             /\ req'[r].sent = req[r].sent /\ req'[r].token = req[r].token
             /\ req'[r].seen = req[r].seen /\ req'[r].issued = req[r].issued
  <2> DEFINE row == [req[r] EXCEPT !.pc = pc, !.now = now, !.todo = todo]
  <2>1. /\ row \in Request /\ row.pc = pc /\ row.now = now /\ row.todo = todo
        /\ row.marked = req[r].marked
        /\ row.op = req[r].op /\ row.browser = req[r].browser
        /\ row.sent = req[r].sent /\ row.token = req[r].token
        /\ row.seen = req[r].seen /\ row.issued = req[r].issued
    BY <1>0 DEF Request
  <2>2. req' = [req EXCEPT ![r] = row]
    BY <1>0, <1>1 DEF Request
  <2> HIDE DEF row
  <2> QED
    BY <1>0, <2>1, <2>2 DEF Others
<1>2. clock \in Time /\ req[r].now \in Time /\ {} \in SUBSET Nat
      /\ Ids \subseteq Nat /\ UnrevokedOf(Family(r)) \in SUBSET Nat
      /\ {i \in Ids : Unrevoked(i)} \in SUBSET Nat
  BY RequestFields, IdsAre DEF TypeOK, UnrevokedOf
<1>3. ASSUME BeginRefresh(r)
      PROVE  Step("waiting", clock, {}) /\ req[r].marked = {}
  <2>1. req[r].todo = {} /\ req[r].marked = {}
    BY <1>3 DEF BeginRefresh, RequestShape, Shape, Pc
  <2>2. req' = [req EXCEPT ![r].pc = "waiting", ![r].now = clock]
    BY <1>3 DEF BeginRefresh
  <2>3. [req[r] EXCEPT !.pc = "waiting", !.now = clock]
          = [req[r] EXCEPT !.pc = "waiting", !.now = clock, !.todo = {}]
    BY <1>0, <2>1 DEF Request
  <2> QED
    BY <1>0, <2>1, <2>2, <2>3
<1>4. ASSUME RotateToken(r)
      PROVE  Step("rotating", req[r].now, {}) /\ req[r].marked = {} /\ req[r].op = "refresh"
  BY <1>0, <1>4 DEF RotateToken, LocksToken, RequestShape, Shape, Pc, Request
<1>5. ASSUME DetectReuse(r)
      PROVE  /\ Step("revoking", req[r].now, UnrevokedOf(Family(r))) /\ req[r].marked = {}
             /\ req[r].op = "refresh"
  BY <1>0, <1>5 DEF DetectReuse, LocksToken, RequestShape, Shape, Pc, Request
<1>6. ASSUME BeginLogout(r)
      PROVE  Step("revoking", clock, UnrevokedOf(Family(r))) /\ req[r].marked = {}
  BY <1>0, <1>6 DEF BeginLogout, RequestShape, Shape, Pc, Request
<1>7. ASSUME BeginPassword(r)
      PROVE  Step("revoking", clock, {i \in Ids : Unrevoked(i)}) /\ req[r].marked = {}
  BY <1>0, <1>7 DEF BeginPassword, RequestShape, Shape, Pc, Request
<1> HIDE DEF Step
<1>8. BeginRefresh(r) => Moves(r, "waiting") /\ req'[r].now = clock /\ req'[r].todo = {}
                         /\ req'[r].marked = {}
  <2> SUFFICES ASSUME BeginRefresh(r)
               PROVE  Moves(r, "waiting") /\ req'[r].now = clock /\ req'[r].todo = {}
                      /\ req'[r].marked = {}
    OBVIOUS
  <2>1. Step("waiting", clock, {}) /\ req[r].marked = {}
    BY <1>3
  <2>2. req[r].pc = "sent" /\ UNCHANGED <<clock, tokens, account, jar, sent, past>>
    BY DEF BeginRefresh
  <2> QED
    BY <1>1, <1>2, <2>1, <2>2 DEF Moves, Pc
<1>9. RotateToken(r) => Moves(r, "rotating") /\ req'[r].now = req[r].now
                        /\ req'[r].todo = {} /\ req'[r].marked = {}
  BY <1>1, <1>2, <1>4 DEF RotateToken, LocksToken, Moves, Pc
<1>10. DetectReuse(r) => Moves(r, "revoking") /\ req'[r].now = req[r].now
                         /\ req'[r].todo = UnrevokedOf(Family(r)) /\ req'[r].marked = {}
  BY <1>1, <1>2, <1>5 DEF DetectReuse, LocksToken, Moves, Pc
<1>11. BeginLogout(r) => Moves(r, "revoking") /\ req'[r].now = clock
                         /\ req'[r].todo = UnrevokedOf(Family(r)) /\ req'[r].marked = {}
  BY <1>1, <1>2, <1>6 DEF BeginLogout, Moves, Pc
<1>12. BeginPassword(r) => Moves(r, "revoking") /\ req'[r].now = clock
                           /\ req'[r].todo = {i \in Ids : Unrevoked(i)}
                           /\ req'[r].marked = {}
  BY <1>1, <1>2, <1>7 DEF BeginPassword, Moves, Pc
<1> QED
  BY <1>4, <1>5, <1>8, <1>9, <1>10, <1>11, <1>12
  DEF BeginRefresh, RotateToken, DetectReuse, BeginLogout, BeginPassword, Pc

\* A row that is taken was not held by anybody.
LEMMA RevokeRowEffect ==
  ASSUME TypeOK, NEW r \in Requests, RevokeRow(r)
  PROVE  /\ Moves(r, "revoking") /\ Pc(r, "revoking") /\ req'[r].now = req[r].now
         /\ \E i \in req[r].todo :
              /\ TokenFree(r, i) /\ req'[r].todo = req[r].todo \ {i}
              /\ req'[r].marked = IF Unrevoked(i) THEN req[r].marked \cup {i}
                                  ELSE req[r].marked
<1> PICK i \in req[r].todo :
      /\ TokenFree(r, i)
      /\ req' = [req EXCEPT ![r].todo = @ \ {i},
                            ![r].marked = IF Unrevoked(i) THEN @ \cup {i} ELSE @]
  BY DEF RevokeRow
<1> DEFINE todo == req[r].todo \ {i}
           marked == IF Unrevoked(i) THEN req[r].marked \cup {i} ELSE req[r].marked
           row == [req[r] EXCEPT !.todo = todo, !.marked = marked]
<1>0. req[r] \in Request /\ req \in [Requests -> Request]
  BY DEF TypeOK
<1>1. todo \in SUBSET Nat /\ marked \in SUBSET Nat
  BY <1>0 DEF Request
<1>2. req' = [req EXCEPT ![r] = row]
  BY <1>0 DEF Request
<1>3. todo = req[r].todo \ {i} /\ marked = IF Unrevoked(i) THEN req[r].marked \cup {i}
                                           ELSE req[r].marked
  OBVIOUS
<1> HIDE DEF todo, marked
<1>4. /\ row \in Request /\ row.pc = req[r].pc /\ row.now = req[r].now /\ row.todo = todo
      /\ row.marked = marked /\ row.op = req[r].op /\ row.browser = req[r].browser
      /\ row.sent = req[r].sent /\ row.token = req[r].token
      /\ row.seen = req[r].seen /\ row.issued = req[r].issued
  BY <1>0, <1>1 DEF Request
<1> HIDE DEF row
<1>5. Others(r) /\ req'[r] = row
  BY <1>0, <1>2, <1>4 DEF Others
<1>6. Moves(r, "revoking") /\ Pc(r, "revoking")
  BY <1>4, <1>5 DEF RevokeRow, Moves, Pc
<1> QED
  BY <1>3, <1>4, <1>5, <1>6

\* How each transaction that is over leaves its request.
LEMMA OverRequests ==
  ASSUME TypeOK, RequestShape, FamilyIds, NEW r \in Requests
  PROVE  /\ CommitRotation(r) => Answers(r, Len(tokens) + 1) /\ Pc(r, "rotating")
         /\ CommitEnd(r) =>
              Pc(r, "revoking") /\ IF req[r].op = "logout" THEN Answers(r, 0) ELSE Ends(r)
         /\ CommitPassword(r) =>
              /\ Pc(r, "revoking") /\ SetsPassword(r)
              /\ IF req[r].op = "change" THEN Answers(r, Len(tokens) + 1) ELSE Ends(r)
         /\ Login(r) => Answers(r, Len(tokens) + 1) /\ Pc(r, "loaded") /\ req[r].op = "login"
         /\ Answer(r) \/ LoseAnswer(r) => Ends(r) /\ Pc(r, "answered")
         /\ Refuse(r) => Ends(r) /\ (Pc(r, "waiting") \/ Pc(r, "loaded"))
         /\ RegisterFailure(r) => Ends(r) /\ Pc(r, "loaded")
<1>1. Len(tokens) + 1 \in Nat /\ Len(tokens) + 1 # None /\ None \in Nat /\ None = 0
  BY IdsAre DEF None
<1>2. CommitRotation(r) => Answers(r, Len(tokens) + 1) /\ Pc(r, "rotating")
  BY <1>1, RotationEffect, AnsweredIs DEF CommitRotation, Pc
<1>3. CommitEnd(r) =>
        Pc(r, "revoking") /\ IF req[r].op = "logout" THEN Answers(r, 0) ELSE Ends(r)
  BY <1>1, EndEffect, AnsweredIs
<1>4. ASSUME CommitPassword(r)
      PROVE  /\ Pc(r, "revoking") /\ SetsPassword(r)
             /\ IF req[r].op = "change" THEN Answers(r, Len(tokens) + 1) ELSE Ends(r)
  <2>1. \/ req' = Answered(r, None) /\ req[r].op = "reset"
        \/ req' = Answered(r, Len(tokens) + 1) /\ req[r].op = "change"
    BY <1>4, PasswordEffect
  <2>2. Pc(r, "revoking") /\ SetsPassword(r)
    BY <1>4 DEF CommitPassword, RevokesAll, Pc
  <2> QED
    BY <1>1, <2>1, <2>2, AnsweredIs
<1>5. Login(r) => Answers(r, Len(tokens) + 1) /\ Pc(r, "loaded") /\ req[r].op = "login"
  BY <1>1, LoginEffect, AnsweredIs DEF Login, Pc
<1>6. Answer(r) \/ LoseAnswer(r) => Ends(r) /\ Pc(r, "answered")
  BY OverEffect DEF Answer, LoseAnswer, Pc
<1>7. Refuse(r) => Ends(r) /\ (Pc(r, "waiting") \/ Pc(r, "loaded"))
  BY OverEffect, RefuseEffect
<1>8. RegisterFailure(r) => Ends(r) /\ Pc(r, "loaded")
  BY OverEffect, FailureEffect
<1> QED
  BY <1>2, <1>3, <1>4, <1>5, <1>6, <1>7, <1>8

\* Which tokens can be used after some were revoked.
LEMMA KeptUnrevoked ==
  ASSUME NEW X, NEW t \in Time, Kept(X, t)
  PROVE  \A i \in Ids : Unrevoked(i)' <=> Unrevoked(i) /\ i \notin X
BY TimesAre DEF Kept, Unrevoked

\* The steps that change neither the tokens nor the account.
Quiet(r) == \/ Send(r) \/ Answer(r) \/ LoseAnswer(r) \/ BeginRefresh(r) \/ RotateToken(r)
            \/ DetectReuse(r) \/ BeginLogout(r) \/ RevokeRow(r) \/ Load(r) \/ Refuse(r)
            \/ BeginPassword(r)

LEMMA QuietEffect ==
  ASSUME NEW r \in Requests, Quiet(r)
  PROVE  UNCHANGED <<clock, tokens, account, ended, overlap, reused, reverted>>
BY DEF Quiet, Send, Answer, LoseAnswer, BeginRefresh, RotateToken, DetectReuse, BeginLogout,
       RevokeRow, Load, BeginLogin, BeginChange, BeginReset, LoadAccount, Refuse,
       RefuseRefresh, RefuseLocked, RefuseWeak, BeginPassword, past

----------------------------------------------------------------------------
(* Each part of the invariant is kept by every step. *)

\* A request takes its room when it begins and leaves it, or its token, at its commit.
LEMMA RoomStep == IInv /\ [Next]_vars => Room'
<1> SUFFICES ASSUME IInv, [Next]_vars PROVE Room'
  OBVIOUS
<1> USE DEF IInv
<1>0. Pending \subseteq Active
  BY DEF Pending, Active, Pc
<1>1. /\ IsFiniteSet(Active) /\ IsFiniteSet(Pending) /\ Cardinality(Pending) \in Nat
      /\ Cardinality(Active) \in Nat /\ Cardinality(Pending) <= Cardinality(Active)
      /\ Len(tokens) \in Nat /\ MaxTokens \in Nat
  BY <1>0, FS_Subset, FS_CardinalityType, IdsAre, LimitsAssumption DEF Room
<1>2. ASSUME UNCHANGED <<tokens, req>> PROVE Room'
  BY <1>2 DEF Room, Active, Pending, Pc
\* A request begins.
<1>3. ASSUME NEW r \in Requests, CanSend(r), Others(r), req'[r].pc # "idle",
             Len(tokens') = Len(tokens) \/ (req'[r].pc = "answered" /\
                                            Len(tokens') = Len(tokens) + 1)
      PROVE  Room'
  <2>1. Active' = Active \cup {r} /\ Pending' \subseteq Pending \cup {r} /\ r \notin Pending
    BY <1>3 DEF Active, Pending, Pc, Others, CanSend
  <2>2. req'[r].pc = "answered" => Pending' \subseteq Pending
    BY <1>3 DEF Pending, Pc, Others
  <2>3. IsFiniteSet(Active')
    BY <1>1, <2>1, FS_AddElement
  <2>4. IsFiniteSet(Pending \cup {r}) /\ Cardinality(Pending \cup {r}) = Cardinality(Pending) + 1
    BY <1>1, <2>1, FS_AddElement
  <2>5. Len(tokens) + Cardinality(Active) < MaxTokens
    BY <1>3 DEF CanSend
  <2>6. CASE Pending' \subseteq Pending
    <3>1. Cardinality(Pending') <= Cardinality(Pending) /\ Cardinality(Pending') \in Nat
      BY <1>1, <2>6, FS_Subset, FS_CardinalityType
    <3> QED
      BY <1>1, <1>3, <2>3, <2>5, <3>1 DEF Room
  <2>7. CASE req'[r].pc # "answered"
    <3>1. /\ Cardinality(Pending') <= Cardinality(Pending) + 1 /\ Cardinality(Pending') \in Nat
      BY <2>1, <2>4, FS_Subset, FS_CardinalityType
    <3> QED
      BY <1>1, <1>3, <2>3, <2>5, <2>7, <3>1 DEF Room
  <2> QED
    BY <2>2, <2>6, <2>7
\* It goes on.
<1>4. ASSUME NEW r \in Requests, Others(r), UNCHANGED tokens, ~Pc(r, "idle"),
             Pc(r, "answered") => req'[r].pc = "idle"
      PROVE  Room'
  <2>1. Active' \subseteq Active /\ Pending' \subseteq Pending
    BY <1>4 DEF Active, Pending, Pc, Others
  <2>2. /\ IsFiniteSet(Active') /\ Cardinality(Pending') \in Nat
        /\ Cardinality(Pending') <= Cardinality(Pending)
    BY <1>1, <2>1, FS_Subset, FS_CardinalityType
  <2> QED
    BY <1>1, <1>4, <2>2 DEF Room
\* It is over.
<1>5. ASSUME NEW r \in Requests, Others(r), ~Pc(r, "idle"), ~Pc(r, "answered"),
             req'[r].pc \in {"idle", "answered"},
             Len(tokens') \in {Len(tokens), Len(tokens) + 1}
      PROVE  Room'
  <2>1. Active' \subseteq Active /\ Pending' = Pending \ {r} /\ r \in Pending
    BY <1>5 DEF Active, Pending, Pc, Others
  <2>2. IsFiniteSet(Active')
    BY <1>1, <2>1, FS_Subset
  <2>3. Cardinality(Pending') = Cardinality(Pending) - 1
    BY <1>1, <2>1, FS_RemoveElement
  <2> QED
    BY <1>1, <1>5, <2>2, <2>3 DEF Room
<1>6. CASE Tick \/ Over \/ UNCHANGED vars
  BY <1>2, <1>6 DEF Tick, Over, vars
<1>7. ASSUME NEW r \in Requests,
             \/ BeginRefresh(r) \/ RotateToken(r) \/ DetectReuse(r) \/ BeginLogout(r)
             \/ RevokeRow(r) \/ BeginPassword(r)
      PROVE  Room'
  BY <1>4, <1>7, MovesEffect, RevokeRowEffect DEF Moves
<1>8. ASSUME NEW r \in Requests, Send(r) \/ Load(r) PROVE Room'
  BY <1>3, <1>8, SendEffect, LoadEffect DEF Others
<1>9. ASSUME NEW r \in Requests, Register(r) PROVE Room'
  <2>1. CanSend(r) /\ Others(r) /\ req'[r].pc = "answered" /\ Len(tokens') = Len(tokens) + 1
    BY <1>9, RegisterEffect DEF Others, Added, Register
  <2> QED
    BY <1>3, <2>1
<1>10. ASSUME NEW r \in Requests, CreateAdmin(r) PROVE Room'
  BY <1>2, <1>10 DEF CreateAdmin
<1>11. ASSUME NEW r \in Requests, Answer(r) \/ LoseAnswer(r) \/ Refuse(r) \/ RegisterFailure(r)
       PROVE  Room'
  <2>1. Ends(r) /\ ~Pc(r, "idle") /\ UNCHANGED tokens
    BY <1>11, OverRequests, RefuseEffect, FailureEffect DEF Answer, LoseAnswer, Pc
  <2> QED
    BY <1>4, <2>1, IdleIs DEF Ends
<1>12. ASSUME NEW r \in Requests, CommitRotation(r) PROVE Room'
  BY <1>5, <1>12, OverRequests, RotationEffect DEF Answers, Added, Pc
<1>13. ASSUME NEW r \in Requests, CommitEnd(r) PROVE Room'
  BY <1>5, <1>13, OverRequests, EndEffect, IdleIs DEF Answers, Ends, NoneAdded, Pc
<1>14. ASSUME NEW r \in Requests, CommitPassword(r) PROVE Room'
  BY <1>5, <1>14, OverRequests, PasswordEffect, IdleIs DEF Answers, Ends, NoneAdded, Added, Pc
<1>15. ASSUME NEW r \in Requests, Login(r) PROVE Room'
  BY <1>5, <1>15, OverRequests, LoginEffect DEF Answers, Added, Pc
<1> QED
  BY <1>6, <1>7, <1>8, <1>9, <1>10, <1>11, <1>12, <1>13, <1>14, <1>15, Cases DEF Next

\* The number of tokens stays within its bound because there was room for each.
LEMMA TypeStep == IInv /\ [Next]_vars => TypeOK'
<1> SUFFICES ASSUME IInv, [Next]_vars PROVE TypeOK'
  OBVIOUS
<1>1. CASE Over \/ UNCHANGED vars
  BY <1>1 DEF Over, vars, past, IInv, TypeOK
<1> USE DEF IInv
<1>2. Len(tokens') <= MaxTokens \/ tokens' \notin Seq(TokenRow)
  <2>1. IsFiniteSet(Active') /\ Len(tokens') + Cardinality(Pending') <= MaxTokens
    BY RoomStep DEF Room
  <2>2. Pending' \subseteq Active'
    BY DEF Pending, Active, Pc
  <2>3. Cardinality(Pending') \in Nat
    BY <2>1, <2>2, FS_Subset, FS_CardinalityType
  <2> QED
    BY <2>1, <2>3, LimitsAssumption
<1>3. /\ clock \in Time /\ sent \in 0..MaxSent /\ tokens \in Seq(TokenRow)
      /\ account \in AccountRow /\ jar \in [Browsers -> 0..Len(tokens)]
      /\ req \in [Requests -> Request]
      /\ \A q \in Requests : req[q].todo \cup req[q].marked \subseteq 1..Len(tokens)
      /\ ended \cup overlap \subseteq 1..Len(tokens)
      /\ {late, reused, reverted} \subseteq BOOLEAN /\ Len(tokens) \in Nat
  BY IdsAre DEF TypeOK
\* What a step leaves alone keeps its type.
<1>4. ASSUME NEW r \in Requests, Others(r), tokens' \in Seq(TokenRow),
             Len(tokens') \in {Len(tokens), Len(tokens) + 1}, account' \in AccountRow,
             req'[r].todo \cup req'[r].marked \subseteq 1..Len(tokens),
             sent' \in 0..MaxSent, jar' \in [Browsers -> 0..Len(tokens)],
             ended' \cup overlap' \subseteq 1..Len(tokens'),
             {late', reused', reverted'} \subseteq BOOLEAN, clock' = clock
      PROVE  TypeOK'
  <2>1. Len(tokens') <= MaxTokens /\ 1..Len(tokens) \subseteq 1..Len(tokens')
        /\ 0..Len(tokens) \subseteq 0..Len(tokens')
    BY <1>2, <1>3, <1>4
  <2>2. \A q \in Requests : req'[q].todo \cup req'[q].marked \subseteq 1..Len(tokens')
    BY <1>3, <1>4, <2>1 DEF Others
  <2>3. jar' \in [Browsers -> 0..Len(tokens')]
    BY <1>4, <2>1
  <2> QED
    BY <1>3, <1>4, <2>1, <2>2, <2>3 DEF TypeOK, Others
<1>5. CASE Tick
  BY <1>3, <1>5, LimitsAssumption DEF Tick, TypeOK, Time
<1>6. ASSUME NEW r \in Requests, \/ BeginRefresh(r) \/ RotateToken(r) \/ DetectReuse(r)
                                 \/ BeginLogout(r) \/ RevokeRow(r) \/ BeginPassword(r)
      PROVE  TypeOK'
  <2>1. UnrevokedOf(Family(r)) \subseteq 1..Len(tokens)
        /\ {i \in Ids : Unrevoked(i)} \subseteq 1..Len(tokens)
    BY IdsAre DEF UnrevokedOf
  <2>2. \E pc : Moves(r, pc)
    BY <1>6, MovesEffect, RevokeRowEffect
  <2>3. req'[r].todo \cup req'[r].marked \subseteq 1..Len(tokens)
    <3>1. CASE RevokeRow(r)
      BY <1>3, <3>1, RevokeRowEffect
    <3> QED
      BY <1>6, <2>1, <3>1, MovesEffect
  <2> QED
    BY <1>3, <1>4, <2>2, <2>3 DEF Moves, past
<1>7. ASSUME NEW r \in Requests, Send(r) PROVE TypeOK'
  <2>1. sent' \in 0..MaxSent
    BY <1>3, <1>7, SendEffect, LimitsAssumption
  <2> QED
    BY <1>3, <1>4, <1>7, <2>1, SendEffect DEF past
<1>8. ASSUME NEW r \in Requests, Load(r) PROVE TypeOK'
  <2>1. sent' \in 0..MaxSent
    BY <1>3, <1>8, LoadEffect, LimitsAssumption DEF CanSend
  <2> QED
    BY <1>3, <1>4, <1>8, <2>1, LoadEffect DEF past, Others
<1>9. ASSUME NEW r \in Requests, Register(r) PROVE TypeOK'
  <2>1. sent' \in 0..MaxSent /\ UNCHANGED <<clock, jar, past>>
    BY <1>3, <1>9, LimitsAssumption DEF Register, CanSend
  <2>2. /\ Others(r) /\ tokens' \in Seq(TokenRow) /\ Len(tokens') = Len(tokens) + 1
        /\ account' \in AccountRow /\ req'[r].todo = {} /\ req'[r].marked = {}
    BY <1>9, RegisterEffect DEF Added, Others
  <2>3. ended' \cup overlap' \subseteq 1..Len(tokens')
    BY <1>3, <2>1, <2>2 DEF past
  <2> QED
    BY <1>3, <1>4, <2>1, <2>2, <2>3 DEF past
<1>10. ASSUME NEW r \in Requests, CreateAdmin(r) PROVE TypeOK'
  <2>1. sent' \in 0..MaxSent /\ UNCHANGED <<clock, tokens, req, jar, past>>
    BY <1>3, <1>10, LimitsAssumption DEF CreateAdmin, CanSend
  <2>2. account' \in AccountRow
    <3> PICK p \in Passwords : account' = NewUser("ADMIN", p)
      BY <1>10 DEF CreateAdmin
    <3>1. p \in Word
      BY DEF Word
    <3> QED
      BY <3>1 DEF NewUser, AccountRow, Absent, Null
  <2> QED
    BY <1>3, <2>1, <2>2 DEF TypeOK, past
<1>11. ASSUME NEW r \in Requests, Answer(r) PROVE TypeOK'
  <2>1. Ends(r) /\ UNCHANGED <<clock, tokens, account, sent, past>>
    BY <1>11, OverRequests DEF Answer
  <2>2. req[r].issued \in 0..Len(tokens)
    BY <1>3, RequestFields DEF RequestShape, Shape
  <2>3. jar' \in [Browsers -> 0..Len(tokens)]
    <3>1. \/ jar' = [jar EXCEPT ![req[r].browser] = req[r].issued]
          \/ jar' = [jar EXCEPT ![req[r].browser] = None] \/ jar' = jar
      BY <1>11 DEF Answer
    <3> QED
      BY <1>3, <2>2, <3>1 DEF None
  <2> QED
    BY <1>3, <1>4, <2>1, <2>3, IdleIs DEF Ends, past
<1>12. ASSUME NEW r \in Requests, LoseAnswer(r) \/ Refuse(r) PROVE TypeOK'
  <2>1. /\ Ends(r) /\ UNCHANGED <<clock, tokens, account, jar, sent, ended, overlap, reused>>
        /\ late' \in BOOLEAN /\ UNCHANGED reverted
    BY <1>3, <1>12, OverRequests, RefuseEffect DEF LoseAnswer, past
  <2> QED
    BY <1>3, <1>4, <2>1, IdleIs DEF Ends
<1>13. ASSUME NEW r \in Requests, RegisterFailure(r) PROVE TypeOK'
  <2>1. Ends(r) /\ account' \in AccountRow /\ UNCHANGED <<clock, tokens, jar, sent, past>>
    BY <1>13, OverRequests, FailureEffect
  <2> QED
    BY <1>3, <1>4, <2>1, IdleIs DEF Ends, past
<1>14. ASSUME NEW r \in Requests, CommitRotation(r) PROVE TypeOK'
  <2>1. /\ Answers(r, Len(tokens) + 1) /\ tokens' \in Seq(TokenRow)
        /\ Len(tokens') = Len(tokens) + 1 /\ Family(r) \in 1..Len(tokens)
    BY <1>14, OverRequests, RotationEffect, IdsAre DEF Added
  <2>2. overlap' \subseteq overlap \cup {Family(r)}
        /\ UNCHANGED <<clock, account, jar, sent, ended, late, reused, reverted>>
    BY <1>14 DEF CommitRotation
  <2>3. ended' \cup overlap' \subseteq 1..Len(tokens')
    BY <1>3, <2>1, <2>2
  <2> QED
    BY <1>3, <1>4, <2>1, <2>2, <2>3 DEF Answers
<1>15. ASSUME NEW r \in Requests, CommitEnd(r) PROVE TypeOK'
  <2>1. /\ Others(r) /\ req'[r].todo = {} /\ req'[r].marked = {}
        /\ tokens' \in Seq(TokenRow) /\ Len(tokens') = Len(tokens)
    BY <1>15, OverRequests, EndEffect, IdleIs DEF NoneAdded, Answers, Ends
  <2>2. Family(r) \in 1..Len(tokens)
    BY <1>15, EndEffect, IdsAre DEF FamilyIds, Family
  <2>3. /\ ended' = ended \cup {Family(r)} /\ reused' \in BOOLEAN
        /\ UNCHANGED <<clock, account, jar, sent, overlap, late, reverted>>
    BY <1>3, <1>15 DEF CommitEnd
  <2> QED
    BY <1>3, <1>4, <2>1, <2>2, <2>3
<1>16. ASSUME NEW r \in Requests, CommitPassword(r) PROVE TypeOK'
  <2>1. /\ Others(r) /\ req'[r].todo = {} /\ req'[r].marked = {}
        /\ tokens' \in Seq(TokenRow) /\ Len(tokens') \in {Len(tokens), Len(tokens) + 1}
        /\ account' \in AccountRow
    BY <1>16, OverRequests, PasswordEffect, IdleIs DEF NoneAdded, Added, Answers, Ends
  <2>2. UNCHANGED <<clock, jar, sent, past>>
    BY <1>16 DEF CommitPassword
  <2>3. ended' \cup overlap' \subseteq 1..Len(tokens')
    BY <1>3, <2>1, <2>2 DEF past
  <2> QED
    BY <1>3, <1>4, <2>1, <2>2, <2>3 DEF past
<1>17. ASSUME NEW r \in Requests, Login(r) PROVE TypeOK'
  <2>1. /\ Answers(r, Len(tokens) + 1) /\ tokens' \in Seq(TokenRow)
        /\ Len(tokens') = Len(tokens) + 1 /\ account' \in AccountRow
    BY <1>17, OverRequests, LoginEffect DEF Added
  <2>2. /\ overlap' \subseteq overlap \cup {Len(tokens')} /\ reverted' \in BOOLEAN
        /\ UNCHANGED <<clock, jar, sent, ended, late, reused>>
    BY <1>3, <1>17 DEF Login
  <2>3. ended' \cup overlap' \subseteq 1..Len(tokens')
    BY <1>3, <2>1, <2>2
  <2> QED
    BY <1>3, <1>4, <2>1, <2>2, <2>3 DEF Answers
<1> QED
  BY <1>1, <1>5, <1>6, <1>7, <1>8, <1>9, <1>10, <1>11, <1>12, <1>13, <1>14, <1>15, <1>16, <1>17,
     Cases DEF Next

\* A token keeps its family and the version it was authenticated at, and a time it was
\* revoked at.
LEMMA TokensGrow ==
  IInv /\ [Next]_vars =>
    /\ Ids \subseteq Ids' /\ Len(tokens) <= Len(tokens')
    /\ \A i \in Ids : /\ tokens'[i].family = tokens[i].family
                      /\ tokens'[i].auth = tokens[i].auth
                      /\ ~Unrevoked(i) => tokens'[i].revoked = tokens[i].revoked
<1> DEFINE Grow == /\ Ids \subseteq Ids' /\ Len(tokens) <= Len(tokens')
                   /\ \A i \in Ids : /\ tokens'[i].family = tokens[i].family
                                     /\ tokens'[i].auth = tokens[i].auth
                                     /\ ~Unrevoked(i) => tokens'[i].revoked = tokens[i].revoked
<1> SUFFICES ASSUME IInv, [Next]_vars PROVE Grow
  OBVIOUS
<1>0. Len(tokens) \in Nat /\ TypeOK /\ RequestShape /\ FamilyIds
  BY IdsAre DEF IInv
<1>1. ASSUME UNCHANGED tokens PROVE Grow
  BY <1>0, <1>1 DEF Ids
<1>2. ASSUME NEW X, NEW t, Kept(X, t), NoneAdded \/ \E f, v : Added(f, v),
             \A i \in Ids \cap X : Unrevoked(i)
      PROVE  Grow
  BY <1>0, <1>2 DEF Kept, NoneAdded, Added
<1>3. CASE Tick \/ Over \/ UNCHANGED vars
  BY <1>1, <1>3 DEF Tick, Over, vars
<1>4. ASSUME NEW r \in Requests, Quiet(r) \/ RegisterFailure(r) \/ CreateAdmin(r) PROVE Grow
  BY <1>1, <1>4, QuietEffect DEF RegisterFailure, CreateAdmin
<1>5. ASSUME NEW r \in Requests, CommitRotation(r) PROVE Grow
  <2>1. Unrevoked(req[r].token)
    BY <1>0, <1>5, OverRequests DEF IInv, RowLocks
  <2>2. Kept({req[r].token}, req[r].now) /\ \E f, v : Added(f, v)
    BY <1>0, <1>5, RotationEffect
  <2> QED
    BY <1>2, <2>1, <2>2
<1>6. ASSUME NEW r \in Requests, CommitEnd(r) \/ CommitPassword(r) PROVE Grow
  <2>1. \A i \in req[r].marked : Unrevoked(i)
    BY DEF IInv, RowLocks
  <2> QED
    BY <1>0, <1>2, <1>6, <2>1, EndEffect, PasswordEffect
<1>7. ASSUME NEW r \in Requests, Login(r) \/ Register(r) PROVE Grow
  BY <1>0, <1>2, <1>7, LoginEffect, RegisterEffect
<1> QED
  BY <1>3, <1>4, <1>5, <1>6, <1>7, Cases DEF Next, Quiet

LEMMA ShapeStep == IInv /\ [Next]_vars => RequestShape'
<1> SUFFICES ASSUME IInv, [Next]_vars PROVE RequestShape'
  OBVIOUS
<1>0. /\ TypeOK /\ RequestShape /\ FamilyIds /\ Len(tokens) \in Nat
      /\ Ids \subseteq Ids' /\ Len(tokens) <= Len(tokens') /\ Len(tokens') \in Nat
      /\ \A q \in Requests : req[q].issued \in Nat
  BY TypeStep, TokensGrow, RequestFields, IdsAre DEF IInv, TypeOK
<1>1. ASSUME NEW q \in Requests, req'[q] = req[q] PROVE Shape(q)'
  BY <1>0, <1>1 DEF RequestShape, Shape, Carrying, Pc
<1>2. ASSUME NEW r \in Requests, Others(r), Shape(r)' PROVE RequestShape'
  BY <1>1, <1>2 DEF Others, RequestShape
<1>3. ASSUME UNCHANGED req PROVE RequestShape'
  BY <1>1, <1>3 DEF RequestShape
<1>4. ASSUME NEW r \in Requests, Ends(r) PROVE RequestShape'
  <2>1. Shape(r)'
    BY <1>0, <1>4, IdleIs DEF Ends, Shape, Carrying, Pc
  <2> QED
    BY <1>2, <1>4, <2>1 DEF Ends
<1>5. ASSUME NEW r \in Requests, NEW id \in Nat, Answers(r, id), id <= Len(tokens'), ~Pc(r, "idle")
      PROVE  RequestShape'
  <2>1. Shape(r)'
    BY <1>0, <1>5 DEF RequestShape, Answers, Shape, Carrying, Pc
  <2> QED
    BY <1>2, <1>5, <2>1 DEF Answers
<1>6. CASE Tick \/ Over \/ UNCHANGED vars
  BY <1>3, <1>6 DEF Tick, Over, vars
<1>7. ASSUME NEW r \in Requests, Send(r) PROVE RequestShape'
  <2>1. jar[req'[r].browser] \in Ids
    BY <1>0, <1>7, SendEffect, IdsAre DEF TypeOK, None
  <2>2. Shape(r)'
    BY <1>0, <1>7, <2>1, SendEffect DEF Shape, Carrying, Pc
  <2> QED
    BY <1>0, <1>2, <1>7, <2>2, SendEffect
<1>8. ASSUME NEW r \in Requests, \/ BeginRefresh(r) \/ RotateToken(r) \/ DetectReuse(r)
                                 \/ BeginLogout(r) \/ RevokeRow(r) \/ BeginPassword(r)
      PROVE  RequestShape'
  <2>1. PICK pc : Moves(r, pc) /\
          \/ pc = "waiting" /\ req[r].op = "refresh" /\ req'[r].todo = {} /\ req'[r].marked = {}
          \/ pc = "rotating" /\ req[r].op = "refresh" /\ req'[r].todo = {} /\ req'[r].marked = {}
          \/ pc = "revoking" /\ req[r].op \in {"refresh", "logout", "change", "reset"}
    BY <1>0, <1>8, MovesEffect, RevokeRowEffect DEF SetsPassword, RequestShape, Shape
  <2>2. Shape(r)'
    BY <1>0, <2>1 DEF Moves, RequestShape, Shape, Carrying, Pc
  <2> QED
    BY <1>2, <2>1, <2>2 DEF Moves
<1>9. ASSUME NEW r \in Requests, Load(r) PROVE RequestShape'
  <2>1. Others(r) /\ Shape(r)'
    BY <1>0, <1>9, LoadEffect DEF Others, Shape, Carrying, Pc, None
  <2> QED
    BY <1>2, <2>1
<1>10. ASSUME NEW r \in Requests, Register(r) PROVE RequestShape'
  <2>1. Others(r) /\ Shape(r)'
    BY <1>0, <1>10, RegisterEffect DEF Others, Shape, Carrying, Pc, Added
  <2> QED
    BY <1>2, <2>1
<1>11. ASSUME NEW r \in Requests, CreateAdmin(r) PROVE RequestShape'
  BY <1>3, <1>11 DEF CreateAdmin
<1>12. ASSUME NEW r \in Requests, Answer(r) \/ LoseAnswer(r) \/ Refuse(r) \/ RegisterFailure(r)
       PROVE  RequestShape'
  BY <1>0, <1>4, <1>12, OverRequests
<1>13. ASSUME NEW r \in Requests, CommitRotation(r) PROVE RequestShape'
  <2>1. Len(tokens') = Len(tokens) + 1
    BY <1>0, <1>13, RotationEffect DEF Added
  <2>2. Answers(r, Len(tokens) + 1) /\ ~Pc(r, "idle")
    BY <1>0, <1>13, OverRequests DEF Pc
  <2> QED
    BY <1>0, <1>5, <2>1, <2>2
<1>14. ASSUME NEW r \in Requests, CommitEnd(r) PROVE RequestShape'
  BY <1>0, <1>4, <1>5, <1>14, OverRequests DEF Pc
<1>15. ASSUME NEW r \in Requests, CommitPassword(r) PROVE RequestShape'
  BY <1>0, <1>4, <1>5, <1>15, OverRequests, PasswordEffect DEF Added, Pc
<1>16. ASSUME NEW r \in Requests, Login(r) PROVE RequestShape'
  BY <1>0, <1>5, <1>16, OverRequests, LoginEffect DEF Added, Pc
<1> QED
  BY <1>6, <1>7, <1>8, <1>9, <1>10, <1>11, <1>12, <1>13, <1>14, <1>15, <1>16, Cases DEF Next

\* The clock never runs back and `now` is taken from it.
LEMMA TimesStep == IInv /\ [Next]_vars => RequestTimes'
<1> SUFFICES ASSUME IInv, [Next]_vars PROVE RequestTimes'
  OBVIOUS
<1> DEFINE InTime(q) == /\ req[q].sent <= clock /\ req[q].now <= clock
                        /\ req[q].op = "refresh" /\ req[q].pc \in {"waiting", "rotating", "revoking"}
                             => req[q].sent <= req[q].now
<1>0. /\ TypeOK /\ RequestShape /\ FamilyIds /\ clock \in Nat /\ \A q \in Requests : InTime(q)
      /\ \A q \in Requests : req[q].sent \in Nat /\ req[q].now \in Nat
  BY RequestFields, TimesAre DEF IInv, TypeOK, RequestTimes
<1>1. ASSUME NEW q \in Requests, req'[q] = req[q], clock' = clock \/ clock' = clock + 1
      PROVE  InTime(q)'
  BY <1>0, <1>1
<1>2. ASSUME NEW r \in Requests, Others(r), InTime(r)', clock' = clock PROVE RequestTimes'
  BY <1>1, <1>2 DEF Others, RequestTimes
<1>3. ASSUME UNCHANGED req, clock' = clock \/ clock' = clock + 1 PROVE RequestTimes'
  BY <1>1, <1>3 DEF RequestTimes
<1>4. CASE Tick \/ Over \/ UNCHANGED vars
  BY <1>3, <1>4 DEF Tick, Over, vars
<1>5. ASSUME NEW r \in Requests, Quiet(r) PROVE RequestTimes'
  <2>1. clock' = clock
    BY <1>5, QuietEffect
  <2>2. CASE Send(r) \/ Load(r)
    BY <1>0, <1>2, <2>1, <2>2, SendEffect, LoadEffect DEF Others
  <2>3. CASE Answer(r) \/ LoseAnswer(r) \/ Refuse(r)
    BY <1>0, <1>2, <2>1, <2>3, OverRequests, IdleIs DEF Ends
  <2>4. CASE \/ BeginRefresh(r) \/ RotateToken(r) \/ DetectReuse(r) \/ BeginLogout(r)
             \/ RevokeRow(r) \/ BeginPassword(r)
    <3>1. \E pc : Moves(r, pc)
      BY <1>0, <2>4, MovesEffect, RevokeRowEffect
    <3>2. \/ req'[r].now = clock
          \/ req'[r].now = req[r].now /\ req[r].pc \in {"waiting", "rotating", "revoking"}
      BY <1>0, <2>4, MovesEffect, RevokeRowEffect DEF LocksToken, Pc
    <3> QED
      BY <1>0, <1>2, <2>1, <3>1, <3>2 DEF Moves
  <2> QED
    BY <1>5, <2>2, <2>3, <2>4 DEF Quiet
<1>6. ASSUME NEW r \in Requests, \/ CommitRotation(r) \/ CommitEnd(r) \/ CommitPassword(r)
                                 \/ Login(r) \/ RegisterFailure(r)
      PROVE  RequestTimes'
  <2>1. Ends(r) \/ \E id : Answers(r, id)
    BY <1>0, <1>6, OverRequests
  <2>2. clock' = clock
    BY <1>6 DEF CommitRotation, CommitEnd, CommitPassword, Login, RegisterFailure
  <2> QED
    BY <1>0, <1>2, <2>1, <2>2, IdleIs DEF Ends, Answers
<1>7. ASSUME NEW r \in Requests, Register(r) PROVE RequestTimes'
  <2>1. clock' = clock
    BY <1>7 DEF Register
  <2> QED
    BY <1>0, <1>2, <1>7, <2>1, RegisterEffect DEF Others
<1>8. ASSUME NEW r \in Requests, CreateAdmin(r) PROVE RequestTimes'
  BY <1>3, <1>8 DEF CreateAdmin
<1> QED
  BY <1>4, <1>5, <1>6, <1>7, <1>8, Cases DEF Next, Quiet

\* A new session is named by its own token; a rotation keeps the family.
LEMMA FamilyStep == IInv /\ [Next]_vars => FamilyIds'
<1> SUFFICES ASSUME IInv, [Next]_vars PROVE FamilyIds'
  OBVIOUS
<1>0. TypeOK /\ RequestShape /\ FamilyIds /\ Len(tokens) + 1 \notin Ids
  BY IdsAre DEF IInv
<1>1. ASSUME UNCHANGED tokens PROVE FamilyIds'
  BY <1>0, <1>1 DEF FamilyIds, Ids
<1>2. ASSUME NEW X, NEW t, Kept(X, t), NoneAdded PROVE FamilyIds'
  BY <1>0, <1>2 DEF Kept, NoneAdded, FamilyIds
<1>3. ASSUME NEW X, NEW t, NEW f, NEW v, Kept(X, t), Added(f, v),
             f \in Ids \cup {Len(tokens) + 1}
      PROVE  FamilyIds'
  BY <1>0, <1>3 DEF Kept, Added, FamilyIds
<1>4. CASE Tick \/ Over \/ UNCHANGED vars
  BY <1>1, <1>4 DEF Tick, Over, vars
<1>5. ASSUME NEW r \in Requests, Quiet(r) \/ RegisterFailure(r) \/ CreateAdmin(r) PROVE FamilyIds'
  BY <1>1, <1>5, QuietEffect DEF RegisterFailure, CreateAdmin
<1>6. ASSUME NEW r \in Requests, CommitRotation(r) PROVE FamilyIds'
  BY <1>0, <1>3, <1>6, RotationEffect
<1>7. ASSUME NEW r \in Requests, CommitEnd(r) \/ CommitPassword(r) PROVE FamilyIds'
  BY <1>0, <1>2, <1>3, <1>7, EndEffect, PasswordEffect
<1>8. ASSUME NEW r \in Requests, Login(r) \/ Register(r) PROVE FamilyIds'
  BY <1>0, <1>3, <1>8, LoginEffect, RegisterEffect
<1> QED
  BY <1>4, <1>5, <1>6, <1>7, <1>8, Cases DEF Next, Quiet

LEMMA HalfGrace == Grace \div 2 \in Nat /\ 2 * (Grace \div 2) <= Grace /\ Grace \in Nat
BY DurationsAssumption

\* The rows are taken one transaction after the other.
LEMMA RowLocksStep == IInv /\ [Next]_vars => RowLocks'
<1> SUFFICES ASSUME IInv, [Next]_vars PROVE RowLocks'
  OBVIOUS
<1>0. TypeOK /\ RequestShape /\ FamilyIds /\ RowLocks
  BY DEF IInv
<1>1. \A q \in Requests : Holds(q) \subseteq Ids
  BY <1>0, RequestFields DEF Holds, RequestShape, Shape, Carrying, Pc
<1>2. ASSUME UNCHANGED <<tokens, req>> PROVE RowLocks'
  BY <1>0, <1>2 DEF RowLocks, Holds, Pc, Unrevoked
\* A request takes the rows N, which nobody else holds.
<1>3. ASSUME NEW r \in Requests, Others(r), UNCHANGED tokens, NEW N,
             Holds(r)' \subseteq Holds(r) \cup N, \A i \in N : TokenFree(r, i),
             req'[r].pc = "rotating" => Unrevoked(req'[r].token),
             \A i \in req'[r].marked : Unrevoked(i)
      PROVE  RowLocks'
  <2>1. \A q \in Requests \ {r} : Holds(q)' = Holds(q)
    BY <1>3 DEF Others, Holds
  <2>2. \A q \in Requests \ {r} : Holds(q)' \cap Holds(r)' = {}
    BY <1>0, <1>3, <2>1 DEF RowLocks, TokenFree
  <2>3. \A q, p \in Requests : q # p => Holds(q)' \cap Holds(p)' = {}
    BY <1>0, <2>1, <2>2 DEF RowLocks
  <2>4. \A q \in Requests : /\ Pc(q, "rotating")' => Unrevoked(req[q].token)'
                            /\ \A i \in req'[q].marked : Unrevoked(i)'
    BY <1>0, <1>3 DEF RowLocks, Others, Pc, Unrevoked
  <2> QED
    BY <2>3, <2>4 DEF RowLocks
\* A request gives its rows back, and has revoked some of them.
<1>4. ASSUME NEW r \in Requests, Others(r), req'[r].pc \in {"idle", "answered"},
             req'[r].marked = {}, NEW X \in SUBSET Holds(r), NEW t \in Time, Kept(X, t)
      PROVE  RowLocks'
  <2>1. \A q \in Requests \ {r} : Holds(q)' = Holds(q)
    BY <1>4 DEF Others, Holds
  <2>2. Holds(r)' = {}
    BY <1>4 DEF Holds
  <2>3. \A q, p \in Requests : q # p => Holds(q)' \cap Holds(p)' = {}
    BY <1>0, <2>1, <2>2 DEF RowLocks
  <2>4. ASSUME NEW q \in Requests, q # r
        PROVE  /\ Pc(q, "rotating")' => Unrevoked(req[q].token)'
               /\ \A i \in req'[q].marked : Unrevoked(i)'
    <3>1. req'[q] = req[q]
      BY <1>4, <2>4 DEF Others
    <3>2. Pc(q, "rotating") => req[q].token \in Holds(q)
      BY <1>0 DEF Holds, RequestShape, Shape, Pc
    <3>3. req[q].marked \subseteq Holds(q) /\ Holds(q) \cap X = {}
      BY <1>0, <1>4, <2>4 DEF Holds, RowLocks
    <3>4. \A i \in Holds(q) : Unrevoked(i) => Unrevoked(i)'
      BY <1>1, <1>4, <3>3, KeptUnrevoked
    <3> QED
      BY <1>0, <3>1, <3>2, <3>3, <3>4 DEF RowLocks, Pc
  <2>5. ~Pc(r, "rotating")' /\ req'[r].marked = {}
    BY <1>4 DEF Pc
  <2> QED
    BY <2>3, <2>4, <2>5 DEF RowLocks
<1>5. CASE Tick \/ Over \/ UNCHANGED vars
  BY <1>2, <1>5 DEF Tick, Over, vars
<1>6. ASSUME NEW r \in Requests, Send(r) \/ Load(r) PROVE RowLocks'
  <2>1. Others(r) /\ UNCHANGED tokens /\ Holds(r)' = {} /\ req'[r].pc # "rotating"
        /\ req'[r].marked = {}
    BY <1>0, <1>6, SendEffect, LoadEffect DEF Holds, Others
  <2> QED
    BY <1>3, <2>1
<1>7. ASSUME NEW r \in Requests, BeginRefresh(r) \/ BeginLogout(r) \/ BeginPassword(r) PROVE RowLocks'
  <2>1. Others(r) /\ UNCHANGED tokens /\ Holds(r)' = {} /\ req'[r].pc # "rotating"
        /\ req'[r].marked = {}
    BY <1>0, <1>7, MovesEffect DEF Moves, Holds, SetsPassword
  <2> QED
    BY <1>3, <2>1
<1>8. ASSUME NEW r \in Requests, RotateToken(r) \/ DetectReuse(r) PROVE RowLocks'
  <2>1. Others(r) /\ UNCHANGED tokens /\ Holds(r)' = {req[r].token}
        /\ req'[r].token = req[r].token /\ req'[r].marked = {} /\ TokenFree(r, req[r].token)
    BY <1>0, <1>8, MovesEffect DEF Moves, Holds, LocksToken
  <2>2. req'[r].pc = "rotating" => Unrevoked(req[r].token)
    BY <1>0, <1>8, MovesEffect DEF Moves, Replaced
  <2> QED
    BY <1>3, <2>1, <2>2
<1>9. ASSUME NEW r \in Requests, RevokeRow(r) PROVE RowLocks'
  <2>1. PICK i \in req[r].todo :
          /\ TokenFree(r, i)
          /\ req'[r].marked = IF Unrevoked(i) THEN req[r].marked \cup {i} ELSE req[r].marked
    BY <1>0, <1>9, RevokeRowEffect
  <2>2. Moves(r, "revoking") /\ Pc(r, "revoking")
    BY <1>0, <1>9, RevokeRowEffect
  <2>3. Holds(r)' \subseteq Holds(r) \cup {i}
    BY <2>1, <2>2 DEF Moves, Holds, Pc
  <2>4. \A j \in req'[r].marked : Unrevoked(j)
    BY <1>0, <2>1 DEF RowLocks
  <2> QED
    BY <1>3, <2>1, <2>2, <2>3, <2>4 DEF Moves
<1>10. ASSUME NEW r \in Requests, Answer(r) \/ LoseAnswer(r) \/ Refuse(r) \/ RegisterFailure(r)
       PROVE  RowLocks'
  <2>1. Ends(r) /\ UNCHANGED tokens
    BY <1>0, <1>10, OverRequests, RefuseEffect, FailureEffect DEF Answer, LoseAnswer
  <2> QED
    BY <1>3, <2>1, IdleIs DEF Ends, Holds
<1>11. ASSUME NEW r \in Requests, CommitRotation(r) PROVE RowLocks'
  <2>1. {req[r].token} \subseteq Holds(r) /\ req[r].now \in Time
    BY <1>0, <1>11, OverRequests, RotationEffect, RequestFields DEF Holds, Pc
  <2>2. Kept({req[r].token}, req[r].now) /\ Others(r) /\ req'[r].pc = "answered"
        /\ req'[r].marked = {}
    BY <1>0, <1>11, OverRequests, RotationEffect DEF Answers
  <2> QED
    BY <1>4, <2>1, <2>2
<1>12. ASSUME NEW r \in Requests, CommitEnd(r) \/ CommitPassword(r) PROVE RowLocks'
  <2>1. req[r].marked \subseteq Holds(r) /\ req[r].now \in Time
    BY <1>0, RequestFields DEF Holds
  <2>2. Kept(req[r].marked, req[r].now)
    BY <1>0, <1>12, EndEffect, PasswordEffect
  <2>3. Others(r) /\ req'[r].pc \in {"idle", "answered"} /\ req'[r].marked = {}
    BY <1>0, <1>12, OverRequests, IdleIs DEF Answers, Ends
  <2> QED
    BY <1>4, <2>1, <2>2, <2>3
<1>13. ASSUME NEW r \in Requests, Login(r) \/ Register(r) PROVE RowLocks'
  <2>1. Kept({}, clock) /\ clock \in Time
    BY <1>0, <1>13, LoginEffect, RegisterEffect DEF TypeOK
  <2>2. Others(r) /\ req'[r].pc = "answered" /\ req'[r].marked = {}
    BY <1>0, <1>13, OverRequests, RegisterEffect DEF Answers, Others
  <2> QED
    BY <1>4, <2>1, <2>2
<1>14. ASSUME NEW r \in Requests, CreateAdmin(r) PROVE RowLocks'
  BY <1>2, <1>14 DEF CreateAdmin
<1> QED
  BY <1>5, <1>6, <1>7, <1>8, <1>9, <1>10, <1>11, <1>12, <1>13, <1>14, Cases DEF Next

\* Only one password change at a time gets to the account's row.
LEMMA AccountLockStep == IInv /\ [Next]_vars => AccountLock'
<1> SUFFICES ASSUME IInv, [Next]_vars PROVE AccountLock'
  OBVIOUS
<1>0. TypeOK /\ RequestShape /\ FamilyIds /\ AccountLock
  BY DEF IInv
<1>1. ASSUME UNCHANGED req PROVE AccountLock'
  BY <1>0, <1>1 DEF AccountLock, Changing, SetsPassword, Pc
<1>2. ASSUME NEW r \in Requests, Others(r),
             Changing(r)' => Changing(r) \/ \A q \in Requests \ {r} : ~Changing(q)
      PROVE  AccountLock'
  <2>1. \A q \in Requests \ {r} : Changing(q)' <=> Changing(q)
    BY <1>2 DEF Others, Changing, SetsPassword, Pc
  <2> QED
    BY <1>0, <1>2, <2>1 DEF AccountLock
<1>3. CASE Tick \/ Over \/ UNCHANGED vars
  BY <1>1, <1>3 DEF Tick, Over, vars
<1>4. ASSUME NEW r \in Requests, Send(r) \/ Load(r) \/ Register(r) PROVE AccountLock'
  <2>1. Others(r) /\ req'[r].pc # "revoking"
    BY <1>0, <1>4, SendEffect, LoadEffect, RegisterEffect DEF Others
  <2> QED
    BY <1>2, <2>1 DEF Changing, Pc
<1>5. ASSUME NEW r \in Requests, BeginRefresh(r) \/ RotateToken(r) \/ DetectReuse(r) \/ BeginLogout(r)
      PROVE  AccountLock'
  <2>1. Others(r) /\ req'[r].op \in {"refresh", "logout"}
    BY <1>0, <1>5, MovesEffect DEF Moves
  <2> QED
    BY <1>2, <2>1 DEF Changing, SetsPassword
<1>6. ASSUME NEW r \in Requests, RevokeRow(r) PROVE AccountLock'
  <2>1. Others(r) /\ req'[r].op = req[r].op /\ Pc(r, "revoking")
    BY <1>0, <1>6, RevokeRowEffect DEF Moves
  <2> QED
    BY <1>2, <2>1 DEF Changing, SetsPassword
<1>7. ASSUME NEW r \in Requests, BeginPassword(r) PROVE AccountLock'
  <2>1. Others(r) /\ AccountFree(r)
    BY <1>0, <1>7, MovesEffect DEF Moves
  <2> QED
    BY <1>2, <2>1 DEF Changing, AccountFree, Pc
<1>8. ASSUME NEW r \in Requests,
             \/ Answer(r) \/ LoseAnswer(r) \/ Refuse(r) \/ RegisterFailure(r)
             \/ CommitRotation(r) \/ CommitEnd(r) \/ CommitPassword(r) \/ Login(r)
      PROVE  AccountLock'
  <2>1. Others(r) /\ req'[r].pc # "revoking"
    BY <1>0, <1>8, OverRequests, IdleIs DEF Ends, Answers
  <2> QED
    BY <1>2, <2>1 DEF Changing, Pc
<1>9. ASSUME NEW r \in Requests, CreateAdmin(r) PROVE AccountLock'
  BY <1>1, <1>9 DEF CreateAdmin
<1> QED
  BY <1>3, <1>4, <1>5, <1>6, <1>7, <1>8, <1>9, Cases DEF Next

\* A rotation locks the one token its family has; a new session is a family of its own.
LEMMA OneLiveStep == IInv /\ [Next]_vars => OneLiveToken'
<1> SUFFICES ASSUME IInv, [Next]_vars PROVE OneLiveToken'
  OBVIOUS
<1>0. TypeOK /\ RequestShape /\ FamilyIds /\ OneLiveToken /\ Len(tokens) + 1 \notin Ids
  BY IdsAre DEF IInv
<1>1. ASSUME UNCHANGED tokens PROVE OneLiveToken'
  BY <1>0, <1>1 DEF OneLiveToken, Unrevoked, Ids
<1>2. ASSUME NEW X, NEW t \in Time, Kept(X, t)
      PROVE  \A i, j \in Ids : tokens'[i].family = tokens'[j].family /\ Unrevoked(i)' /\ Unrevoked(j)'
               => i = j
  BY <1>0, <1>2, KeptUnrevoked DEF Kept, OneLiveToken
<1>3. ASSUME NEW X, NEW t \in Time, Kept(X, t), NoneAdded PROVE OneLiveToken'
  <2>1. \A i, j \in Ids : tokens'[i].family = tokens'[j].family /\ Unrevoked(i)' /\ Unrevoked(j)'
               => i = j
    BY <1>2, <1>3
  <2> QED
    BY <1>3, <2>1 DEF NoneAdded, OneLiveToken
<1>4. ASSUME NEW X, NEW t \in Time, NEW f, NEW v, Kept(X, t), Added(f, v),
             \A i \in Ids : tokens[i].family = f /\ Unrevoked(i) => i \in X
      PROVE  OneLiveToken'
  <2>1. \A i, j \in Ids : tokens'[i].family = tokens'[j].family /\ Unrevoked(i)' /\ Unrevoked(j)'
               => i = j
    BY <1>2, <1>4
  <2>2. \A i \in Ids : tokens'[i].family = f => ~Unrevoked(i)'
    BY <1>4, KeptUnrevoked DEF Kept
  <2>3. Ids' = Ids \cup {Len(tokens) + 1} /\ tokens'[Len(tokens) + 1].family = f
    BY <1>4 DEF Added
  <2> QED
    BY <2>1, <2>2, <2>3 DEF OneLiveToken
<1>5. CASE Tick \/ Over \/ UNCHANGED vars
  BY <1>1, <1>5 DEF Tick, Over, vars
<1>6. ASSUME NEW r \in Requests, Quiet(r) \/ RegisterFailure(r) \/ CreateAdmin(r)
      PROVE  OneLiveToken'
  BY <1>1, <1>6, QuietEffect DEF RegisterFailure, CreateAdmin
<1>7. ASSUME NEW r \in Requests, CommitRotation(r) PROVE OneLiveToken'
  <2>1. Unrevoked(req[r].token) /\ req[r].token \in Ids /\ req[r].now \in Time
    BY <1>0, <1>7, OverRequests, RotationEffect, RequestFields DEF IInv, RowLocks
  <2>2. \A i \in Ids : tokens[i].family = Family(r) /\ Unrevoked(i) => i \in {req[r].token}
    BY <1>0, <2>1 DEF OneLiveToken, Family
  <2>3. Kept({req[r].token}, req[r].now) /\ Added(Family(r), tokens[req[r].token].auth)
    BY <1>0, <1>7, RotationEffect
  <2> QED
    BY <1>4, <2>1, <2>2, <2>3
<1>8. ASSUME NEW r \in Requests, CommitEnd(r) PROVE OneLiveToken'
  <2>1. Kept(req[r].marked, req[r].now) /\ NoneAdded /\ req[r].now \in Time
    BY <1>0, <1>8, EndEffect, RequestFields
  <2> QED
    BY <1>3, <2>1
<1>9. \A i \in Ids : tokens[i].family # Len(tokens) + 1
  BY <1>0 DEF FamilyIds
<1>10. ASSUME NEW r \in Requests, CommitPassword(r) PROVE OneLiveToken'
  <2>1. Kept(req[r].marked, req[r].now) /\ req[r].now \in Time
    BY <1>0, <1>10, PasswordEffect, RequestFields
  <2>2. NoneAdded \/ \E v : Added(Len(tokens) + 1, v)
    BY <1>0, <1>10, PasswordEffect
  <2> QED
    BY <1>3, <1>4, <1>9, <2>1, <2>2
<1>11. ASSUME NEW r \in Requests, Login(r) \/ Register(r) PROVE OneLiveToken'
  <2>1. Kept({}, clock) /\ clock \in Time /\ \E v : Added(Len(tokens) + 1, v)
    BY <1>0, <1>11, LoginEffect, RegisterEffect DEF TypeOK
  <2> QED
    BY <1>4, <1>9, <2>1
<1> QED
  BY <1>5, <1>6, <1>7, <1>8, <1>10, <1>11, Cases DEF Next, Quiet

\* Whoever is at work has found the account or creates it.
LEMMA AbsentStep == IInv /\ [Next]_vars => NothingAbsent'
<1> SUFFICES ASSUME IInv, [Next]_vars PROVE NothingAbsent'
  OBVIOUS
<1>0. TypeOK /\ RequestShape /\ FamilyIds /\ NothingAbsent
  BY DEF IInv
<1>1. CASE Tick \/ Over \/ UNCHANGED vars
  BY <1>0, <1>1 DEF Tick, Over, vars, NothingAbsent, Active
<1>2. ASSUME NEW r \in Requests, account.role # "none", account'.role = account.role
      PROVE  NothingAbsent'
  BY <1>2 DEF NothingAbsent
<1>3. ASSUME NEW r \in Requests, ~Pc(r, "idle"), account'.role = account.role
      PROVE  NothingAbsent'
  BY <1>0, <1>2, <1>3 DEF NothingAbsent, Active, Pc
<1>4. ASSUME NEW r \in Requests,
             \/ Answer(r) \/ LoseAnswer(r) \/ BeginRefresh(r) \/ RotateToken(r) \/ DetectReuse(r)
             \/ BeginLogout(r) \/ RevokeRow(r) \/ Refuse(r) \/ BeginPassword(r)
      PROVE  NothingAbsent'
  <2>1. account' = account
    BY <1>4, QuietEffect DEF Quiet
  <2>2. ~Pc(r, "idle")
    BY <1>0, <1>4, OverRequests, MovesEffect, RevokeRowEffect DEF Moves, Pc
  <2> QED
    BY <1>3, <2>1, <2>2
<1>5. ASSUME NEW r \in Requests, Send(r) PROVE NothingAbsent'
  <2>1. Len(tokens) # 0
    BY <1>0, <1>5, SendEffect DEF TypeOK, None
  <2>2. account.role # "none"
    BY <1>0, <2>1 DEF NothingAbsent
  <2> QED
    BY <1>2, <1>5, <2>2, SendEffect, <1>0
<1>6. ASSUME NEW r \in Requests, Load(r) PROVE NothingAbsent'
  BY <1>0, <1>2, <1>6, LoadEffect DEF NothingAbsent
<1>7. ASSUME NEW r \in Requests, CommitRotation(r) \/ CommitEnd(r) PROVE NothingAbsent'
  <2>1. account' = account
    BY <1>7 DEF CommitRotation, CommitEnd
  <2>2. ~Pc(r, "idle")
    BY <1>0, <1>7, OverRequests DEF Pc
  <2> QED
    BY <1>3, <2>1, <2>2
<1>8. ASSUME NEW r \in Requests, CommitPassword(r) \/ Login(r) \/ RegisterFailure(r)
      PROVE  NothingAbsent'
  <2>1. account'.role = account.role
    BY <1>0, <1>8, PasswordEffect, LoginEffect, FailureEffect
  <2>2. ~Pc(r, "idle")
    BY <1>0, <1>8, OverRequests DEF Pc
  <2> QED
    BY <1>3, <2>1, <2>2
<1>9. ASSUME NEW r \in Requests, Register(r) PROVE NothingAbsent'
  <2>1. account'.role = "CUSTOMER"
    BY <1>0, <1>9, RegisterEffect
  <2> QED
    BY <2>1 DEF NothingAbsent
<1>10. ASSUME NEW r \in Requests, CreateAdmin(r) PROVE NothingAbsent'
  <2>1. account'.role = "ADMIN"
    BY <1>10 DEF CreateAdmin, NewUser, Absent
  <2> QED
    BY <2>1 DEF NothingAbsent
<1> QED
  BY <1>1, <1>4, <1>5, <1>6, <1>7, <1>8, <1>9, <1>10, Cases DEF Next

\* What the account's columns can become in a step.
LEMMA AccountSteps ==
  ASSUME IInv, [Next]_vars
  PROVE  \/ account' = account
         \/ \E r \in Requests :
              \/ CommitPassword(r) /\ account'.version = account.version + 1
              \/ Login(r) /\ account'.version = account.version
              \/ RegisterFailure(r) /\ account'.version = account.version
              \/ (Register(r) \/ CreateAdmin(r)) /\ account = Absent
<1>0. TypeOK /\ RequestShape /\ FamilyIds
  BY DEF IInv
<1>1. CASE Tick \/ Over \/ UNCHANGED vars
  BY <1>1 DEF Tick, Over, vars
<1>2. ASSUME NEW r \in Requests, Quiet(r) PROVE account' = account
  BY <1>2, QuietEffect
<1>3. ASSUME NEW r \in Requests, CommitRotation(r) \/ CommitEnd(r) PROVE account' = account
  BY <1>3 DEF CommitRotation, CommitEnd
<1>4. ASSUME NEW r \in Requests, Register(r) \/ CreateAdmin(r) PROVE account = Absent
  BY <1>4 DEF Register, CreateAdmin
<1>5. ASSUME NEW r \in Requests
      PROVE  /\ CommitPassword(r) => account'.version = account.version + 1
             /\ Login(r) => account'.version = account.version
             /\ RegisterFailure(r) => account'.version = account.version
  BY <1>0, PasswordEffect, LoginEffect, FailureEffect
<1> QED
  BY <1>1, <1>2, <1>3, <1>4, <1>5, Cases DEF Next, Quiet

\* The clock runs on and the markers that are only ever set stay set.
LEMMA ClockSteps ==
  IInv /\ [Next]_vars =>
    /\ clock \in Nat /\ clock' \in Nat /\ clock <= clock' /\ (clock' = clock \/ Tick)
    /\ (late => late') /\ (reverted => reverted')
    /\ late \in BOOLEAN /\ late' \in BOOLEAN
<1> SUFFICES ASSUME IInv, [Next]_vars
             PROVE  /\ clock \in Nat /\ clock' \in Nat /\ clock <= clock' /\ (clock' = clock \/ Tick)
                    /\ (late => late') /\ (reverted => reverted')
                    /\ late \in BOOLEAN /\ late' \in BOOLEAN
  OBVIOUS
<1>0. TypeOK /\ TypeOK' /\ clock \in Nat /\ clock' \in Nat /\ late \in BOOLEAN /\ late' \in BOOLEAN
  BY TypeStep, TimesAre DEF IInv, TypeOK, Time
<1>1. CASE Tick
  BY <1>0, <1>1 DEF Tick
<1>2. CASE Over \/ UNCHANGED vars
  BY <1>0, <1>2 DEF Over, vars, past
<1>3. ASSUME NEW r \in Requests, Quiet(r)
      PROVE  clock' = clock /\ (late => late') /\ reverted' = reverted
  <2>1. late' = late \/ late'
    BY <1>3 DEF Quiet, Send, Answer, LoseAnswer, BeginRefresh, RotateToken, DetectReuse,
       BeginLogout, RevokeRow, Load, BeginLogin, BeginChange, BeginReset, LoadAccount, Refuse,
       RefuseRefresh, RefuseLocked, RefuseWeak, BeginPassword, past
  <2> QED
    BY <1>3, <2>1, QuietEffect
<1>4. ASSUME NEW r \in Requests, \/ CommitRotation(r) \/ CommitEnd(r) \/ CommitPassword(r)
                                 \/ RegisterFailure(r) \/ Register(r) \/ CreateAdmin(r)
      PROVE  clock' = clock /\ late' = late /\ reverted' = reverted
  BY <1>4 DEF CommitRotation, CommitEnd, CommitPassword, RegisterFailure, Register,
     CreateAdmin, past
<1>5. ASSUME NEW r \in Requests, Login(r) PROVE clock' = clock /\ late' = late /\ (reverted => reverted')
  BY <1>5 DEF Login
<1> QED
  BY <1>0, <1>1, <1>2, <1>3, <1>4, <1>5, Cases DEF Next, Quiet

\* A lockout is counted from the clock, or from a `now` that was taken from it.
LEMMA LockoutStep == IInv /\ [Next]_vars => LockoutBound'
<1> SUFFICES ASSUME IInv, [Next]_vars PROVE LockoutBound'
  OBVIOUS
<1>0. /\ TypeOK /\ RequestShape /\ FamilyIds /\ LockoutBound /\ clock \in Nat /\ clock' \in Nat
      /\ clock <= clock' /\ Lockout \in Nat /\ \A r \in Requests : req[r].now <= clock
      /\ account.lockedUntil \in Nat \cup {Null} /\ \A r \in Requests : req[r].now \in Nat
  BY ClockSteps, DurationsAssumption, RequestFields, TimesAre
  DEF IInv, RequestTimes, TypeOK, AccountRow
<1>1. ASSUME account'.lockedUntil \in {account.lockedUntil, Null} PROVE LockoutBound'
  BY <1>0, <1>1 DEF LockoutBound, Null
<1>2. ASSUME NEW r \in Requests, CommitPassword(r) \/ Login(r) PROVE LockoutBound'
  BY <1>0, <1>1, <1>2, PasswordEffect, LoginEffect
<1>3. ASSUME NEW r \in Requests, RegisterFailure(r) PROVE LockoutBound'
  <2>1. /\ account'.lockedUntil \in {account.lockedUntil, Null, req[r].now + Lockout,
                                     clock + Lockout}
        /\ clock' = clock
    BY <1>0, <1>3, FailureEffect
  <2> QED
    BY <1>0, <1>1, <2>1 DEF LockoutBound
<1>4. ASSUME NEW r \in Requests, Register(r) \/ CreateAdmin(r) PROVE LockoutBound'
  <2>1. account'.lockedUntil = Null
    BY <1>0, <1>4, RegisterEffect DEF CreateAdmin, NewUser, Absent
  <2> QED
    BY <1>1, <2>1
<1> QED
  BY <1>1, <1>2, <1>3, <1>4, AccountSteps

\* What a request remembers is never newer than the account.
LEMMA SeenStep == IInv /\ [Next]_vars => SeenVersion'
<1> SUFFICES ASSUME IInv, [Next]_vars PROVE SeenVersion'
  OBVIOUS
<1> DEFINE Knows(q) == Pc(q, "loaded") =>
             /\ Seen(q).version <= account.version
             /\ Seen(q).version = account.version => Seen(q).password = account.password \/ reverted
<1>0. /\ TypeOK /\ RequestShape /\ FamilyIds /\ \A q \in Requests : Knows(q)
      /\ account.version \in Nat /\ \A q \in Requests : Seen(q).version \in Nat
      /\ (reverted => reverted')
  BY ClockSteps, RequestFields DEF IInv, SeenVersion, TypeOK, AccountRow, Seen
<1>1. ASSUME NEW q \in Requests, req'[q] = req[q], account' = account PROVE Knows(q)'
  BY <1>0, <1>1 DEF Seen, Pc
<1>2. ASSUME NEW r \in Requests, Others(r), account' = account,
             \/ req'[r].pc # "loaded" \/ req'[r].seen = account
      PROVE  SeenVersion'
  <2>1. Knows(r)'
    BY <1>0, <1>2 DEF Seen, Pc
  <2> QED
    BY <1>1, <1>2, <2>1 DEF Others, SeenVersion
<1>3. CASE UNCHANGED <<req, account>>
  BY <1>1, <1>3 DEF SeenVersion
<1>4. CASE Tick \/ Over \/ UNCHANGED vars
  BY <1>3, <1>4 DEF Tick, Over, vars
<1>5. ASSUME NEW r \in Requests, Quiet(r) PROVE SeenVersion'
  <2>1. account' = account
    BY <1>5, QuietEffect
  <2>2. Others(r) /\ (req'[r].pc # "loaded" \/ req'[r].seen = account)
    BY <1>0, <1>5, SendEffect, LoadEffect, OverRequests, MovesEffect, RevokeRowEffect, IdleIs
    DEF Quiet, Others, Moves, Ends
  <2> QED
    BY <1>2, <2>1, <2>2
<1>6. ASSUME NEW r \in Requests, CommitRotation(r) \/ CommitEnd(r) PROVE SeenVersion'
  <2>1. account' = account
    BY <1>6 DEF CommitRotation, CommitEnd
  <2>2. Others(r) /\ req'[r].pc # "loaded"
    BY <1>0, <1>6, OverRequests, IdleIs DEF Ends, Answers
  <2> QED
    BY <1>2, <2>1, <2>2
<1>7. ASSUME NEW r \in Requests, CommitPassword(r) \/ Login(r) \/ RegisterFailure(r)
      PROVE  Others(r) /\ req'[r].pc # "loaded"
  BY <1>0, <1>7, OverRequests, IdleIs DEF Ends, Answers
<1>8. ASSUME NEW r \in Requests, CommitPassword(r) PROVE SeenVersion'
  <2>1. account'.version = account.version + 1
    BY <1>0, <1>8, PasswordEffect
  <2>2. \A q \in Requests \ {r} : Knows(q)'
    BY <1>0, <1>7, <1>8, <2>1 DEF Others, Seen, Pc
  <2> QED
    BY <1>7, <1>8, <2>2 DEF SeenVersion, Pc
<1>9. ASSUME NEW r \in Requests, Login(r) PROVE SeenVersion'
  <2>1. /\ account'.version = account.version
        /\ account'.password = IF Seen(r).old THEN Seen(r).password ELSE account.password
    BY <1>0, <1>9, LoginEffect
  <2>2. Seen(r).old /\ Seen(r).version # account.version => reverted'
    BY <1>9 DEF Login, Overtaken
  <2>3. account'.password = account.password \/ reverted'
    BY <1>0, <1>9, <2>1, <2>2, OverRequests
  <2>4. \A q \in Requests \ {r} : Knows(q)'
    BY <1>0, <1>7, <1>9, <2>1, <2>3 DEF Others, Seen, Pc
  <2> QED
    BY <1>7, <1>9, <2>4 DEF SeenVersion, Pc
<1>10. ASSUME NEW r \in Requests, RegisterFailure(r) PROVE SeenVersion'
  <2>1. account'.version = account.version /\ account'.password = account.password
    BY <1>0, <1>10, FailureEffect
  <2>2. \A q \in Requests \ {r} : Knows(q)'
    BY <1>0, <1>7, <1>10, <2>1 DEF Others, Seen, Pc
  <2> QED
    BY <1>7, <1>10, <2>2 DEF SeenVersion, Pc
<1>11. ASSUME NEW r \in Requests, Register(r) \/ CreateAdmin(r) PROVE SeenVersion'
  <2>1. account.role = "none" /\ Active = {}
    <3>1. account = Absent
      BY <1>11 DEF Register, CreateAdmin
    <3>2. Absent.role = "none"
      BY DEF Absent
    <3> QED
      BY <3>1, <3>2 DEF IInv, NothingAbsent
  <2>2. \A q \in Requests : req'[q].pc # "loaded"
    <3>1. \A q \in Requests : req[q].pc = "idle"
      BY <2>1 DEF Active
    <3>2. CASE Register(r)
      BY <1>0, <3>1, <3>2, RegisterEffect
    <3>3. CASE CreateAdmin(r)
      BY <3>1, <3>3 DEF CreateAdmin
    <3> QED
      BY <1>11, <3>2, <3>3
  <2> QED
    BY <2>2 DEF SeenVersion, Pc
<1> QED
  BY <1>4, <1>5, <1>6, <1>8, <1>9, <1>10, <1>11, Cases DEF Next, Quiet

\* The password is written only by a change, or by a login that had verified it.
LEMMA LastSetStep == IInv /\ [Next]_vars => PasswordIsLastSet'
<1> SUFFICES ASSUME IInv, [Next]_vars PROVE PasswordIsLastSet'
  OBVIOUS
<1>0. /\ TypeOK /\ RequestShape /\ FamilyIds /\ PasswordIsLastSet /\ SeenVersion
      /\ (reverted => reverted')
  BY ClockSteps DEF IInv
<1>1. ASSUME account'.password = account.password, account'.lastSet = account.lastSet
      PROVE  PasswordIsLastSet'
  BY <1>0, <1>1 DEF PasswordIsLastSet
<1>2. ASSUME account'.password = account'.lastSet PROVE PasswordIsLastSet'
  BY <1>2 DEF PasswordIsLastSet
<1>3. ASSUME NEW r \in Requests, Login(r) PROVE PasswordIsLastSet'
  <2>1. /\ account'.lastSet = account.lastSet /\ Pc(r, "loaded")
        /\ account'.password = IF Seen(r).old THEN Seen(r).password ELSE account.password
    BY <1>0, <1>3, LoginEffect, OverRequests
  <2>2. Seen(r).old /\ Seen(r).version # account.version => reverted'
    BY <1>3 DEF Login, Overtaken
  <2>3. account'.password = account.password \/ reverted'
    BY <1>0, <2>1, <2>2 DEF SeenVersion
  <2> QED
    BY <1>1, <2>1, <2>3 DEF PasswordIsLastSet
<1>4. ASSUME NEW r \in Requests, CommitPassword(r) \/ Register(r) \/ CreateAdmin(r)
      PROVE  account'.password = account'.lastSet
  BY <1>0, <1>4, PasswordEffect, RegisterEffect DEF CreateAdmin, NewUser, Absent
<1>5. ASSUME NEW r \in Requests, RegisterFailure(r) PROVE PasswordIsLastSet'
  BY <1>0, <1>1, <1>5, FailureEffect
<1> QED
  BY <1>1, <1>2, <1>3, <1>4, <1>5, AccountSteps

\* Time passes while answers are on their way: either they are in time or one is late.
LEMMA PromptStep == IInv /\ [Next]_vars => Prompt'
<1> SUFFICES ASSUME IInv, [Next]_vars, ~late' PROVE Prompt'
  BY DEF Prompt
<1>0. /\ TypeOK /\ RequestShape /\ FamilyIds /\ clock \in Nat /\ ~late
      /\ \A q \in Active : clock - req[q].sent <= Grace \div 2
  BY ClockSteps DEF IInv, Prompt
<1>1. ASSUME NEW r \in Requests, Others(r), clock' = clock,
             req'[r].pc = "idle" \/ req'[r].sent = clock
               \/ (r \in Active /\ req'[r].sent = req[r].sent)
      PROVE  Prompt'
  <2>1. \A q \in Active' :
          req'[q].sent = clock \/ (q \in Active /\ req'[q].sent = req[q].sent)
    BY <1>1 DEF Others, Active
  <2>2. \A q \in Active' : clock' - req'[q].sent <= Grace \div 2
    BY <1>0, <1>1, <2>1, HalfGrace
  <2> QED
    BY <2>2 DEF Prompt
<1>2. CASE UNCHANGED <<req, clock>>
  BY <1>0, <1>2 DEF Prompt, Active
<1>3. CASE Tick
  <2>1. \A q \in Active : ~(clock + 1 - req[q].sent > Grace \div 2)
    BY <1>3 DEF Tick
  <2>2. \A q \in Active' : clock' - req'[q].sent <= Grace \div 2
    <3>1. Active' = Active /\ req' = req /\ clock' = clock + 1
      BY <1>3 DEF Tick, Active
    <3>2. \A q \in Active : req[q].sent \in Nat
      BY <1>0, RequestFields, TimesAre DEF Active
    <3> QED
      BY <1>0, <2>1, <3>1, <3>2, HalfGrace
  <2> QED
    BY <2>2 DEF Prompt
<1>4. CASE Over \/ UNCHANGED vars
  BY <1>2, <1>4 DEF Over, vars
<1>5. ASSUME NEW r \in Requests, Quiet(r) PROVE Prompt'
  <2>1. clock' = clock
    BY <1>5, QuietEffect
  <2>2. CASE Send(r) \/ Load(r)
    <3>1. Others(r) /\ req'[r].sent = clock
      BY <1>0, <2>2, SendEffect, LoadEffect DEF Others
    <3> QED
      BY <1>1, <2>1, <3>1
  <2>3. CASE Answer(r) \/ LoseAnswer(r) \/ Refuse(r)
    BY <1>0, <1>1, <2>1, <2>3, OverRequests, IdleIs DEF Ends
  <2>4. CASE \/ BeginRefresh(r) \/ RotateToken(r) \/ DetectReuse(r) \/ BeginLogout(r)
             \/ RevokeRow(r) \/ BeginPassword(r)
    BY <1>0, <1>1, <2>1, <2>4, MovesEffect, RevokeRowEffect DEF Moves, Active, Pc
  <2> QED
    BY <1>5, <2>2, <2>3, <2>4 DEF Quiet
<1>6. ASSUME NEW r \in Requests, \/ CommitRotation(r) \/ CommitEnd(r) \/ CommitPassword(r)
                                 \/ Login(r) \/ RegisterFailure(r)
      PROVE  Prompt'
  <2>1. /\ Ends(r) \/ \E id : Answers(r, id)
        /\ r \in Active
    BY <1>0, <1>6, OverRequests DEF Active, Pc
  <2>2. clock' = clock
    BY <1>6 DEF CommitRotation, CommitEnd, CommitPassword, Login, RegisterFailure
  <2> QED
    BY <1>1, <2>1, <2>2, IdleIs DEF Ends, Answers
<1>7. ASSUME NEW r \in Requests, Register(r) PROVE Prompt'
  <2>1. clock' = clock
    BY <1>7 DEF Register
  <2>2. Others(r) /\ req'[r].sent = clock
    BY <1>0, <1>7, RegisterEffect DEF Others
  <2> QED
    BY <1>1, <2>1, <2>2
<1>8. ASSUME NEW r \in Requests, CreateAdmin(r) PROVE Prompt'
  BY <1>2, <1>8 DEF CreateAdmin
<1> QED
  BY <1>3, <1>4, <1>5, <1>6, <1>7, <1>8, Cases DEF Next, Quiet

\* A token that appears while somebody ends sessions replaces one that he has still to
\* reach, which is what overlap records.
LEMMA EndsStep == IInv /\ [Next]_vars => EndsAll'
<1> SUFFICES ASSUME IInv, [Next]_vars PROVE EndsAll'
  OBVIOUS
<1> DEFINE Reaches(q) == Pc(q, "revoking") =>
             \A i \in Ids : Unrevoked(i) /\ (SetsPassword(q) \/ tokens[i].family = Family(q))
               => i \in req[q].todo \cup req[q].marked \/ tokens[i].family \in overlap
           n == Len(tokens) + 1
<1>0. /\ TypeOK /\ RequestShape /\ FamilyIds /\ RowLocks /\ AccountLock /\ NothingAbsent
      /\ n \notin Ids /\ \A q \in Requests : Reaches(q)
  BY IdsAre DEF IInv, EndsAll
<1>1. \A q \in Requests : Pc(q, "revoking") =>
        SetsPassword(q) \/ (req[q].token \in Ids /\ Family(q) \in Ids)
  BY <1>0 DEF RequestShape, Shape, Carrying, SetsPassword, Pc, Family, FamilyIds
<1>2. ASSUME NEW r \in Requests, Others(r), UNCHANGED <<tokens, overlap>>, Reaches(r)'
      PROVE  EndsAll'
  <2>1. \A q \in Requests \ {r} : Reaches(q)'
    BY <1>0, <1>2 DEF Others, Pc, Unrevoked, SetsPassword, Family, Ids
  <2> QED
    BY <1>2, <2>1 DEF EndsAll
<1>3. CASE UNCHANGED <<tokens, overlap, req>>
  BY <1>0, <1>3 DEF EndsAll, Pc, Unrevoked, SetsPassword, Family, Ids
<1>4. ASSUME NEW r \in Requests, Others(r), req'[r].pc # "revoking", NEW X, NEW t \in Time,
             Kept(X, t), overlap \subseteq overlap',
             NoneAdded \/ \E f, v :
               /\ Added(f, v)
               /\ \A q \in Requests \ {r} :
                    Pc(q, "revoking") /\ (SetsPassword(q) \/ f = Family(q)) => f \in overlap'
      PROVE  EndsAll'
  <2>1. ASSUME NEW q \in Requests \ {r}, Pc(q, "revoking")', NEW i \in Ids', Unrevoked(i)',
               (SetsPassword(q) \/ tokens[i].family = Family(q))'
        PROVE  (i \in req[q].todo \cup req[q].marked \/ tokens[i].family \in overlap)'
    <3>1. req'[q] = req[q] /\ Pc(q, "revoking")
      BY <1>4, <2>1 DEF Others, Pc
    <3>2. SetsPassword(q)' = SetsPassword(q) /\ (SetsPassword(q) \/ Family(q)' = Family(q))
      BY <1>1, <1>4, <3>1 DEF SetsPassword, Family, Kept
    <3>3. CASE i \in Ids
      <4>1. Unrevoked(i) /\ tokens'[i].family = tokens[i].family
        BY <1>4, <2>1, <3>3, KeptUnrevoked DEF Kept
      <4>2. SetsPassword(q) \/ tokens[i].family = Family(q)
        BY <2>1, <3>2, <4>1
      <4> QED
        BY <1>0, <1>4, <3>1, <3>3, <4>1, <4>2
    <3>4. CASE i \notin Ids
      <4>1. PICK f, v : /\ Added(f, v)
                        /\ \A p \in Requests \ {r} :
                             Pc(p, "revoking") /\ (SetsPassword(p) \/ f = Family(p))
                               => f \in overlap'
        BY <1>4, <2>1, <3>4 DEF NoneAdded
      <4>2. i = n /\ tokens'[n].family = f
        BY <2>1, <3>4, <4>1 DEF Added
      <4>3. SetsPassword(q) \/ f = Family(q)
        BY <2>1, <3>2, <4>2
      <4>4. f \in overlap'
        BY <3>1, <4>1, <4>3
      <4> QED
        BY <4>2, <4>4
    <3> QED
      BY <3>3, <3>4
  <2>2. ~Pc(r, "revoking")'
    BY <1>4 DEF Pc
  <2> QED
    BY <2>1, <2>2 DEF EndsAll
<1>5. CASE Tick \/ Over \/ UNCHANGED vars
  BY <1>3, <1>5 DEF Tick, Over, vars, past
<1>6. ASSUME NEW r \in Requests, Quiet(r) PROVE EndsAll'
  <2>1. UNCHANGED <<tokens, overlap>>
    BY <1>6, QuietEffect
  <2>2. CASE DetectReuse(r) \/ BeginLogout(r)
    <3>1. /\ Others(r) /\ req'[r].todo = UnrevokedOf(Family(r)) /\ req'[r].op \in {"refresh", "logout"}
          /\ req'[r].token = req[r].token
      BY <1>0, <2>2, MovesEffect DEF Moves
    <3>2. ~SetsPassword(r)' /\ Family(r)' = Family(r)
      BY <2>1, <3>1 DEF SetsPassword, Family
    <3>3. Reaches(r)'
      BY <2>1, <3>1, <3>2 DEF Ids, Unrevoked, UnrevokedOf
    <3> QED
      BY <1>2, <2>1, <3>1, <3>3
  <2>3. CASE BeginPassword(r)
    <3>1. Others(r) /\ req'[r].todo = {i \in Ids : Unrevoked(i)}
      BY <1>0, <2>3, MovesEffect DEF Moves
    <3>2. Reaches(r)'
      BY <2>1, <3>1 DEF Ids, Unrevoked
    <3> QED
      BY <1>2, <2>1, <3>1, <3>2
  <2>4. CASE RevokeRow(r)
    <3>1. /\ Moves(r, "revoking") /\ Pc(r, "revoking")
          /\ \A i \in req[r].todo \cup req[r].marked :
               Unrevoked(i) => i \in req'[r].todo \cup req'[r].marked
      BY <1>0, <2>4, RevokeRowEffect
    <3>2. Family(r)' = Family(r) /\ SetsPassword(r)' = SetsPassword(r)
      BY <2>1, <3>1 DEF Moves, Family, SetsPassword
    <3>3. Reaches(r)'
      BY <1>0, <2>1, <3>1, <3>2 DEF Ids, Unrevoked
    <3> QED
      BY <1>2, <2>1, <3>1, <3>3 DEF Moves
  <2>5. CASE \/ Send(r) \/ Answer(r) \/ LoseAnswer(r) \/ BeginRefresh(r) \/ RotateToken(r)
             \/ Load(r) \/ Refuse(r)
    <3>1. Others(r) /\ req'[r].pc # "revoking"
      BY <1>0, <2>5, SendEffect, LoadEffect, OverRequests, MovesEffect, IdleIs
      DEF Others, Moves, Ends
    <3>2. Reaches(r)'
      BY <3>1 DEF Pc
    <3> QED
      BY <1>2, <2>1, <3>1, <3>2
  <2> QED
    BY <1>6, <2>2, <2>3, <2>4, <2>5 DEF Quiet
<1>7. ASSUME NEW r \in Requests, \/ CommitRotation(r) \/ CommitEnd(r) \/ CommitPassword(r)
                                 \/ Login(r) \/ RegisterFailure(r) \/ Register(r)
      PROVE  Others(r) /\ req'[r].pc # "revoking"
  BY <1>0, <1>7, OverRequests, RegisterEffect, IdleIs DEF Ends, Answers, Others
<1>8. ASSUME NEW r \in Requests, CommitRotation(r) PROVE EndsAll'
  <2> DEFINE i == req[r].token
             f == Family(r)
  <2>1. /\ Kept({i}, req[r].now) /\ Added(f, tokens[i].auth) /\ i \in Ids /\ Pc(r, "rotating")
        /\ req[r].op = "refresh" /\ req[r].now \in Time /\ Unrevoked(i) /\ tokens[i].family = f
    BY <1>0, <1>8, RotationEffect, OverRequests, RequestFields DEF RowLocks, Family
  <2>2. overlap' = IF \E q \in Requests : i \in req[q].todo THEN overlap \cup {f} ELSE overlap
    BY <1>8 DEF CommitRotation
  <2>3. ASSUME NEW q \in Requests \ {r}, Pc(q, "revoking"), SetsPassword(q) \/ f = Family(q)
        PROVE  f \in overlap'
    <3>1. i \in req[q].todo \cup req[q].marked \/ f \in overlap
      BY <1>0, <2>1, <2>3
    <3>2. i \notin req[q].marked
      BY <1>0, <2>1 DEF RowLocks, Holds, Pc
    <3> QED
      BY <2>2, <3>1, <3>2
  <2> QED
    BY <1>4, <1>7, <1>8, <2>1, <2>2, <2>3
<1>9. ASSUME NEW r \in Requests, CommitEnd(r) PROVE EndsAll'
  <2>1. Kept(req[r].marked, req[r].now) /\ NoneAdded /\ req[r].now \in Time /\ overlap' = overlap
    BY <1>0, <1>9, EndEffect, RequestFields DEF CommitEnd
  <2> QED
    BY <1>4, <1>7, <1>9, <2>1
<1>10. \A q \in Requests : Pc(q, "revoking") /\ ~SetsPassword(q) => Family(q) # n
  BY <1>0, <1>1
<1>11. ASSUME NEW r \in Requests, CommitPassword(r) PROVE EndsAll'
  <2>1. Kept(req[r].marked, req[r].now) /\ req[r].now \in Time /\ overlap' = overlap
    BY <1>0, <1>11, PasswordEffect, RequestFields DEF CommitPassword, past
  <2>2. NoneAdded \/ \E v : Added(n, v)
    BY <1>0, <1>11, PasswordEffect
  <2>3. \A q \in Requests \ {r} : Pc(q, "revoking") => ~SetsPassword(q)
    BY <1>0, <1>11, OverRequests DEF AccountLock, Changing
  <2> QED
    BY <1>4, <1>7, <1>10, <1>11, <2>1, <2>2, <2>3
<1>12. ASSUME NEW r \in Requests, Login(r) PROVE EndsAll'
  <2>1. Kept({}, clock) /\ clock \in Time /\ Added(n, Seen(r).version)
    BY <1>0, <1>12, LoginEffect DEF TypeOK
  <2>2. overlap \subseteq overlap' /\ AccountFree(r)
    BY <1>12 DEF Login
  <2>3. \A q \in Requests \ {r} : Pc(q, "revoking") => ~SetsPassword(q)
    BY <2>2 DEF AccountFree, Pc
  <2> QED
    BY <1>4, <1>7, <1>10, <1>12, <2>1, <2>2, <2>3
<1>13. ASSUME NEW r \in Requests, RegisterFailure(r) PROVE EndsAll'
  <2>1. UNCHANGED <<tokens, overlap>> /\ Others(r) /\ req'[r].pc # "revoking"
    BY <1>7, <1>13 DEF RegisterFailure, past
  <2>2. Reaches(r)'
    BY <2>1 DEF Pc
  <2> QED
    BY <1>2, <2>1, <2>2
<1>14. ASSUME NEW r \in Requests, Register(r) PROVE EndsAll'
  <2>1. \A q \in Requests : ~Pc(q, "revoking")
    <3>1. account = Absent /\ Absent.role = "none"
      BY <1>14 DEF Register, Absent
    <3> QED
      BY <1>0, <3>1 DEF NothingAbsent, Active, Pc
  <2>2. \A q \in Requests : ~Pc(q, "revoking")'
    BY <1>7, <1>14, <2>1 DEF Others, Pc
  <2> QED
    BY <2>2 DEF EndsAll
<1>15. ASSUME NEW r \in Requests, CreateAdmin(r) PROVE EndsAll'
  BY <1>3, <1>15 DEF CreateAdmin, past
<1> QED
  BY <1>5, <1>6, <1>8, <1>9, <1>11, <1>12, <1>13, <1>14, <1>15, Cases DEF Next, Quiet

\* When an end is committed every session it was to end is over, or has overlapped.
LEMMA EndedStep == IInv /\ [Next]_vars => EndedStaysEnded'
<1> SUFFICES ASSUME IInv, [Next]_vars PROVE EndedStaysEnded'
  OBVIOUS
<1> DEFINE n == Len(tokens) + 1
<1>0. /\ TypeOK /\ RequestShape /\ FamilyIds /\ RowLocks /\ NothingAbsent /\ EndsAll
      /\ EndedStaysEnded /\ n \notin Ids /\ ended \subseteq Ids
  BY IdsAre DEF IInv, TypeOK
<1>1. ASSUME UNCHANGED <<tokens, ended, overlap>>, account'.version = account.version
      PROVE  EndedStaysEnded'
  BY <1>0, <1>1 DEF EndedStaysEnded, Unrevoked, Ids
<1>2. CASE Tick \/ Over \/ UNCHANGED vars
  BY <1>1, <1>2 DEF Tick, Over, vars, past
<1>3. ASSUME NEW r \in Requests, Quiet(r) PROVE EndedStaysEnded'
  BY <1>1, <1>3, QuietEffect
<1>4. ASSUME NEW r \in Requests, RegisterFailure(r) PROVE EndedStaysEnded'
  BY <1>0, <1>1, <1>4, FailureEffect DEF past
<1>5. ASSUME NEW r \in Requests, CommitRotation(r) PROVE EndedStaysEnded'
  <2> DEFINE i == req[r].token
             f == Family(r)
  <2>1. /\ Kept({i}, req[r].now) /\ Added(f, tokens[i].auth) /\ i \in Ids
        /\ req[r].now \in Time /\ Unrevoked(i) /\ tokens[i].family = f
    BY <1>0, <1>5, RotationEffect, OverRequests, RequestFields DEF RowLocks, Family
  <2>2. overlap \subseteq overlap' /\ ended' = ended /\ account' = account
    BY <1>5 DEF CommitRotation
  <2>3. \A j \in Ids : Unrevoked(j)' => Unrevoked(j)
    BY <2>1, KeptUnrevoked
  <2>4. ASSUME NEW j \in Ids', Unrevoked(j)', (tokens[j].family \in ended \/ tokens[j].auth # account.version)'
        PROVE  tokens'[j].family \in overlap'
    <3>1. CASE j \in Ids
      BY <1>0, <2>1, <2>2, <2>3, <2>4, <3>1 DEF Kept, EndedStaysEnded
    <3>2. CASE j = n
      <4>1. tokens'[j].family = f /\ tokens'[j].auth = tokens[i].auth
        BY <2>1, <3>2 DEF Added
      <4>2. f \in overlap
        BY <1>0, <2>1, <2>2, <2>4, <4>1 DEF EndedStaysEnded
      <4> QED
        BY <2>2, <4>1, <4>2
    <3> QED
      BY <2>1, <3>1, <3>2 DEF Added
  <2> QED
    BY <2>4 DEF EndedStaysEnded
<1>6. ASSUME NEW r \in Requests, CommitEnd(r) PROVE EndedStaysEnded'
  <2>1. /\ Kept(req[r].marked, req[r].now) /\ NoneAdded /\ req[r].now \in Time
        /\ Pc(r, "revoking") /\ req[r].todo = {}
    BY <1>0, <1>6, EndEffect, RequestFields
  <2>2. overlap' = overlap /\ ended' = ended \cup {Family(r)} /\ account' = account
    BY <1>6 DEF CommitEnd
  <2>3. \A j \in Ids : Unrevoked(j)' => Unrevoked(j) /\ j \notin req[r].marked
    BY <2>1, KeptUnrevoked
  <2>4. \A j \in Ids : Unrevoked(j)' /\ tokens[j].family = Family(r) => tokens[j].family \in overlap
    BY <1>0, <2>1, <2>3 DEF EndsAll
  <2>5. \A j \in Ids : Unrevoked(j)' /\ (tokens[j].family \in ended' \/ tokens[j].auth # account.version)
          => tokens[j].family \in overlap
    BY <1>0, <2>2, <2>3, <2>4 DEF EndedStaysEnded
  <2> QED
    BY <2>1, <2>2, <2>5 DEF EndedStaysEnded, Kept, NoneAdded
<1>7. ASSUME NEW r \in Requests, CommitPassword(r) PROVE EndedStaysEnded'
  <2>1. /\ Kept(req[r].marked, req[r].now) /\ req[r].now \in Time
        /\ NoneAdded \/ Added(n, account'.version)
    BY <1>0, <1>7, PasswordEffect, RequestFields
  <2>2. /\ overlap' = overlap /\ ended' = ended /\ Pc(r, "revoking") /\ SetsPassword(r)
        /\ req[r].todo = {}
    BY <1>7 DEF CommitPassword, RevokesAll, past, Pc
  <2>3. \A j \in Ids : Unrevoked(j)' => Unrevoked(j) /\ j \notin req[r].marked
    BY <2>1, KeptUnrevoked
  <2>4. \A j \in Ids : Unrevoked(j)' => tokens[j].family \in overlap
    BY <1>0, <2>2, <2>3 DEF EndsAll
  <2>5. ASSUME NEW j \in Ids', Unrevoked(j)', (tokens[j].family \in ended \/ tokens[j].auth # account.version)'
        PROVE  tokens'[j].family \in overlap'
    <3>1. CASE j \in Ids
      BY <2>1, <2>2, <2>4, <2>5, <3>1 DEF Kept
    <3>2. CASE j \notin Ids
      <4>1. j = n /\ tokens'[n].family = n /\ tokens'[n].auth = account'.version
        BY <2>1, <2>5, <3>2 DEF NoneAdded, Added
      <4> QED
        BY <1>0, <2>2, <2>5, <4>1
    <3> QED
      BY <3>1, <3>2
  <2> QED
    BY <2>5 DEF EndedStaysEnded
<1>8. ASSUME NEW r \in Requests, Login(r) PROVE EndedStaysEnded'
  <2>1. /\ Kept({}, clock) /\ clock \in Time /\ Added(n, Seen(r).version)
        /\ account'.version = account.version /\ Len(tokens') = n
    BY <1>0, <1>8, LoginEffect DEF TypeOK, Added
  <2>2. /\ overlap' = IF Seen(r).version # account.version THEN overlap \cup {n} ELSE overlap
        /\ ended' = ended
    BY <1>8, <2>1 DEF Login, Overtaken
  <2>3. \A j \in Ids : Unrevoked(j)' <=> Unrevoked(j)
    BY <2>1, KeptUnrevoked
  <2>4. ASSUME NEW j \in Ids', Unrevoked(j)', (tokens[j].family \in ended \/ tokens[j].auth # account.version)'
        PROVE  tokens'[j].family \in overlap'
    <3>1. CASE j \in Ids
      BY <1>0, <2>1, <2>2, <2>3, <2>4, <3>1 DEF Kept, EndedStaysEnded
    <3>2. CASE j = n
      <4>1. tokens'[j].family = n /\ tokens'[j].auth = Seen(r).version
        BY <2>1, <3>2 DEF Added
      <4> QED
        BY <1>0, <2>1, <2>2, <2>4, <4>1
    <3> QED
      BY <2>1, <3>1, <3>2 DEF Added
  <2> QED
    BY <2>4 DEF EndedStaysEnded
<1>9. ASSUME NEW r \in Requests, Register(r) \/ CreateAdmin(r) PROVE Ids = {}
  <2>1. account = Absent /\ Absent.role = "none"
    BY <1>9 DEF Register, CreateAdmin, Absent
  <2> QED
    BY <1>0, <2>1, IdsAre DEF NothingAbsent
<1>10. ASSUME NEW r \in Requests, Register(r) PROVE EndedStaysEnded'
  <2>1. Added(n, 0) /\ account'.version = 0 /\ Ids = {}
    BY <1>0, <1>9, <1>10, RegisterEffect
  <2>2. UNCHANGED <<ended, overlap>>
    BY <1>10 DEF Register, past
  <2> QED
    BY <1>0, <2>1, <2>2 DEF Added, EndedStaysEnded
<1>11. ASSUME NEW r \in Requests, CreateAdmin(r) PROVE EndedStaysEnded'
  <2>1. Ids' = {}
    BY <1>9, <1>11 DEF CreateAdmin, Ids
  <2> QED
    BY <2>1 DEF EndedStaysEnded
<1> QED
  BY <1>2, <1>3, <1>4, <1>5, <1>6, <1>7, <1>8, <1>10, <1>11, Cases DEF Next, Quiet

\* The time a token was revoked at is never written again.
LEMMA ReuseStep == IInv /\ [Next]_vars => ReuseIsOld'
<1> SUFFICES ASSUME IInv, [Next]_vars PROVE ReuseIsOld'
  OBVIOUS
<1> DEFINE Old(q) == req[q].op = "refresh" /\ Pc(q, "revoking") =>
             /\ Replaced(q) /\ ~WithinGrace(q)
             /\ \A i \in req[q].todo \cup req[q].marked : tokens[i].family = Family(q)
<1>0. TypeOK /\ RequestShape /\ FamilyIds /\ \A q \in Requests : Old(q)
  BY DEF IInv, ReuseIsOld
<1>1. \A i \in Ids : /\ ~Unrevoked(i) => tokens'[i].revoked = tokens[i].revoked /\ ~Unrevoked(i)'
                     /\ tokens'[i].family = tokens[i].family
  BY TokensGrow DEF Unrevoked
<1>2. ASSUME NEW q \in Requests, Carrying(q), Replaced(q), ~WithinGrace(q),
             req'[q].token = req[q].token, req'[q].now = req[q].now,
             NEW I \in SUBSET Ids, \A i \in I : tokens[i].family = Family(q),
             req'[q].todo \cup req'[q].marked \subseteq I
      PROVE  Old(q)'
  <2>1. req[q].token \in Ids
    BY <1>0, <1>2 DEF RequestShape, Shape
  <2>2. tokens'[req[q].token].revoked = tokens[req[q].token].revoked /\ ~Unrevoked(req[q].token)'
    BY <1>1, <1>2, <2>1 DEF Replaced
  <2>3. Family(q)' = Family(q)
    BY <1>1, <1>2, <2>1 DEF Family
  <2>4. \A i \in req'[q].todo \cup req'[q].marked : tokens'[i].family = Family(q)
    BY <1>1, <1>2
  <2> QED
    BY <1>2, <2>2, <2>3, <2>4 DEF Replaced, WithinGrace, Unrevoked
<1>3. ASSUME NEW q \in Requests, req'[q] = req[q] PROVE Old(q)'
  <2>1. CASE req[q].op = "refresh" /\ Pc(q, "revoking")
    <3>1. req[q].todo \cup req[q].marked \in SUBSET Ids
      BY <1>0, RequestFields
    <3> QED
      BY <1>0, <1>2, <1>3, <2>1, <3>1 DEF Carrying, Pc
  <2>2. CASE ~(req[q].op = "refresh" /\ Pc(q, "revoking"))
    BY <1>3, <2>2 DEF Pc
  <2> QED
    BY <2>1, <2>2
<1>4. ASSUME NEW r \in Requests, Others(r), Old(r)' PROVE ReuseIsOld'
  BY <1>3, <1>4 DEF Others, ReuseIsOld
<1>5. CASE UNCHANGED req
  BY <1>3, <1>5 DEF ReuseIsOld
<1>6. CASE Tick \/ Over \/ UNCHANGED vars
  BY <1>5, <1>6 DEF Tick, Over, vars
<1>7. ASSUME NEW r \in Requests, DetectReuse(r) PROVE ReuseIsOld'
  <2>1. /\ Moves(r, "revoking") /\ Replaced(r) /\ ~WithinGrace(r) /\ Carrying(r)
        /\ req'[r].now = req[r].now /\ req'[r].todo = UnrevokedOf(Family(r))
        /\ req'[r].marked = {}
    BY <1>0, <1>7, MovesEffect DEF LocksToken, Carrying, Pc
  <2>2. /\ UnrevokedOf(Family(r)) \in SUBSET Ids
        /\ \A i \in UnrevokedOf(Family(r)) : tokens[i].family = Family(r)
    BY DEF UnrevokedOf
  <2> QED
    BY <1>2, <1>4, <2>1, <2>2 DEF Moves
<1>8. ASSUME NEW r \in Requests, RevokeRow(r) PROVE ReuseIsOld'
  <2>1. /\ Moves(r, "revoking") /\ Pc(r, "revoking") /\ req'[r].now = req[r].now
        /\ req'[r].todo \cup req'[r].marked \subseteq req[r].todo \cup req[r].marked
    BY <1>0, <1>8, RevokeRowEffect
  <2>2. CASE req[r].op = "refresh"
    <3>1. req[r].todo \cup req[r].marked \in SUBSET Ids
      BY <1>0, RequestFields
    <3> QED
      BY <1>0, <1>2, <1>4, <2>1, <2>2, <3>1 DEF Moves, Carrying, Pc
  <2>3. CASE req[r].op # "refresh"
    BY <1>4, <2>1, <2>3 DEF Moves
  <2> QED
    BY <2>2, <2>3
<1>9. ASSUME NEW r \in Requests, BeginLogout(r) \/ BeginPassword(r) PROVE ReuseIsOld'
  <2>1. Others(r) /\ req'[r].op # "refresh"
    BY <1>0, <1>9, MovesEffect DEF Moves, SetsPassword
  <2> QED
    BY <1>4, <2>1
<1>10. ASSUME NEW r \in Requests,
              \/ Send(r) \/ Answer(r) \/ LoseAnswer(r) \/ BeginRefresh(r) \/ RotateToken(r)
              \/ Load(r) \/ Refuse(r) \/ CommitRotation(r) \/ CommitEnd(r) \/ CommitPassword(r)
              \/ Login(r) \/ RegisterFailure(r) \/ Register(r)
       PROVE  ReuseIsOld'
  <2>1. Others(r) /\ req'[r].pc # "revoking"
    BY <1>0, <1>10, SendEffect, LoadEffect, OverRequests, MovesEffect, RegisterEffect, IdleIs
    DEF Others, Moves, Ends, Answers
  <2> QED
    BY <1>4, <2>1 DEF Pc
<1>11. ASSUME NEW r \in Requests, CreateAdmin(r) PROVE ReuseIsOld'
  BY <1>5, <1>11 DEF CreateAdmin
<1> QED
  BY <1>6, <1>7, <1>8, <1>9, <1>10, <1>11, Cases DEF Next

\* An issued token is nobody's until its answer arrives, and then its browser's.
LEMMA CookiesStep == IInv /\ [Next]_vars => Cookies'
<1> SUFFICES ASSUME IInv, [Next]_vars PROVE Cookies'
  OBVIOUS
<1> DEFINE n == Len(tokens) + 1
           Issuing(q) == Pc(q, "answered") /\ req[q].issued # None
           Goes(q) == UnrevokedOf(tokens[req[q].issued].family) # {} => Unrevoked(req[q].issued)
           Own(q) == /\ \A b \in Browsers : jar[b] # req[q].issued
                     /\ \A r \in Requests : Carrying(r) => req[r].token # req[q].issued
                     /\ \A r \in Requests \ {q} : req[r].issued # req[q].issued
                     /\ Goes(q)
<1>0. /\ TypeOK /\ RequestShape /\ FamilyIds /\ RowLocks /\ OneLiveToken
      /\ n \notin Ids /\ None \notin Ids /\ None = 0 /\ n # None
      /\ \A b \in Browsers : jar[b] \in Ids \cup {None}
      /\ \A q \in Requests : req[q].issued \in Ids \cup {None}
      /\ \A q \in Requests : Carrying(q) => req[q].token \in Ids
      /\ jar \in [Browsers -> 0..Len(tokens)]
  <2>1. \A q \in Requests : req[q].issued \in Ids \cup {None}
    BY IdsAre, RequestFields, TimesAre DEF IInv, RequestShape, Shape
  <2> QED
    BY <2>1, IdsAre, TimesAre DEF IInv, TypeOK, RequestShape, Shape
<1>1. /\ \A b, c \in Browsers : jar[b] = jar[c] /\ jar[b] # None => b = c
      /\ \A r \in Requests, b \in Browsers :
           Carrying(r) /\ jar[b] = req[r].token => req[r].browser = b
      /\ \A q \in Requests : Issuing(q) => Own(q)
  BY DEF IInv, Cookies
<1>2. \A i \in Ids : tokens'[i].family = tokens[i].family
  BY TokensGrow
\* What the rest of the table is to a token that was issued.
<1>3. ASSUME NEW q \in Requests, Issuing(q), req'[q] = req[q], UNCHANGED tokens PROVE Goes(q)'
  BY <1>1, <1>3 DEF UnrevokedOf, Unrevoked, Ids
<1>4. ASSUME NEW q \in Requests, Issuing(q), req'[q] = req[q], NEW X, NEW t \in Time, Kept(X, t),
             NoneAdded \/ \E f, v : Added(f, v) /\ f # tokens[req[q].issued].family
      PROVE  Goes(q)'
  <2> DEFINE i == req[q].issued
  <2>0. i \in Ids
    BY <1>0, <1>4
  <2>1. ASSUME NEW j \in Ids', tokens'[j].family = tokens'[i].family, Unrevoked(j)'
        PROVE  tokens'[i].revoked = Null
    <3>1. j \in Ids
      <4>1. CASE NoneAdded
        BY <2>1, <4>1 DEF NoneAdded
      <4>2. CASE \E f, v : Added(f, v) /\ f # tokens[i].family
        BY <1>2, <2>0, <2>1, <4>2 DEF Added
      <4> QED
        BY <1>4, <4>1, <4>2
    <3>2. Unrevoked(j) /\ tokens[j].family = tokens[i].family
      BY <1>2, <1>4, <2>0, <2>1, <3>1, KeptUnrevoked
    <3>3. Unrevoked(i)
      BY <1>1, <1>4, <3>1, <3>2 DEF UnrevokedOf
    <3>4. j = i
      BY <1>0, <2>0, <3>1, <3>2, <3>3 DEF OneLiveToken
    <3> QED
      BY <2>1, <3>4 DEF Unrevoked
  <2> QED
    BY <1>4, <2>1 DEF UnrevokedOf, Unrevoked
\* The jars do not change and nothing is issued.
<1>5. ASSUME NEW r \in Requests, Others(r), UNCHANGED jar,
             req'[r].issued \in {None, req[r].issued}, ~Issuing(r)',
             Carrying(r)' => /\ \A b \in Browsers : jar[b] = req'[r].token => req'[r].browser = b
                             /\ \A q \in Requests \ {r} : Issuing(q) => req'[r].token # req[q].issued,
             \A q \in Requests \ {r} : Issuing(q) => Goes(q)'
      PROVE  Cookies'
  <2>1. \A q \in Requests \ {r} : /\ req'[q] = req[q] /\ (Issuing(q)' <=> Issuing(q))
                                  /\ (Carrying(q)' <=> Carrying(q))
    BY <1>5 DEF Others, Carrying, Pc
  <2>2. \A q \in Requests \ {r} : Issuing(q)' => Own(q)'
    BY <1>1, <1>5, <2>1
  <2>3. \A p \in Requests, b \in Browsers :
          Carrying(p)' /\ jar[b] = req'[p].token => req'[p].browser = b
    BY <1>1, <1>5, <2>1
  <2> QED
    BY <1>1, <1>5, <2>2, <2>3 DEF Cookies
\* Nor does it carry anything it did not.
<1>6. ASSUME NEW r \in Requests, Others(r), UNCHANGED jar,
             req'[r].issued \in {None, req[r].issued}, ~Issuing(r)',
             Carrying(r)' => Carrying(r) /\ req'[r].token = req[r].token
                             /\ req'[r].browser = req[r].browser,
             \A q \in Requests \ {r} : Issuing(q) => Goes(q)'
      PROVE  Cookies'
  BY <1>1, <1>5, <1>6
\* A token is issued.
<1>7. ASSUME NEW r \in Requests, Others(r), UNCHANGED jar, req'[r].issued = n,
             req'[r].pc = "answered", NEW f, NEW v, Added(f, v),
             \A q \in Requests \ {r} : Issuing(q) => Goes(q)'
      PROVE  Cookies'
  <2>1. \A q \in Requests \ {r} : /\ req'[q] = req[q] /\ (Issuing(q)' <=> Issuing(q))
                                  /\ (Carrying(q)' <=> Carrying(q))
    BY <1>7 DEF Others, Carrying, Pc
  <2>2. ~Carrying(r)'
    BY <1>7 DEF Carrying, Pc
  <2>3. \A q \in Requests \ {r} : Issuing(q)' => Own(q)'
    BY <1>0, <1>1, <1>7, <2>1, <2>2
  <2>4. Goes(r)'
    BY <1>7 DEF Added, Unrevoked
  <2>5. Own(r)'
    BY <1>0, <1>7, <2>1, <2>2, <2>4
  <2>6. \A p \in Requests, b \in Browsers :
          Carrying(p)' /\ jar[b] = req'[p].token => req'[p].browser = b
    BY <1>1, <2>1, <2>2
  <2> QED
    BY <1>1, <1>7, <2>3, <2>5, <2>6 DEF Cookies
<1>8. CASE UNCHANGED <<req, jar, tokens>>
  BY <1>1, <1>8 DEF Cookies, Carrying, Pc, UnrevokedOf, Unrevoked, Ids
<1>9. CASE Tick \/ Over \/ UNCHANGED vars
  BY <1>8, <1>9 DEF Tick, Over, vars
<1>10. ASSUME NEW r \in Requests, Quiet(r), Others(r)
       PROVE  \A q \in Requests \ {r} : Issuing(q) => Goes(q)'
  BY <1>3, <1>10, QuietEffect DEF Others
<1>11. ASSUME NEW r \in Requests, Send(r) PROVE Cookies'
  <2>1. /\ Others(r) /\ UNCHANGED jar /\ req'[r].issued = None /\ req'[r].browser \in Browsers
        /\ req'[r].token = jar[req'[r].browser] /\ jar[req'[r].browser] # None
    BY <1>0, <1>11, SendEffect
  <2>2. \A b \in Browsers : jar[b] = req'[r].token => req'[r].browser = b
    BY <1>1, <2>1
  <2>3. \A q \in Requests \ {r} : Issuing(q) => req'[r].token # req[q].issued
    BY <1>1, <2>1
  <2>4. \A q \in Requests \ {r} : Issuing(q) => Goes(q)'
    BY <1>10, <1>11, <2>1 DEF Quiet
  <2> QED
    BY <1>5, <2>1, <2>2, <2>3, <2>4
<1>12. ASSUME NEW r \in Requests, \/ BeginRefresh(r) \/ RotateToken(r) \/ DetectReuse(r)
                                  \/ BeginLogout(r) \/ RevokeRow(r) \/ BeginPassword(r)
       PROVE  Cookies'
  <2>1. PICK pc \in {"waiting", "rotating", "revoking"} : Moves(r, pc)
    BY <1>0, <1>12, MovesEffect, RevokeRowEffect
  <2>2. \A q \in Requests \ {r} : Issuing(q) => Goes(q)'
    BY <1>10, <1>12, <2>1 DEF Quiet, Moves
  <2>3. ~Issuing(r)' /\ (Carrying(r)' => Carrying(r))
    BY <2>1 DEF Moves, Carrying, Pc
  <2> QED
    BY <1>6, <2>1, <2>2, <2>3 DEF Moves
<1>13. ASSUME NEW r \in Requests, Load(r) PROVE Cookies'
  <2>1. /\ Others(r) /\ UNCHANGED jar /\ req'[r].issued = None /\ ~Carrying(r)'
    BY <1>0, <1>13, LoadEffect DEF Others, Carrying
  <2>2. \A q \in Requests \ {r} : Issuing(q) => Goes(q)'
    BY <1>10, <1>13, <2>1 DEF Quiet
  <2> QED
    BY <1>6, <2>1, <2>2
<1>14. ASSUME NEW r \in Requests, LoseAnswer(r) \/ Refuse(r) \/ RegisterFailure(r) PROVE Cookies'
  <2>1. Ends(r) /\ UNCHANGED <<tokens, jar>>
    BY <1>0, <1>14, OverRequests, RefuseEffect, FailureEffect DEF LoseAnswer
  <2>2. \A q \in Requests \ {r} : Issuing(q) => Goes(q)'
    BY <1>3, <2>1 DEF Ends, Others
  <2>3. req'[r].issued = None /\ ~Carrying(r)'
    BY <1>0, <2>1, IdleIs DEF Ends, Carrying
  <2> QED
    BY <1>6, <2>1, <2>2, <2>3 DEF Ends
<1>15. ASSUME NEW r \in Requests, Answer(r) PROVE Cookies'
  <2>1. Ends(r) /\ Pc(r, "answered") /\ UNCHANGED tokens
    BY <1>0, <1>15, OverRequests DEF Answer
  <2>2. \A q \in Requests \ {r} : /\ req'[q] = req[q] /\ (Issuing(q)' <=> Issuing(q))
                                  /\ (Carrying(q)' <=> Carrying(q))
    BY <2>1 DEF Ends, Others, Carrying, Pc
  <2>3. ~Carrying(r)' /\ ~Issuing(r)' /\ req'[r].issued = None
    BY <1>0, <2>1, IdleIs DEF Ends, Carrying, Pc
  <2>4. \A q \in Requests \ {r} : Issuing(q) => Goes(q)'
    BY <1>3, <2>1, <2>2
  <2>5. CASE req[r].issued # None
    <3> DEFINE i == req[r].issued
    <3>1. jar' = [jar EXCEPT ![req[r].browser] = i]
      BY <1>15, <2>5 DEF Answer
    <3>2. \A b \in Browsers : jar'[b] = jar[b] \/ (b = req[r].browser /\ jar'[b] = i)
      BY <1>0, <3>1
    <3>3. Own(r) /\ i # None
      BY <1>1, <2>1, <2>5
    <3>4. \A b, c \in Browsers : jar'[b] = jar'[c] /\ jar'[b] # None => b = c
      BY <1>1, <3>2, <3>3
    <3>5. \A p \in Requests, b \in Browsers :
            Carrying(p)' /\ jar'[b] = req'[p].token => req'[p].browser = b
      BY <1>1, <2>2, <2>3, <3>2, <3>3
    <3>6. \A q \in Requests \ {r} : Issuing(q)' => Own(q)'
      BY <1>1, <2>2, <2>3, <2>4, <3>2, <3>3
    <3> QED
      BY <2>3, <3>4, <3>5, <3>6 DEF Cookies
  <2>6. CASE req[r].issued = None
    <3>2. \A b \in Browsers : jar'[b] = jar[b] \/ jar'[b] = None
      BY <1>0, <1>15, <2>6 DEF Answer
    <3>4. \A b, c \in Browsers : jar'[b] = jar'[c] /\ jar'[b] # None => b = c
      BY <1>1, <3>2
    <3>5. \A p \in Requests, b \in Browsers :
            Carrying(p)' /\ jar'[b] = req'[p].token => req'[p].browser = b
      BY <1>0, <1>1, <2>2, <2>3, <3>2
    <3>6. \A q \in Requests \ {r} : Issuing(q)' => Own(q)'
      BY <1>1, <2>2, <2>3, <2>4, <3>2
    <3> QED
      BY <2>3, <3>4, <3>5, <3>6 DEF Cookies
  <2> QED
    BY <2>5, <2>6
<1>16. ASSUME NEW r \in Requests, CommitRotation(r) PROVE Cookies'
  <2> DEFINE i == req[r].token
  <2>1. /\ Answers(r, n) /\ Kept({i}, req[r].now) /\ req[r].now \in Time
        /\ Added(Family(r), tokens[i].auth) /\ Pc(r, "rotating") /\ i \in Ids
        /\ req[r].op = "refresh"
    BY <1>0, <1>16, OverRequests, RotationEffect, RequestFields
  <2>2. Unrevoked(i) /\ Carrying(r) /\ tokens[i].family = Family(r)
    BY <1>0, <2>1 DEF RowLocks, Carrying, Pc, Family
  <2>3. ASSUME NEW q \in Requests \ {r}, Issuing(q) PROVE Goes(q)'
    <3>1. tokens[req[q].issued].family # Family(r)
      <4>1. i # req[q].issued /\ req[q].issued \in Ids /\ Goes(q)
        BY <1>0, <1>1, <2>2, <2>3
      <4> QED
        BY <1>0, <2>1, <2>2, <4>1 DEF UnrevokedOf, OneLiveToken
    <3>2. req'[q] = req[q]
      BY <2>1 DEF Answers, Others
    <3> QED
      BY <1>4, <2>1, <2>3, <3>1, <3>2
  <2>4. UNCHANGED jar
    BY <1>16 DEF CommitRotation
  <2> QED
    BY <1>7, <2>1, <2>3, <2>4 DEF Answers
<1>17. \A q \in Requests : Issuing(q) => n # tokens[req[q].issued].family
  BY <1>0 DEF FamilyIds
<1>18. ASSUME NEW r \in Requests, CommitEnd(r) PROVE Cookies'
  <2>1. /\ Kept(req[r].marked, req[r].now) /\ req[r].now \in Time /\ NoneAdded /\ Others(r)
        /\ req'[r].issued = None /\ req'[r].pc \in {"idle", "answered"} /\ UNCHANGED jar
    BY <1>0, <1>18, OverRequests, EndEffect, RequestFields, IdleIs DEF Ends, Answers, CommitEnd
  <2>2. \A q \in Requests \ {r} : Issuing(q) => Goes(q)'
    BY <1>4, <2>1 DEF Others
  <2>3. ~Carrying(r)' /\ ~Issuing(r)'
    BY <2>1 DEF Carrying, Pc
  <2> QED
    BY <1>6, <2>1, <2>2, <2>3
<1>19. ASSUME NEW r \in Requests, CommitPassword(r) PROVE Cookies'
  <2>1. /\ Kept(req[r].marked, req[r].now) /\ req[r].now \in Time
        /\ \/ NoneAdded /\ Ends(r)
           \/ Answers(r, n) /\ \E v : Added(n, v)
    <3>1. Kept(req[r].marked, req[r].now) /\ req[r].now \in Time
      BY <1>0, <1>19, PasswordEffect, RequestFields
    <3>2. \/ NoneAdded /\ req[r].op = "reset"
          \/ (\E v : Added(n, v)) /\ req[r].op = "change"
      BY <1>0, <1>19, PasswordEffect
    <3> QED
      BY <1>0, <1>19, <3>1, <3>2, OverRequests
  <2>2. UNCHANGED jar
    BY <1>19 DEF CommitPassword
  <2>3. \A q \in Requests \ {r} : Issuing(q) => Goes(q)'
    BY <1>4, <1>17, <2>1 DEF Others, Ends, Answers
  <2>4. CASE NoneAdded /\ Ends(r)
    <3>1. req'[r].issued = None /\ ~Carrying(r)'
      BY <1>0, <2>4, IdleIs DEF Ends, Carrying
    <3> QED
      BY <1>6, <2>2, <2>3, <2>4, <3>1 DEF Ends
  <2>5. CASE Answers(r, n) /\ \E v : Added(n, v)
    BY <1>7, <2>2, <2>3, <2>5 DEF Answers
  <2> QED
    BY <2>1, <2>4, <2>5
<1>20. ASSUME NEW r \in Requests, Login(r) \/ Register(r) PROVE Cookies'
  <2>1. /\ Kept({}, clock) /\ clock \in Time /\ Others(r) /\ req'[r].issued = n
        /\ req'[r].pc = "answered" /\ \E v : Added(n, v)
    BY <1>0, <1>20, LoginEffect, RegisterEffect, OverRequests DEF Answers, Others, TypeOK
  <2>2. UNCHANGED jar
    BY <1>20 DEF Login, Register
  <2>3. \A q \in Requests \ {r} : Issuing(q) => Goes(q)'
    BY <1>4, <1>17, <2>1 DEF Others
  <2> QED
    BY <1>7, <2>1, <2>2, <2>3
<1>21. ASSUME NEW r \in Requests, CreateAdmin(r) PROVE Cookies'
  BY <1>8, <1>21 DEF CreateAdmin
<1> QED
  BY <1>9, <1>11, <1>12, <1>13, <1>14, <1>15, <1>16, <1>18, <1>19, <1>20, <1>21, Cases DEF Next

\* A token of a session that goes on is replaced only by a rotation of that token.
LEMMA SupersededSteps ==
  ASSUME IInv, [Next]_vars, NEW i \in Ids, Superseded(i)'
  PROVE  Superseded(i) \/ \E r \in Requests : CommitRotation(r) /\ i = req[r].token
<1> DEFINE n == Len(tokens) + 1
           S == Superseded(i) \/ \E r \in Requests : CommitRotation(r) /\ i = req[r].token
<1>0. /\ TypeOK /\ RequestShape /\ FamilyIds /\ RowLocks /\ OneLiveToken /\ NothingAbsent
      /\ \A j \in Ids : tokens'[j].family = tokens[j].family
      /\ \A j \in Ids : tokens[j].family # n
  BY TokensGrow, IdsAre DEF IInv, FamilyIds
<1>1. PICK j \in Ids' : tokens'[j].family = tokens'[i].family /\ tokens'[j].revoked = Null
  BY DEF Superseded, UnrevokedOf, Unrevoked
<1>2. ASSUME UNCHANGED tokens PROVE S
  BY <1>2 DEF Superseded, UnrevokedOf, Unrevoked, Ids
<1>3. ASSUME NEW X, NEW t \in Time, Kept(X, t), NoneAdded \/ \E v : Added(n, v),
             \A x \in X \cap Ids : Unrevoked(x)
      PROVE  S
  <2>1. j \in Ids
    BY <1>0, <1>1, <1>3 DEF NoneAdded, Added
  <2>2. Unrevoked(j) /\ tokens[j].family = tokens[i].family /\ j \notin X
    BY <1>0, <1>1, <1>3, <2>1, KeptUnrevoked DEF Unrevoked
  <2>3. ~Unrevoked(i)
    <3>1. i \notin X
      BY <1>0, <1>3, <2>1, <2>2 DEF OneLiveToken
    <3>2. ~Unrevoked(i)'
      BY DEF Superseded
    <3> QED
      BY <1>3, <3>1, <3>2, KeptUnrevoked
  <2> QED
    BY <2>1, <2>2, <2>3 DEF Superseded, UnrevokedOf
<1>4. CASE Tick \/ Over \/ UNCHANGED vars
  BY <1>2, <1>4 DEF Tick, Over, vars
<1>5. ASSUME NEW r \in Requests, Quiet(r) \/ RegisterFailure(r) \/ CreateAdmin(r) PROVE S
  BY <1>2, <1>5, QuietEffect DEF RegisterFailure, CreateAdmin
<1>6. ASSUME NEW r \in Requests, CommitEnd(r) \/ CommitPassword(r) PROVE S
  <2>1. \A x \in req[r].marked : Unrevoked(x)
    BY <1>0 DEF RowLocks
  <2>2. Kept(req[r].marked, req[r].now) /\ req[r].now \in Time /\ (NoneAdded \/ \E v : Added(n, v))
    BY <1>0, <1>6, EndEffect, PasswordEffect, RequestFields
  <2> QED
    BY <1>3, <2>1, <2>2
<1>7. ASSUME NEW r \in Requests, Login(r) \/ Register(r) PROVE S
  <2>1. Kept({}, clock) /\ clock \in Time /\ \E v : Added(n, v)
    BY <1>0, <1>7, LoginEffect, RegisterEffect DEF TypeOK
  <2> QED
    BY <1>3, <2>1
<1>8. ASSUME NEW r \in Requests, CommitRotation(r) PROVE S
  <2> DEFINE k == req[r].token
  <2>1. /\ Kept({k}, req[r].now) /\ req[r].now \in Time /\ k \in Ids /\ Unrevoked(k)
        /\ Added(Family(r), tokens[k].auth) /\ tokens[k].family = Family(r)
    BY <1>0, <1>8, RotationEffect, OverRequests, RequestFields DEF RowLocks, Family
  <2>2. CASE i = k
    BY <1>8, <2>2
  <2>3. CASE i # k
    <3>1. ~Unrevoked(i)
      <4>1. ~Unrevoked(i)'
        BY DEF Superseded
      <4> QED
        BY <2>1, <2>3, <4>1, KeptUnrevoked
    <3>2. CASE j \in Ids
      <4>1. Unrevoked(j) /\ tokens[j].family = tokens[i].family
        BY <1>0, <1>1, <2>1, <3>2, KeptUnrevoked DEF Unrevoked
      <4> QED
        BY <3>1, <3>2, <4>1 DEF Superseded, UnrevokedOf
    <3>3. CASE j \notin Ids
      <4>1. tokens'[j].family = Family(r)
        BY <1>1, <2>1, <3>3 DEF Added
      <4>2. tokens[k].family = tokens[i].family
        BY <1>0, <1>1, <2>1, <4>1
      <4> QED
        BY <2>1, <3>1, <4>2 DEF Superseded, UnrevokedOf
    <3> QED
      BY <3>2, <3>3
  <2> QED
    BY <2>2, <2>3
<1> QED
  BY <1>4, <1>5, <1>6, <1>7, <1>8, Cases DEF Next, Quiet


\* An answer waits, and its browser's jar with it, until it arrives or is lost.
LEMMA JarSteps ==
  ASSUME IInv, [Next]_vars
  PROVE  \/ \E r \in Requests : Answer(r) \/ LoseAnswer(r)
         \/ jar' = jar /\ \A q \in Requests : Pc(q, "answered") => req'[q] = req[q]
<1> DEFINE Waits == jar' = jar /\ \A q \in Requests : Pc(q, "answered") => req'[q] = req[q]
<1>0. TypeOK /\ RequestShape /\ FamilyIds /\ NothingAbsent
  BY DEF IInv
<1>1. CASE Tick \/ Over \/ UNCHANGED vars
  BY <1>1 DEF Tick, Over, vars
<1>2. ASSUME NEW r \in Requests, Others(r), ~Pc(r, "answered"), UNCHANGED jar PROVE Waits
  BY <1>2 DEF Others
<1>3. ASSUME NEW r \in Requests, \/ BeginRefresh(r) \/ RotateToken(r) \/ DetectReuse(r)
                                 \/ BeginLogout(r) \/ RevokeRow(r) \/ BeginPassword(r)
      PROVE  Waits
  <2>1. \E pc : Moves(r, pc)
    BY <1>0, <1>3, MovesEffect, RevokeRowEffect
  <2> QED
    BY <1>2, <2>1 DEF Moves
<1>4. ASSUME NEW r \in Requests, Send(r) \/ Load(r) PROVE Waits
  BY <1>0, <1>2, <1>4, SendEffect, LoadEffect DEF CanSend, Others, Pc
<1>5. ASSUME NEW r \in Requests, Refuse(r) \/ RegisterFailure(r) PROVE Waits
  <2>1. Ends(r) /\ ~Pc(r, "answered") /\ UNCHANGED jar
    BY <1>0, <1>5, OverRequests, RefuseEffect, FailureEffect DEF Pc
  <2> QED
    BY <1>2, <2>1 DEF Ends
<1>6. ASSUME NEW r \in Requests, CommitRotation(r) \/ CommitEnd(r) \/ CommitPassword(r) \/ Login(r)
      PROVE  Waits
  <2>1. Others(r) /\ ~Pc(r, "answered")
    BY <1>0, <1>6, OverRequests DEF Ends, Answers, Pc
  <2>2. UNCHANGED jar
    BY <1>6 DEF CommitRotation, CommitEnd, CommitPassword, Login
  <2> QED
    BY <1>2, <2>1, <2>2
<1>7. ASSUME NEW r \in Requests, Register(r) PROVE Waits
  BY <1>0, <1>2, <1>7, RegisterEffect DEF Register, CanSend, Others, Pc
<1>8. ASSUME NEW r \in Requests, CreateAdmin(r) PROVE Waits
  BY <1>8 DEF CreateAdmin
<1> QED
  BY <1>1, <1>3, <1>4, <1>5, <1>6, <1>7, <1>8, Cases DEF Next

\* A superseded token is kept by a browser only while the answer with its successor comes.
LEMMA JarStep == IInv /\ [Next]_vars => JarFresh'
<1> DEFINE Coming(q, b, i) == /\ Pc(q, "answered") /\ req[q].browser = b /\ req[q].issued # None
                              /\ tokens[req[q].issued].family = tokens[i].family
                              /\ req[q].sent <= tokens[i].revoked
<1> SUFFICES ASSUME IInv, [Next]_vars, ~late', NEW b \in Browsers, jar'[b] # None,
                    Superseded(jar[b])'
             PROVE  \E q \in Requests : Coming(q, b, jar[b])'
  BY DEF JarFresh
<1>0. /\ TypeOK /\ RequestShape /\ FamilyIds /\ Cookies /\ None \notin Ids /\ None = 0
      /\ \A c \in Browsers : jar[c] \in Ids \cup {None}
      /\ \A q \in Requests : req[q].issued \in Ids \cup {None}
      /\ jar \in [Browsers -> 0..Len(tokens)]
  <2>1. \A q \in Requests : req[q].issued \in Ids \cup {None}
    BY IdsAre, RequestFields, TimesAre DEF IInv, RequestShape, Shape
  <2> QED
    BY <2>1, IdsAre, TimesAre DEF IInv, TypeOK
<1>1. \A i \in Ids : /\ tokens'[i].family = tokens[i].family
                     /\ ~Unrevoked(i) => tokens'[i].revoked = tokens[i].revoked
  BY TokensGrow
\* Who was going to bring the successor still is.
<1>2. ASSUME jar'[b] = jar[b], Superseded(jar[b]) PROVE \E q \in Requests : Coming(q, b, jar[b])
  <2>1. ~late
    BY ClockSteps
  <2> QED
    BY <1>2, <2>1 DEF IInv, JarFresh
<1>3. ASSUME NEW q \in Requests, jar'[b] = jar[b], Superseded(jar[b]), Coming(q, b, jar[b]),
             req'[q] = req[q]
      PROVE  Coming(q, b, jar[b])'
  <2>1. jar[b] \in Ids /\ req[q].issued \in Ids /\ ~Unrevoked(jar[b])
    BY <1>0, <1>3 DEF Superseded
  <2> QED
    BY <1>1, <1>3, <2>1 DEF Pc
<1>4. CASE \E r \in Requests : Answer(r) \/ LoseAnswer(r)
  <2> PICK r \in Requests : Answer(r)
    BY <1>4 DEF LoseAnswer
  <2>1. Ends(r) /\ Pc(r, "answered") /\ UNCHANGED tokens
    BY <1>0, OverRequests DEF Answer
  <2>2. jar'[b] = jar[b] \/ (b = req[r].browser /\ jar'[b] = req[r].issued)
    BY <1>0 DEF Answer
  <2>3. jar'[b] # req[r].issued \/ req[r].issued = None
    <3>1. req[r].issued # None /\ UnrevokedOf(tokens[req[r].issued].family) # {}
            => Unrevoked(req[r].issued)
      BY <1>0, <2>1 DEF Cookies
    <3> QED
      BY <2>1, <3>1 DEF Superseded, UnrevokedOf, Unrevoked, Ids
  <2>4. jar'[b] = jar[b] /\ Superseded(jar[b])
    BY <2>1, <2>2, <2>3 DEF Superseded, UnrevokedOf, Unrevoked, Ids
  <2>5. PICK q \in Requests : Coming(q, b, jar[b])
    BY <1>2, <2>4
  <2>6. q # r
    <3>1. req[r].issued # None => jar'[req[r].browser] = req[r].issued \/ req[r].browser \notin Browsers
      BY <1>0 DEF Answer
    <3> QED
      BY <2>3, <2>5, <3>1
  <2> QED
    BY <1>3, <2>1, <2>4, <2>5, <2>6 DEF Ends, Others
<1>5. CASE jar' = jar /\ \A q \in Requests : Pc(q, "answered") => req'[q] = req[q]
  <2>1. jar[b] \in Ids /\ jar'[b] = jar[b]
    BY <1>0, <1>5
  <2>2. CASE Superseded(jar[b])
    BY <1>2, <1>3, <1>5, <2>1, <2>2
  <2>3. CASE \E r \in Requests : CommitRotation(r) /\ jar[b] = req[r].token
    <3> PICK r \in Requests : CommitRotation(r) /\ jar[b] = req[r].token
      BY <2>3
    <3>1. /\ Answers(r, Len(tokens) + 1) /\ Pc(r, "rotating") /\ req[r].op = "refresh"
          /\ Kept({req[r].token}, req[r].now) /\ Added(Family(r), tokens[req[r].token].auth)
      BY <1>0, OverRequests, RotationEffect
    <3>2. req[r].browser = b
      BY <1>0, <3>1 DEF Cookies, Carrying, Pc
    <3>3. req[r].sent <= req[r].now
      BY <3>1 DEF IInv, RequestTimes, Pc
    <3>4. tokens'[jar[b]].revoked = req[r].now /\ tokens'[jar[b]].family = Family(r)
      BY <2>1, <3>1 DEF Kept, Family
    <3>5. /\ Pc(r, "answered")' /\ req'[r].browser = b /\ req'[r].issued = Len(tokens) + 1
          /\ req'[r].sent = req[r].sent
      BY <3>1, <3>2 DEF Answers, Pc
    <3>6. tokens'[Len(tokens) + 1].family = Family(r) /\ Len(tokens) + 1 # None
      BY <1>0, <3>1, IdsAre DEF Added
    <3>7. Coming(r, b, jar[b])'
      BY <2>1, <3>3, <3>4, <3>5, <3>6
    <3> QED
      BY <3>7
  <2>4. Superseded(jar[b]) \/ \E r \in Requests : CommitRotation(r) /\ jar[b] = req[r].token
    <3> DEFINE i == jar[b]
    <3>1. i \in Ids /\ jar'[b] = i
      BY <2>1
    <3> QED
      BY <3>1, SupersededSteps DEF Superseded, UnrevokedOf, Unrevoked
  <2> QED
    BY <2>2, <2>3, <2>4
<1> QED
  BY <1>4, <1>5, JarSteps

\* A request that came with a superseded token was sent before it could know.
LEMMA FreshStep == IInv /\ [Next]_vars => RequestFresh'
<1> SUFFICES ASSUME IInv, [Next]_vars, ~late', NEW q \in Requests, Carrying(q)',
                    Superseded(req[q].token)'
             PROVE  req'[q].sent <= tokens'[req'[q].token].revoked + Grace \div 2
  BY DEF RequestFresh
<1> DEFINE half == Grace \div 2
<1>0. /\ TypeOK /\ RequestShape /\ FamilyIds /\ ~late /\ clock \in Nat /\ half \in Nat
      /\ \A r \in Requests : req[r].sent \in Nat /\ req[r].now \in Nat
      /\ \A r \in Active : clock - req[r].sent <= half
      /\ \A b \in Browsers : jar[b] = None \/ jar[b] \in Ids
  <2>1. TypeOK /\ RequestShape /\ FamilyIds /\ Prompt
    BY DEF IInv
  <2>2. ~late /\ clock \in Nat /\ half \in Nat
    BY ClockSteps, HalfGrace
  <2>3. \A r \in Requests : req[r].sent \in Nat /\ req[r].now \in Nat
    BY <2>1, RequestFields, TimesAre
  <2>4. \A b \in Browsers : jar[b] = None \/ jar[b] \in Ids
    BY <2>1, IdsAre, TimesAre DEF TypeOK
  <2> QED
    BY <2>1, <2>2, <2>3, <2>4 DEF Prompt
<1>1. \A i \in Ids : /\ ~Unrevoked(i) => tokens'[i].revoked = tokens[i].revoked
                     /\ ~Unrevoked(i) => tokens[i].revoked \in Nat
  <2>1. \A i \in Ids : ~Unrevoked(i) => tokens[i].revoked \in Nat
    BY <1>0, RequestFields, TimesAre DEF TokenRow, Unrevoked
  <2> QED
    BY <2>1, TokensGrow
\* The request was under way with this token before.
<1>2. ASSUME Carrying(q), req'[q].token = req[q].token, req'[q].sent = req[q].sent
      PROVE  req'[q].sent <= tokens'[req'[q].token].revoked + half
  <2> DEFINE i == req[q].token
  <2>1. i \in Ids /\ req'[q].token = i
    BY <1>0, <1>2 DEF RequestShape, Shape
  <2>2. CASE Superseded(i)
    BY <1>0, <1>1, <1>2, <2>1, <2>2 DEF IInv, RequestFresh, Superseded
  <2>3. CASE \E r \in Requests : CommitRotation(r) /\ i = req[r].token
    <3> PICK r \in Requests : CommitRotation(r) /\ i = req[r].token
      BY <2>3
    <3>1. Pc(r, "rotating") /\ req[r].op = "refresh" /\ Kept({i}, req[r].now)
      BY <1>0, OverRequests, RotationEffect
    <3>2. r \in Active /\ req[r].sent <= req[r].now
      BY <3>1 DEF IInv, RequestTimes, Active, Pc
    <3>3. req[q].sent <= clock
      BY DEF IInv, RequestTimes
    <3>4. tokens'[i].revoked = req[r].now
      BY <2>1, <3>1 DEF Kept
    <3>5. req[q].sent <= req[r].now + half
      BY <1>0, <3>2, <3>3
    <3> QED
      BY <1>2, <2>1, <3>4, <3>5
  <2>4. Superseded(i) \/ \E r \in Requests : CommitRotation(r) /\ i = req[r].token
    BY <2>1, SupersededSteps DEF Superseded, UnrevokedOf, Unrevoked
  <2> QED
    BY <2>2, <2>3, <2>4
\* It has just been sent.
<1>3. ASSUME Send(q) PROVE req'[q].sent <= tokens'[req'[q].token].revoked + half
  <2> DEFINE b == req'[q].browser
             i == jar[b]
  <2>1. /\ b \in Browsers /\ i # None /\ req'[q].token = i /\ req'[q].sent = clock
        /\ UNCHANGED tokens
    BY <1>0, <1>3, SendEffect
  <2>2. i \in Ids /\ Superseded(i)
    BY <1>0, <2>1 DEF Superseded, UnrevokedOf, Unrevoked, Ids
  <2>3. PICK p \in Requests : Pc(p, "answered") /\ req[p].sent <= tokens[i].revoked
    BY <1>0, <2>1, <2>2 DEF IInv, JarFresh
  <2>4. p \in Active /\ tokens[i].revoked \in Nat
    BY <1>1, <2>2, <2>3 DEF Active, Pc, Superseded
  <2> QED
    BY <1>0, <2>1, <2>3, <2>4
<1>4. Send(q) \/ (Carrying(q) /\ req'[q].token = req[q].token /\ req'[q].sent = req[q].sent)
  <2>1. ASSUME req'[q] = req[q] PROVE Carrying(q)
    BY <2>1 DEF Carrying, Pc
  <2>2. CASE Tick \/ Over \/ UNCHANGED vars
    BY <2>1, <2>2 DEF Tick, Over, vars
  <2>3. ASSUME NEW r \in Requests, Others(r), r # q PROVE req'[q] = req[q]
    BY <2>3 DEF Others
  <2>4. ASSUME NEW r \in Requests, Send(r) PROVE Send(q) \/ req'[q] = req[q]
    BY <1>0, <2>3, <2>4, SendEffect
  <2>5. ASSUME NEW r \in Requests, \/ BeginRefresh(r) \/ RotateToken(r) \/ DetectReuse(r)
                                   \/ BeginLogout(r) \/ RevokeRow(r) \/ BeginPassword(r)
        PROVE  Carrying(q) /\ req'[q].token = req[q].token /\ req'[q].sent = req[q].sent
    <3>1. PICK pc : Moves(r, pc)
      BY <1>0, <2>5, MovesEffect, RevokeRowEffect
    <3> QED
      BY <2>1, <2>3, <3>1 DEF Moves, Carrying, Pc
  <2>6. ASSUME NEW r \in Requests,
               \/ Load(r) \/ Answer(r) \/ LoseAnswer(r) \/ Refuse(r) \/ RegisterFailure(r)
               \/ CommitRotation(r) \/ CommitEnd(r) \/ CommitPassword(r) \/ Login(r) \/ Register(r)
        PROVE  req'[q] = req[q]
    <3>1. /\ Others(r)
          /\ req'[r].op \notin {"refresh", "logout"} \/ req'[r].pc \in {"idle", "answered"}
      BY <1>0, <2>6, LoadEffect, RegisterEffect, OverRequests, IdleIs DEF Others, Ends, Answers
    <3>2. r # q
      BY <3>1 DEF Carrying, Pc
    <3> QED
      BY <2>3, <3>1, <3>2
  <2>7. ASSUME NEW r \in Requests, CreateAdmin(r) PROVE req'[q] = req[q]
    BY <2>7 DEF CreateAdmin
  <2> QED
    BY <2>1, <2>2, <2>4, <2>5, <2>6, <2>7, Cases DEF Next
<1> QED
  BY <1>2, <1>3, <1>4

\* Nobody is as late as the reuse check supposes.
LEMMA RetriesStep == IInv /\ [Next]_vars => RetriesKeepTheSession'
<1> SUFFICES ASSUME IInv, [Next]_vars, ~late' PROVE ~reused'
  BY DEF RetriesKeepTheSession
<1>0. /\ TypeOK /\ RequestShape /\ FamilyIds /\ ~late /\ clock \in Nat /\ ~reused
      /\ \A r \in Requests : req[r].sent \in Nat /\ req[r].now \in Nat
  BY ClockSteps, RequestFields, TimesAre DEF IInv, RetriesKeepTheSession
<1>1. ASSUME NEW r \in Requests, CommitEnd(r) PROVE ~reused'
  <2> SUFFICES ASSUME req[r].op = "refresh", NEW i \in req[r].marked, Alive(i) PROVE FALSE
    BY <1>0, <1>1 DEF CommitEnd
  <2> DEFINE k == req[r].token
  <2>1. Pc(r, "revoking") /\ k \in Ids /\ i \in Ids
    BY <1>0, <1>1, EndEffect, RequestFields
  <2>2. Replaced(r) /\ ~WithinGrace(r) /\ tokens[i].family = Family(r)
    BY <2>1 DEF IInv, ReuseIsOld
  <2>3. Superseded(k)
    BY <2>1, <2>2 DEF Superseded, UnrevokedOf, Replaced, Family, Alive
  <2>4. req[r].sent <= tokens[k].revoked + Grace \div 2
    BY <1>0, <2>1, <2>3 DEF IInv, RequestFresh, Carrying, Pc
  <2>5. clock - req[r].sent <= Grace \div 2 /\ req[r].now <= clock
    BY <1>0, <2>1 DEF IInv, Prompt, RequestTimes, Active, Pc
  <2>6. tokens[k].revoked \in Nat /\ req[r].now - tokens[k].revoked > Grace
    <3>1. tokens[k].revoked \in Nat
      BY <1>0, <2>1, <2>2, RequestFields, TimesAre DEF TokenRow, Replaced, Unrevoked
    <3> QED
      BY <1>0, <2>2, <3>1, HalfGrace DEF WithinGrace
  <2> QED
    BY <1>0, <2>4, <2>5, <2>6, HalfGrace
<1>2. CASE Tick \/ Over \/ UNCHANGED vars
  BY <1>0, <1>2 DEF Tick, Over, vars, past
<1>3. ASSUME NEW r \in Requests, Quiet(r) PROVE ~reused'
  BY <1>0, <1>3, QuietEffect
<1>4. ASSUME NEW r \in Requests, \/ CommitRotation(r) \/ CommitPassword(r) \/ Login(r)
                                 \/ RegisterFailure(r) \/ Register(r) \/ CreateAdmin(r)
      PROVE  ~reused'
  BY <1>0, <1>4 DEF CommitRotation, CommitPassword, Login, RegisterFailure, Register,
     CreateAdmin, past
<1> QED
  BY <1>1, <1>2, <1>3, <1>4, Cases DEF Next, Quiet

----------------------------------------------------------------------------
(* The invariant, and what it says. *)

LEMMA InitInv == Init => IInv
<1> SUFFICES ASSUME Init PROVE IInv
  OBVIOUS
<1>1. /\ clock = 0 /\ tokens = <<>> /\ sent = 0 /\ ended = {} /\ overlap = {} /\ late = FALSE
      /\ reused = FALSE /\ reverted = FALSE /\ req = [r \in Requests |-> Idle]
      /\ jar = [b \in Browsers |-> None] /\ Ids = {} /\ Len(tokens) = 0
  <2>1. tokens = <<>>
    BY DEF Init
  <2>2. Ids = {} /\ Len(tokens) = 0
    BY <2>1 DEF Ids
  <2> QED
    BY <2>1, <2>2 DEF Init
<1>2. /\ account \in AccountRow /\ account.lockedUntil = Null
      /\ account.password = account.lastSet /\ (account.role = "none" => account = Absent)
  <2>1. CASE account = Absent
    BY <2>1, RecordTypes DEF Absent
  <2>2. ASSUME NEW p \in Passwords, NEW old \in BOOLEAN,
               account = [Absent EXCEPT !.role = "ADMIN", !.password = p, !.old = old,
                                        !.lastSet = p]
        PROVE  /\ account \in AccountRow /\ account.lockedUntil = Null
               /\ account.password = account.lastSet /\ account.role = "ADMIN"
    <3>1. p \in Word
      BY DEF Word
    <3> QED
      BY <2>2, <3>1 DEF Absent, AccountRow, Null
  <2> QED
    BY <2>1, <2>2 DEF Init
<1>3. \A r \in Requests : req[r] = Idle
  BY <1>1
<1>4. TypeOK
  <2>1. 0 \in Time /\ 0 \in 0..MaxSent /\ 0 <= MaxTokens /\ Idle \in Request
    BY RecordTypes, LimitsAssumption DEF Time
  <2> QED
    <3>1. tokens \in Seq(TokenRow) /\ Len(tokens) <= MaxTokens
      BY <1>1, <2>1
    <3>2. jar \in [Browsers -> 0..Len(tokens)] /\ req \in [Requests -> Request]
      BY <1>1, <2>1 DEF None
    <3>3. \A r \in Requests : req[r].todo \cup req[r].marked \subseteq 1..Len(tokens)
      BY <1>3, IdleIs
    <3>4. /\ clock \in Time /\ sent \in 0..MaxSent /\ ended \cup overlap \subseteq 1..Len(tokens)
          /\ {late, reused, reverted} \subseteq BOOLEAN
      BY <1>1, <2>1
    <3> QED
      BY <1>2, <3>1, <3>2, <3>3, <3>4 DEF TypeOK
<1>5. \A r \in Requests : Pc(r, "idle") /\ ~Carrying(r)
  BY <1>3, IdleIs DEF Pc, Carrying
<1>6. RequestShape /\ RequestTimes
  BY <1>1, <1>3, <1>5, IdleIs DEF RequestShape, Shape, RequestTimes, Pc
<1>7. Active = {} /\ Pending = {}
  BY <1>5 DEF Active, Pending, Pc
<1>8. Room
  <2>1. IsFiniteSet({}) /\ Cardinality({}) = 0
    BY FS_EmptySet
  <2> QED
    BY <1>1, <1>7, <2>1, LimitsAssumption DEF Room
<1>9. FamilyIds /\ OneLiveToken /\ EndedStaysEnded /\ NothingAbsent
  BY <1>1, <1>2, <1>7 DEF FamilyIds, OneLiveToken, EndedStaysEnded, NothingAbsent
<1>10. RowLocks
  BY <1>3, IdleIs DEF RowLocks, Holds, Pc
<1>11. AccountLock /\ SeenVersion /\ EndsAll /\ ReuseIsOld
  BY <1>5 DEF AccountLock, Changing, SeenVersion, EndsAll, ReuseIsOld, Pc
<1>12. LockoutBound /\ PasswordIsLastSet /\ RetriesKeepTheSession
  BY <1>1, <1>2, DurationsAssumption DEF LockoutBound, PasswordIsLastSet, RetriesKeepTheSession, Null
<1>13. Cookies /\ Prompt /\ JarFresh /\ RequestFresh
  BY <1>1, <1>5, <1>7 DEF Cookies, Prompt, JarFresh, RequestFresh, Pc
<1> QED
  BY <1>4, <1>6, <1>8, <1>9, <1>10, <1>11, <1>12, <1>13 DEF IInv

\* The inductive invariant.
THEOREM Invariance == Spec => []IInv
<1>1. IInv /\ [Next]_vars => IInv'
  BY RoomStep, TypeStep, ShapeStep, TimesStep, FamilyStep, RowLocksStep, AccountLockStep,
     OneLiveStep, AbsentStep, LockoutStep, SeenStep, LastSetStep, PromptStep, EndsStep,
     EndedStep, ReuseStep, CookiesStep, JarStep, FreshStep, RetriesStep DEF IInv
<1> QED
  BY <1>1, InitInv, PTL DEF Spec

\* Every variable keeps its type.
THEOREM TypeCorrect == Spec => []TypeOK
<1>1. IInv => TypeOK
  BY DEF IInv
<1> QED
  BY <1>1, Invariance, PTL

\* A family has one token that can be used, however many tabs refresh at once: the row
\* lock of rotate_session.
THEOREM OneTokenIsLive == Spec => []OneLiveToken
<1>1. IInv => OneLiveToken
  BY DEF IInv
<1> QED
  BY <1>1, Invariance, PTL

\* A session ended by a logout, a detected reuse or a new password stays ended, but for the
\* rotation or login that overlapped the end.
THEOREM EndsAreFinal == Spec => []EndedStaysEnded
<1>1. IInv => EndedStaysEnded
  BY DEF IInv
<1> QED
  BY <1>1, Invariance, PTL

\* Unless an answer is lost or late, the reuse check of rotate_session hits no session of
\* a browser that refreshes from several tabs.
THEOREM PromptRetriesAreSafe == Spec => []RetriesKeepTheSession
<1>1. IInv => RetriesKeepTheSession
  BY DEF IInv
<1> QED
  BY <1>1, Invariance, PTL

\* The password that works is the one set last, but for the rehash that overtakes a change.
THEOREM LastPasswordWorks == Spec => []PasswordIsLastSet
<1>1. IInv => PasswordIsLastSet
  BY DEF IInv
<1> QED
  BY <1>1, Invariance, PTL

\* No step takes back or moves the time of a revocation; and as a rotation needs a token of
\* its family that is not revoked, a family with none left gets no other.
THEOREM RevokedForGood == Spec => NeverRevived
<1> DEFINE n == Len(tokens) + 1
           Dead == \A f \in Ids : UnrevokedOf(f) = {} => UnrevokedOf(f)' = {}
           Stands == \A i \in Ids : ~Unrevoked(i) => tokens'[i].revoked = tokens[i].revoked
<1>1. ASSUME IInv, [Next]_vars PROVE Dead
  <2>0. /\ TypeOK /\ RequestShape /\ FamilyIds /\ n \notin Ids
        /\ \A i \in Ids : tokens'[i].family = tokens[i].family
        /\ \A i \in Ids : Unrevoked(i)' => Unrevoked(i)
    <3>1. /\ \A i \in Ids : tokens'[i].family = tokens[i].family
          /\ \A i \in Ids : Unrevoked(i)' => Unrevoked(i)
      BY <1>1, TokensGrow DEF Unrevoked
    <3> QED
      BY <1>1, <3>1, IdsAre DEF IInv
  <2>1. ASSUME Ids' = Ids PROVE Dead
    BY <2>0, <2>1 DEF UnrevokedOf
  <2>2. ASSUME NEW g, NEW v, Added(g, v), g \in Ids => UnrevokedOf(g) # {} PROVE Dead
    <3> SUFFICES ASSUME NEW f \in Ids, UnrevokedOf(f) = {}, NEW i \in Ids',
                        tokens'[i].family = f, Unrevoked(i)'
                 PROVE  FALSE
      BY DEF UnrevokedOf
    <3>1. i \in Ids => i \in UnrevokedOf(f)
      BY <2>0 DEF UnrevokedOf
    <3>2. i \notin Ids => g = f
      BY <2>2 DEF Added
    <3> QED
      BY <2>2, <3>1, <3>2
  <2>3. CASE Tick \/ Over \/ UNCHANGED vars
    BY <2>1, <2>3 DEF Tick, Over, vars, Ids
  <2>4. ASSUME NEW r \in Requests, Quiet(r) \/ RegisterFailure(r) \/ CreateAdmin(r) PROVE Dead
    BY <2>1, <2>4, QuietEffect DEF RegisterFailure, CreateAdmin, Ids
  <2>5. ASSUME NEW r \in Requests, CommitRotation(r) PROVE Dead
    <3>1. Unrevoked(req[r].token) /\ req[r].token \in Ids /\ \E v : Added(Family(r), v)
      BY <1>1, <2>0, <2>5, RotationEffect, OverRequests DEF IInv, RowLocks
    <3>2. UnrevokedOf(Family(r)) # {}
      BY <3>1 DEF UnrevokedOf, Family
    <3> QED
      BY <2>2, <3>1, <3>2
  <2>6. ASSUME NEW r \in Requests, CommitEnd(r) \/ CommitPassword(r) \/ Login(r) \/ Register(r)
        PROVE  Dead
    <3>1. NoneAdded \/ \E v : Added(n, v)
      BY <2>0, <2>6, EndEffect, PasswordEffect, LoginEffect, RegisterEffect
    <3> QED
      BY <2>0, <2>1, <2>2, <3>1 DEF NoneAdded
  <2> QED
    BY <1>1, <2>3, <2>4, <2>5, <2>6, Cases DEF Next, Quiet
<1>2. ASSUME IInv, [Next]_vars PROVE Stands
  BY <1>2, TokensGrow
<1>3. IInv /\ [Next]_vars => [Stands /\ Dead]_vars
  BY <1>1, <1>2
<1> QED
  BY <1>3, Invariance, PTL DEF Spec, NeverRevived

\* A lockout is taken away or shortened only by a new password, or by a login that had read
\* the account before: what it read was not this lockout.
THEOREM LockoutIsServed == Spec => LockoutStands
<1> DEFINE Stands == account.lockedUntil > clock /\ account'.lockedUntil < account.lockedUntil
       => \/ account'.version # account.version
          \/ \E r \in Requests : /\ req[r].pc = "loaded" /\ req'[r] # req[r]
                                 /\ Seen(r).lockedUntil # account.lockedUntil
<1>1. ASSUME IInv, [Next]_vars PROVE Stands
  <2> SUFFICES ASSUME account.lockedUntil > clock, account'.lockedUntil < account.lockedUntil,
                      account'.version = account.version
               PROVE  \E r \in Requests : /\ req[r].pc = "loaded" /\ req'[r] # req[r]
                                          /\ Seen(r).lockedUntil # account.lockedUntil
    OBVIOUS
  <2>0. /\ TypeOK /\ RequestShape /\ FamilyIds /\ clock \in Nat /\ account.version \in Nat
        /\ account.lockedUntil \in Int /\ Null = -1
        /\ account.lockedUntil <= clock + Lockout /\ Lockout \in Nat
        /\ \A r \in Requests : req[r].now \in Nat /\ req[r].now <= clock
        /\ \A r \in Requests : Seen(r).lockedUntil \in Int
    <3>1. /\ TypeOK /\ RequestShape /\ FamilyIds /\ RequestTimes /\ LockoutBound
          /\ clock \in Nat /\ Lockout \in Nat
      BY <1>1, ClockSteps, DurationsAssumption DEF IInv
    <3>2. /\ account.version \in Nat /\ account.lockedUntil \in Int
          /\ \A r \in Requests : Seen(r).lockedUntil \in Int
      BY <3>1, RequestFields DEF TypeOK, AccountRow, Seen, Null
    <3> QED
      BY <3>1, <3>2, RequestFields, TimesAre DEF RequestTimes, LockoutBound, Null
  <2>1. account # Absent
    BY <2>0 DEF Absent
  <2>2. account' # account /\ account'.version # account.version + 1
    BY <2>0
  <2>3. PICK r \in Requests : Login(r) \/ RegisterFailure(r)
    BY <1>1, <2>1, <2>2, AccountSteps
  <2>4. req[r].pc = "loaded" /\ req'[r] # req[r]
    BY <2>0, <2>3, OverRequests, IdleIs DEF Answers, Ends, Pc
  <2>5. CASE req[r].op = "login"
    <3>1. ~Locked(r)
      BY <2>3, <2>5 DEF Login, RegisterFailure
    <3>2. Seen(r).lockedUntil = Null \/ Seen(r).lockedUntil <= req[r].now
      BY <3>1 DEF Locked, Served
    <3> QED
      BY <2>0, <2>4, <3>2
  <2>6. CASE req[r].op # "login"
    <3>1. RegisterFailure(r)
      BY <2>3, <2>6 DEF Login
    <3>2. account'.lockedUntil \in {account.lockedUntil, clock + Lockout}
      BY <2>0, <2>6, <3>1, FailureEffect
    <3> QED
      BY <2>0, <3>2
  <2> QED
    BY <2>5, <2>6
<1> QED
  BY <1>1, Invariance, PTL DEF Spec, LockoutStands

=============================================================================
