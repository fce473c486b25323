--------------------------- MODULE AssemblyProofs ---------------------------
(***************************************************************************)
(* The safety of Assembly for any number of requests, pages, products,     *)
(* assemblies and runs.  The inductive invariant adds to the properties of *)
(* the component that numbers of open assemblies are fresh, what an open   *)
(* assembly has deleted and built, and which of the pages it has looked at *)
(* or left out are still as it found them.                                 *)
(***************************************************************************)
EXTENDS Assembly, TLAPS

Open(r) == pc[r] # "idle"
Looked(r) == pc[r] \in {"kept", "reading", "drafted"}
Made(r) == inserted[r] \cup draft[r]

\* An open assembly's number is its own: of no row, and of no row it or another has found.
OwnNumber ==
  /\ \A r \in Requests : Open(r) =>
       /\ by[r] \in 1..assemblies
       /\ \A q \in Requests \ {r} : by[q] # by[r]
       /\ \A c \in candidates : c.by # by[r]
       /\ \A q \in Requests : \A i \in snapshot[q] : i[1] # by[r]
  /\ \A c \in candidates : c.by \in 0..assemblies
  /\ \A r \in Requests : \A i \in snapshot[r] : i[1] \in 0..assemblies

UniqueIds == \A c, d \in candidates : Id(c) = Id(d) => c = d

\* Rows refer to rows that are there.
RefsHold ==
  /\ \A c \in candidates : c.pages \subseteq pages /\ c.finds \subseteq finds
  /\ \A r \in Requests : \A c \in inserted[r] : c.pages \subseteq pages /\ c.finds \subseteq finds

\* The pages of two runs are never there together.
OneRun == \A p, q \in pages : p[2] = q[2]

\* What an assembly keeps for later steps begins empty.
FreshStart ==
  \A r \in Requests :
    /\ pc[r] = "begun" => snapshot[r] = {}
    /\ pc[r] \in {"begun", "deleting"} => deleted[r] = {}
    /\ pc[r] \notin {"reading", "drafted"} => todo[r] = {} /\ inserted[r] = {}

\* A candidate that r has built is of one page, which r does not read again.
BuiltOf(r, c, p) ==
  /\ c.by = by[r] /\ ~c.reviewed
  /\ c.pages = {p} /\ c.page = p[1]
  /\ \A f \in c.finds : PageOf(f) = p
  /\ p \in Row /\ p \notin kept[r] /\ p \notin todo[r]

BuildsOnce ==
  \A r \in Requests :
    /\ \A c \in Made(r) : \E p \in Row : BuiltOf(r, c, p)
    /\ \A c, d \in Made(r) : c.pages \cap d.pages # {} => c = d
    /\ todo[r] \cap kept[r] = {}
    /\ \A p, q \in todo[r] \cup UNION {c.pages : c \in Made(r)} : p[2] = q[2]

\* The rows that r has found to delete.
Found(r) == IF pc[r] = "deleting" THEN snapshot[r] ELSE deleted[r]

\* Deleted rows are nobody else's and stay without a review; an assembly's candidates
\* without one are found together.
Deletions ==
  \A r \in Requests :
    /\ deleted[r] \subseteq snapshot[r]
    /\ \A q \in Requests \ {r} : deleted[q] \cap deleted[r] = {}
    /\ \A c \in candidates : Id(c) \in deleted[r] => ~c.reviewed
    /\ \A a \in 0..MaxAssemblies :
         \/ \A c \in candidates : c.by = a /\ ~c.reviewed => Id(c) \in Found(r)
         \/ \A i \in Found(r) : i[1] # a

\* Of the rows it has found, r has deleted all that are still there without a review...
PastDeletes(r) == pc[r] \in {"deleted", "kept", "reading", "drafted"}
NoneLeft ==
  \A r \in Requests : PastDeletes(r) =>
    \A c \in candidates : ~c.reviewed /\ Id(c) \in snapshot[r] => Id(c) \in deleted[r]

\* ... and nobody else is deleting any of them.
NothingInCommon ==
  \A r, q \in Requests : r # q /\ PastDeletes(q) => deleted[r] \cap snapshot[q] = {}

\* What r left out is what candidates cover, unless another assembly has ended since.
KeptCovers ==
  \A r \in Requests : Looked(r) /\ "assembly" \notin disturbed[r] =>
    \A c \in candidates : Id(c) \notin deleted[r] => c.pages \subseteq kept[r]

\* No run is going on that r does not know of.
RunsNoticed ==
  \A r \in Requests : Open(r) /\ "run" \notin disturbed[r] => ~running

\* NothingMissed on the way.
FindsTaken ==
  \A r \in Requests : "run" \notin disturbed[r] =>
    \A c \in Made(r) : \A p \in c.pages : FindsOn(p) \subseteq c.finds
PagesTaken ==
  \A r \in Requests : disturbed[r] = {} =>
    /\ Looked(r) => \A p \in kept[r] : \E c \in candidates : Id(c) \notin deleted[r] /\ p \in c.pages
    /\ pc[r] \in {"reading", "drafted"} =>
         \A p \in pages : FindsOn(p) # {} =>
           p \in kept[r] \cup todo[r] \cup UNION {c.pages : c \in Made(r)}

IInv ==
  /\ TypeOK
  /\ OwnNumber
  /\ UniqueIds
  /\ RefsHold
  /\ OneRun
  /\ FreshStart
  /\ BuildsOnce
  /\ Deletions
  /\ NoneLeft
  /\ NothingInCommon
  /\ KeptCovers
  /\ RunsNoticed
  /\ FindsTaken
  /\ PagesTaken
  /\ PagesOnceUnlessRaced
  /\ FlagsExact

----------------------------------------------------------------------------
(* The steps, as what they do to the sessions. *)

\* Nothing of q's session changes.
Keeps(q) ==
  /\ pc'[q] = pc[q] /\ by'[q] = by[q] /\ snapshot'[q] = snapshot[q] /\ deleted'[q] = deleted[q]
  /\ kept'[q] = kept[q] /\ todo'[q] = todo[q] /\ draft'[q] = draft[q]
  /\ inserted'[q] = inserted[q]

\* r does something in its transaction that nobody else sees.
StepOf(r) ==
  /\ UNCHANGED <<tables, trouble>>
  /\ \A q \in Requests \ {r} : Keeps(q) /\ disturbed'[q] = disturbed[q]

\* r begins with a number of its own.
LEMMA BeginEffect ==
  ASSUME TypeOK, NEW r \in Requests, Begin(r)
  PROVE  /\ StepOf(r) /\ disturbed'[r] = IF running THEN {"run"} ELSE {}
         /\ pc[r] = "idle" /\ status = "SETTLED" /\ assemblies < MaxAssemblies /\ assemblies' = assemblies + 1
         /\ pc'[r] = "begun" /\ by'[r] = assemblies + 1 /\ snapshot'[r] = {}
         /\ deleted'[r] = {} /\ kept'[r] = {} /\ todo'[r] = {} /\ draft'[r] = {}
         /\ inserted'[r] = {}
BY DEF Begin, StepOf, Keeps, tables, TypeOK

\* r fixes the rows its DELETE is about.
LEMMA DeleteBeginsEffect ==
  ASSUME TypeOK, NEW r \in Requests, DeleteBegins(r)
  PROVE  /\ StepOf(r) /\ disturbed'[r] = disturbed[r]
         /\ pc[r] = "begun" /\ assemblies' = assemblies
         /\ pc'[r] = "deleting"
         /\ snapshot'[r] = {Id(c) : c \in {d \in candidates : Rebuildable(d)}}
         /\ by'[r] = by[r] /\ deleted'[r] = deleted[r] /\ kept'[r] = kept[r]
         /\ todo'[r] = todo[r] /\ draft'[r] = draft[r] /\ inserted'[r] = inserted[r]
BY DEF DeleteBegins, StepOf, Keeps, tables, TypeOK

\* r deletes those that are left.
LEMMA DeleteEndsEffect ==
  ASSUME TypeOK, NEW r \in Requests, DeleteEnds(r)
  PROVE  /\ StepOf(r) /\ disturbed'[r] = disturbed[r]
         /\ pc[r] = "deleting" /\ assemblies' = assemblies
         /\ \A q \in Requests \ {r} : deleted[q] \cap snapshot[r] = {}
         /\ pc'[r] = "deleted"
         /\ deleted'[r] = snapshot[r] \cap {Id(c) : c \in {d \in candidates : Rebuildable(d)}}
         /\ by'[r] = by[r] /\ snapshot'[r] = snapshot[r] /\ kept'[r] = kept[r]
         /\ todo'[r] = todo[r] /\ draft'[r] = draft[r] /\ inserted'[r] = inserted[r]
BY DEF DeleteEnds, StepOf, Keeps, tables, TypeOK

\* r reads the pages of the candidates it leaves.
LEMMA ReadKeptEffect ==
  ASSUME TypeOK, NEW r \in Requests, ReadKept(r)
  PROVE  /\ StepOf(r) /\ disturbed'[r] = disturbed[r]
         /\ pc[r] = "deleted" /\ assemblies' = assemblies
         /\ pc'[r] = "kept"
         /\ kept'[r] = UNION {c.pages : c \in {d \in candidates : Id(d) \notin deleted[r]}}
         /\ by'[r] = by[r] /\ snapshot'[r] = snapshot[r] /\ deleted'[r] = deleted[r]
         /\ todo'[r] = todo[r] /\ draft'[r] = draft[r] /\ inserted'[r] = inserted[r]
BY DEF ReadKept, StepOf, Keeps, tables, TypeOK

\* r lists the pages that are left.
LEMMA ListPagesEffect ==
  ASSUME TypeOK, NEW r \in Requests, ListPages(r)
  PROVE  /\ StepOf(r) /\ disturbed'[r] = disturbed[r]
         /\ pc[r] = "kept" /\ assemblies' = assemblies
         /\ pc'[r] = "reading" /\ todo'[r] = pages \ kept[r]
         /\ by'[r] = by[r] /\ snapshot'[r] = snapshot[r] /\ deleted'[r] = deleted[r]
         /\ kept'[r] = kept[r] /\ draft'[r] = draft[r] /\ inserted'[r] = inserted[r]
BY DEF ListPages, StepOf, Keeps, tables, TypeOK

\* r inserts what it has built.
LEMMA InsertEffect ==
  ASSUME TypeOK, NEW r \in Requests, Insert(r)
  PROVE  /\ StepOf(r) /\ disturbed'[r] = disturbed[r]
         /\ pc[r] = "drafted" /\ assemblies' = assemblies
         /\ \A c \in draft[r] : c.pages \subseteq pages /\ c.finds \subseteq finds
         /\ pc'[r] = "reading" /\ inserted'[r] = inserted[r] \cup draft[r] /\ draft'[r] = {}
         /\ by'[r] = by[r] /\ snapshot'[r] = snapshot[r] /\ deleted'[r] = deleted[r]
         /\ kept'[r] = kept[r] /\ todo'[r] = todo[r]
BY DEF Insert, StepOf, Keeps, tables, TypeOK

\* r reads one of its pages and drafts a candidate if products were found there.
LEMMA ReadPageEffect ==
  ASSUME TypeOK, NEW r \in Requests, ReadPage(r)
  PROVE  /\ StepOf(r) /\ disturbed'[r] = disturbed[r] /\ assemblies' = assemblies
         /\ pc[r] = "reading" /\ by'[r] = by[r] /\ snapshot'[r] = snapshot[r]
         /\ deleted'[r] = deleted[r] /\ kept'[r] = kept[r] /\ inserted'[r] = inserted[r]
         /\ draft[r] = {}
         /\ \E p \in todo[r] :
              /\ todo'[r] = todo[r] \ {p}
              /\ \/ FindsOn(p) = {} /\ pc'[r] = "reading" /\ draft'[r] = {}
                 \/ pc'[r] = "drafted" /\ draft'[r] = {Built(by[r], p)}
<1>1. PICK p \in todo[r] :
        /\ pc[r] = "reading"
        /\ todo' = [todo EXCEPT ![r] = @ \ {p}]
        /\ IF FindsOn(p) = {} THEN UNCHANGED <<pc, draft>>
           ELSE draft' = [draft EXCEPT ![r] = {Built(by[r], p)}] /\ pc' = [pc EXCEPT ![r] = "drafted"]
        /\ UNCHANGED <<tables, assemblies, by, snapshot, deleted, kept, inserted, disturbed, trouble>>
  BY DEF ReadPage
<1>2. draft[r] = {}
  BY <1>1 DEF TypeOK
<1>3. \A q \in Requests \ {r} : Keeps(q) /\ disturbed'[q] = disturbed[q]
  BY <1>1 DEF Keeps, TypeOK
<1>4. /\ todo'[r] = todo[r] \ {p}
      /\ \/ FindsOn(p) = {} /\ pc'[r] = "reading" /\ draft'[r] = {}
         \/ pc'[r] = "drafted" /\ draft'[r] = {Built(by[r], p)}
  BY <1>1, <1>2 DEF TypeOK
<1> QED
  BY <1>1, <1>2, <1>3, <1>4 DEF StepOf

\* r's session is over.
Ends(r) ==
  /\ pc'[r] = "idle" /\ by'[r] = 0 /\ disturbed'[r] = {}
  /\ snapshot'[r] = {} /\ deleted'[r] = {} /\ kept'[r] = {}
  /\ todo'[r] = {} /\ draft'[r] = {} /\ inserted'[r] = {}
  /\ assemblies' = assemblies

LEMMA FailEffect ==
  ASSUME TypeOK, NEW r \in Requests, Fail(r)
  PROVE  StepOf(r) /\ Ends(r)
BY DEF Fail, EndSession, StepOf, Keeps, Ends, tables, TypeOK

\* r commits, and every assembly that has looked at the candidates may have missed it:
\* none of them has found a candidate to delete that r deletes.
Commits(r) ==
  /\ pc[r] = "reading" /\ todo[r] = {} /\ Ends(r)
  /\ candidates' = {c \in candidates : Id(c) \notin deleted[r]} \cup inserted[r]
  /\ flags' = {f \in flags : f[1] \notin deleted[r] /\ f[2] \notin deleted[r]}
                \cup DuplicatesAmong(inserted[r])
  /\ trouble' = trouble \cup disturbed[r]
  /\ UNCHANGED <<status, running, run, pages, finds>>
  /\ \A q \in Requests \ {r} :
       /\ Keeps(q)
       /\ disturbed'[q] = IF Looked(q) THEN disturbed[q] \cup {"assembly"} ELSE disturbed[q]

LEMMA CommitEffect ==
  ASSUME TypeOK, NothingInCommon, NEW r \in Requests, Commit(r)
  PROVE  Commits(r)
<1>1. \A q \in Requests \ {r} : Keeps(q)
  BY DEF Commit, EndSession, Keeps, TypeOK
<1>2. Ends(r)
  BY DEF Commit, EndSession, Ends, TypeOK
<1>3. \A q \in Requests \ {r} :
        disturbed'[q] = IF Looked(q) THEN disturbed[q] \cup {"assembly"} ELSE disturbed[q]
  <2>1. ASSUME NEW q \in Requests \ {r} PROVE Overtakes(r, q) <=> Looked(q)
    BY DEF Overtakes, Looked, NothingInCommon, PastDeletes
  <2> QED
    BY <2>1 DEF Commit
<1> QED
  BY <1>1, <1>2, <1>3 DEF Commit, Commits, FlagsAfter

\* What is not in an assembly: a review, a correction, a run.
Outside ==
  \/ \E c \in candidates : Review(c)
  \/ \E f \in finds : ForgetFind(f)
  \/ Processing

LEMMA OutsideEffect ==
  ASSUME Outside
  PROVE  /\ UNCHANGED <<session, assemblies, trouble, flags>>
         /\ \A q \in Requests : /\ Keeps(q)
                                /\ Open(q) => disturbed[q] \subseteq disturbed'[q]
                                /\ disturbed'[q] \subseteq disturbed[q] \cup {"run"}
<1>1. CASE \E c \in candidates : Review(c)
  BY <1>1 DEF Review, session, Keeps
<1>2. CASE \E f \in finds : ForgetFind(f)
  BY <1>2 DEF ForgetFind, session, Keeps
<1>3. CASE StartRun
  <2>1. \A q \in Requests :
          disturbed'[q] = IF pc[q] = "idle" THEN {} ELSE disturbed[q] \cup {"run"}
    BY <1>3 DEF StartRun
  <2> QED
    BY <1>3, <2>1 DEF StartRun, session, Keeps, Open
<1>4. CASE Wipe \/ EndRun
  BY <1>4 DEF Wipe, EndRun, session, Keeps
<1>5. CASE \E n \in Numbers : RenderPage(n)
  BY <1>5 DEF RenderPage, session, Keeps
<1>6. CASE \E p \in pages : FindProducts(p)
  BY <1>6 DEF FindProducts, session, Keeps
<1> QED
  BY <1>1, <1>2, <1>3, <1>4, <1>5, <1>6 DEF Outside, Processing

\* Every step is one of these.
Step(r) ==
  Begin(r) \/ DeleteBegins(r) \/ DeleteEnds(r) \/ ReadKept(r) \/ ListPages(r) \/ ReadPage(r)
  \/ Insert(r) \/ Fail(r)

LEMMA Cases ==
  ASSUME IInv, [Next]_vars
  PROVE  \/ UNCHANGED vars \/ Outside
         \/ \E r \in Requests : Step(r) \/ Commits(r)
<1>1. ASSUME NEW r \in Requests, Assemble(r) PROVE Step(r) \/ Commits(r)
  BY <1>1, CommitEffect DEF Assemble, Step, IInv
<1> QED
  BY <1>1 DEF Next, Outside

LEMMA StepEffect ==
  ASSUME TypeOK, NEW r \in Requests, Step(r)
  PROVE  StepOf(r)
BY BeginEffect, DeleteBeginsEffect, DeleteEndsEffect, ReadKeptEffect, ListPagesEffect,
   ReadPageEffect, InsertEffect, FailEffect DEF Step

----------------------------------------------------------------------------
(* The steps, as what they do to the candidates. *)

\* d is what has become of c: at most reviewed, and without rows that are gone.
Amended(c, d) ==
  /\ d.by = c.by /\ d.page = c.page
  /\ c.reviewed => d.reviewed
  /\ (\E q \in Requests : Id(c) \in deleted[q]) => d.reviewed = c.reviewed
  /\ d.pages = c.pages \cap pages' /\ d.finds = c.finds \cap finds'

Amends ==
  /\ \A c \in candidates : \E d \in candidates' : Amended(c, d)
  /\ \A d \in candidates' : \E c \in candidates : Amended(c, d)
  /\ UniqueIds'

LEMMA QuietAmends ==
  ASSUME RefsHold, UniqueIds, candidates' = candidates,
         pages \subseteq pages', finds \subseteq finds'
  PROVE  Amends
<1>1. \A c \in candidates : Amended(c, c)
  BY DEF Amended, RefsHold
<1> QED
  BY <1>1 DEF Amends, UniqueIds, Id

LEMMA DetachAmends ==
  ASSUME candidates \subseteq Candidate, UniqueIds, Detach(pages', finds')
  PROVE  Amends
<1> DEFINE cut(c) == [c EXCEPT !.pages = c.pages \cap pages', !.finds = c.finds \cap finds']
<1>1. candidates' = {cut(c) : c \in candidates}
  BY DEF Detach
<1>2. ASSUME NEW c \in candidates PROVE Amended(c, cut(c)) /\ Id(cut(c)) = Id(c)
  <2>1. c \in Candidate
    OBVIOUS
  <2> QED
    BY <2>1 DEF Amended, Candidate, Id
<1> HIDE DEF cut
<1>3. \A c, d \in candidates : Id(cut(c)) = Id(cut(d)) => cut(c) = cut(d)
  BY <1>2 DEF UniqueIds
<1>4. \A c, d \in candidates' : Id(c) = Id(d) => c = d
  BY <1>1, <1>3
<1> QED
  BY <1>1, <1>2, <1>4 DEF Amends, UniqueIds, Id

LEMMA ReviewAmends ==
  ASSUME RefsHold, candidates \subseteq Candidate, UniqueIds, NEW x \in candidates, Review(x)
  PROVE  Amends
<1> DEFINE y == [x EXCEPT !.reviewed = TRUE]
<1>1. /\ candidates' = (candidates \ {x}) \cup {y}
      /\ pages' = pages /\ finds' = finds
      /\ \A q \in Requests : Id(x) \notin deleted[q]
  BY DEF Review
<1>2. /\ y.by = x.by /\ y.page = x.page /\ y.reviewed
      /\ y.pages = x.pages /\ y.finds = x.finds
  <2>1. x \in Candidate
    OBVIOUS
  <2> QED
    BY <2>1 DEF Candidate
<1> HIDE DEF y
<1>3. Amended(x, y)
  BY <1>1, <1>2 DEF Amended, RefsHold
<1>4. \A c \in candidates : Amended(c, c)
  BY <1>1 DEF Amended, RefsHold
<1>5. Id(y) = Id(x)
  BY <1>2 DEF Id
<1>6. \A c, d \in candidates' : Id(c) = Id(d) => c = d
  BY <1>1, <1>5 DEF UniqueIds
<1> QED
  BY <1>1, <1>3, <1>4, <1>6 DEF Amends, UniqueIds, Id

LEMMA OutsideAmends == IInv /\ Outside => Amends
<1> SUFFICES ASSUME IInv, Outside PROVE Amends
  OBVIOUS
<1>0. TypeOK /\ RefsHold /\ UniqueIds /\ candidates \subseteq Candidate
  BY DEF IInv, TypeOK
<1>1. CASE \E c \in candidates : Review(c)
  BY <1>0, <1>1, ReviewAmends
<1>2. ASSUME NEW f \in finds, ForgetFind(f) PROVE Amends
  BY <1>0, <1>2, DetachAmends DEF ForgetFind
<1>3. CASE Wipe
  BY <1>0, <1>3, DetachAmends DEF Wipe
<1>4. CASE StartRun \/ EndRun
  BY <1>0, <1>4, QuietAmends DEF StartRun, EndRun
<1>5. CASE \E n \in Numbers : RenderPage(n)
  BY <1>0, <1>5, QuietAmends DEF RenderPage
<1>6. CASE \E p \in pages : FindProducts(p)
  BY <1>0, <1>6, QuietAmends DEF FindProducts
<1> QED
  BY <1>1, <1>2, <1>3, <1>4, <1>5, <1>6 DEF Outside, Processing

LEMMA StepAmends ==
  ASSUME IInv, NEW r \in Requests, Step(r)
  PROVE  Amends
<1>1. UNCHANGED <<candidates, pages, finds>>
  BY StepEffect DEF IInv, StepOf, tables
<1> QED
  BY <1>1, QuietAmends DEF IInv

----------------------------------------------------------------------------
(* Types. *)

LEMMA TypeInit == Init => TypeOK
<1> SUFFICES ASSUME Init PROVE TypeOK
  OBVIOUS
<1>1. pages \subseteq Row /\ finds \subseteq Detected /\ 0 \in 0..MaxAssemblies /\ 0 \in 0..MaxRuns
  BY BoundsAssumption DEF Init, Row, Detected
<1>2. PICK covered \in SUBSET pages :
        \/ candidates = Entered(covered) /\ flags = {}
        \/ /\ candidates = Entered(covered) \cup BuiltBefore(covered)
           /\ flags = DuplicatesAmong(BuiltBefore(covered))
  BY DEF Init
<1>3. Entered(covered) \subseteq Candidate
  <2>1. ASSUME NEW p \in covered
        PROVE  [by |-> 0, page |-> p[1], reviewed |-> TRUE, pages |-> covered,
                finds |-> {f \in finds : PageOf(f) \in covered}] \in Candidate
    BY <1>1 DEF Candidate, Row
  <2> QED
    BY <2>1 DEF Entered
<1>4. BuiltBefore(covered) \subseteq Candidate
  <2>1. ASSUME NEW p \in pages PROVE Built(1, p) \in Candidate
    BY <1>1, BoundsAssumption DEF Built, Candidate, FindsOn, Row
  <2> QED
    BY <2>1 DEF BuiltBefore
<1>5. DuplicatesAmong(BuiltBefore(covered)) \subseteq Ids \X Ids
  <2>1. \A c \in BuiltBefore(covered) : Id(c) \in Ids
    BY <1>4 DEF Candidate, Ids, Id
  <2> QED
    BY <2>1 DEF DuplicatesAmong
<1>6. candidates \subseteq Candidate /\ flags \subseteq Ids \X Ids /\ 1 \in 0..MaxAssemblies
  BY <1>2, <1>3, <1>4, <1>5, BoundsAssumption
<1> QED
  BY <1>1, <1>6 DEF Init, TypeOK

LEMMA TypeStep == IInv /\ [Next]_vars => TypeOK'
<1> SUFFICES ASSUME IInv, [Next]_vars PROVE TypeOK'
  OBVIOUS
<1>0. TypeOK
  BY DEF IInv
<1>1. \A c \in candidates : Id(c) \in Ids
  BY <1>0 DEF TypeOK, Candidate, Ids, Id
<1>2. CASE UNCHANGED vars
  BY <1>0, <1>2 DEF vars, tables, session, TypeOK
<1>3. ASSUME NEW r \in Requests, Begin(r) PROVE TypeOK'
  BY <1>0, <1>3, BoundsAssumption DEF Begin, tables, Hazard, TypeOK
<1>4. ASSUME NEW r \in Requests, DeleteBegins(r) PROVE TypeOK'
  <2>1. {Id(c) : c \in {d \in candidates : Rebuildable(d)}} \subseteq Ids
    BY <1>1
  <2> QED
    BY <1>0, <1>4, <2>1 DEF DeleteBegins, tables, TypeOK
<1>5. ASSUME NEW r \in Requests, DeleteEnds(r) PROVE TypeOK'
  <2>1. snapshot[r] \cap {Id(c) : c \in {d \in candidates : Rebuildable(d)}} \subseteq Ids
    BY <1>1
  <2> QED
    BY <1>0, <1>5, <2>1 DEF DeleteEnds, tables, TypeOK
<1>6. ASSUME NEW r \in Requests, ReadKept(r) PROVE TypeOK'
  <2>1. UNION {c.pages : c \in {d \in candidates : Id(d) \notin deleted[r]}} \subseteq Row
    BY <1>0 DEF TypeOK, Candidate
  <2> QED
    BY <1>0, <1>6, <2>1 DEF ReadKept, tables, TypeOK
<1>7. ASSUME NEW r \in Requests, ListPages(r) PROVE TypeOK'
  BY <1>0, <1>7 DEF ListPages, tables, TypeOK
<1>8. ASSUME NEW r \in Requests, ReadPage(r) PROVE TypeOK'
  <2>1. PICK p \in todo[r] :
          /\ pc[r] = "reading"
          /\ todo' = [todo EXCEPT ![r] = @ \ {p}]
          /\ IF FindsOn(p) = {} THEN UNCHANGED <<pc, draft>>
             ELSE draft' = [draft EXCEPT ![r] = {Built(by[r], p)}] /\ pc' = [pc EXCEPT ![r] = "drafted"]
          /\ UNCHANGED <<tables, assemblies, by, snapshot, deleted, kept, inserted, disturbed, trouble>>
    BY <1>8 DEF ReadPage
  <2>2. Built(by[r], p) \in Candidate
    BY <1>0, <2>1 DEF Built, Candidate, FindsOn, TypeOK, Row
  <2>3. todo' \in [Requests -> SUBSET Row]
    BY <1>0, <2>1 DEF TypeOK
  <2>4. CASE FindsOn(p) = {}
    BY <1>0, <2>1, <2>3, <2>4 DEF tables, TypeOK
  <2>5. CASE FindsOn(p) # {}
    <3> HIDE DEF Built
    <3>1. /\ draft' = [draft EXCEPT ![r] = {Built(by[r], p)}] /\ {Built(by[r], p)} # {}
          /\ pc' = [pc EXCEPT ![r] = "drafted"]
      BY <2>1, <2>5
    <3>2. draft' \in [Requests -> SUBSET Candidate]
      BY <1>0, <2>2, <3>1 DEF TypeOK
    <3>3. pc' \in [Requests -> {"idle", "begun", "deleting", "deleted", "kept", "reading", "drafted"}]
      BY <1>0, <3>1 DEF TypeOK
    <3>4. \A q \in Requests : draft'[q] # {} <=> pc'[q] = "drafted"
      BY <1>0, <3>1 DEF TypeOK
    <3>5. \A q \in Requests : pc'[q] = "idle" => q # r /\ pc[q] = "idle" /\ draft'[q] = draft[q]
      BY <1>0, <3>1 DEF TypeOK
    <3>6. \A q \in Requests : q # r => todo'[q] = todo[q]
      BY <1>0, <2>1 DEF TypeOK
    <3> QED
      BY <1>0, <2>1, <2>3, <3>2, <3>3, <3>4, <3>5, <3>6 DEF tables, TypeOK
  <2> QED
    BY <2>4, <2>5
<1>9. ASSUME NEW r \in Requests, Insert(r) PROVE TypeOK'
  BY <1>0, <1>9 DEF Insert, tables, TypeOK
<1>10. ASSUME NEW r \in Requests, EndSession(r)
       PROVE  /\ pc' \in [Requests -> {"idle", "begun", "deleting", "deleted", "kept", "reading", "drafted"}]
              /\ by' \in [Requests -> 0..MaxAssemblies]
              /\ snapshot' \in [Requests -> SUBSET Ids] /\ deleted' \in [Requests -> SUBSET Ids]
              /\ kept' \in [Requests -> SUBSET Row] /\ todo' \in [Requests -> SUBSET Row]
              /\ draft' \in [Requests -> SUBSET Candidate]
              /\ inserted' \in [Requests -> SUBSET Candidate]
              /\ \A q \in Requests : pc'[q] = "idle" =>
                   by'[q] = 0 /\ snapshot'[q] \cup deleted'[q] \cup kept'[q] \cup todo'[q]
                                  \cup draft'[q] \cup inserted'[q] = {}
              /\ \A q \in Requests : draft'[q] # {} <=> pc'[q] = "drafted"
  BY <1>0, <1>10, BoundsAssumption DEF EndSession, TypeOK
<1>11. ASSUME NEW r \in Requests, Fail(r) PROVE TypeOK'
  <2>1. EndSession(r) /\ disturbed' \in [Requests -> SUBSET Hazard]
        /\ UNCHANGED <<tables, assemblies, trouble>>
    BY <1>0, <1>11 DEF Fail, TypeOK
  <2> QED
    BY <1>0, <1>10, <2>1 DEF tables, TypeOK
<1>12. ASSUME NEW r \in Requests, Commit(r) PROVE TypeOK'
  <2>1. /\ EndSession(r)
        /\ UNCHANGED <<status, running, run, pages, finds, assemblies>>
        /\ trouble' = trouble \cup disturbed[r]
        /\ candidates' = {c \in candidates : Id(c) \notin deleted[r]} \cup inserted[r]
    BY <1>12 DEF Commit
  <2>2. disturbed' \in [Requests -> SUBSET Hazard]
    BY <1>0, <1>12 DEF Commit, Hazard, TypeOK
  <2>3. candidates' \subseteq Candidate /\ trouble' \subseteq Hazard
    BY <1>0, <2>1 DEF TypeOK
  <2>4. \A c \in inserted[r] : Id(c) \in Ids
    BY <1>0 DEF TypeOK, Candidate, Ids, Id
  <2>5. DuplicatesAmong(inserted[r]) \subseteq Ids \X Ids
    BY <2>4 DEF DuplicatesAmong
  <2>6. flags' \subseteq Ids \X Ids
    BY <1>0, <1>12, <2>5 DEF Commit, FlagsAfter, TypeOK
  <2> QED
    BY <1>0, <1>10, <2>1, <2>2, <2>3, <2>6 DEF TypeOK
<1>13. \A f \in finds : f \in Detected
  BY <1>0 DEF TypeOK
<1>14. ASSUME Detach(pages', finds') PROVE candidates' \subseteq Candidate
  <2>1. ASSUME NEW c \in candidates
        PROVE  [c EXCEPT !.pages = c.pages \cap pages', !.finds = c.finds \cap finds'] \in Candidate
    BY <1>0 DEF TypeOK, Candidate
  <2> QED
    BY <1>14, <2>1 DEF Detach
<1>15. ASSUME Outside, pages' \subseteq Row, finds' \subseteq Detected, candidates' \subseteq Candidate,
              status' \in {"SETTLED", "PROCESSING", "FAILED"}, running' \in BOOLEAN, run' \in 0..MaxRuns,
              disturbed' \in [Requests -> SUBSET Hazard]
       PROVE  TypeOK'
  BY <1>0, <1>15, OutsideEffect DEF session, TypeOK
<1>16. ASSUME NEW c \in candidates, Review(c) PROVE TypeOK'
  <2>1. [c EXCEPT !.reviewed = TRUE] \in Candidate
    BY <1>0 DEF TypeOK, Candidate
  <2> QED
    BY <1>0, <1>15, <1>16, <2>1 DEF Outside, Review, TypeOK
<1>17. ASSUME NEW f \in finds, ForgetFind(f) PROVE TypeOK'
  <2>1. candidates' \subseteq Candidate
    BY <1>14, <1>17 DEF ForgetFind
  <2> QED
    BY <1>0, <1>15, <1>17, <2>1 DEF Outside, ForgetFind, TypeOK
<1>18. CASE StartRun
  <2>1. disturbed' \in [Requests -> SUBSET Hazard]
    BY <1>0, <1>18 DEF StartRun, Hazard, TypeOK
  <2> QED
    BY <1>0, <1>15, <1>18, <2>1, BoundsAssumption DEF Outside, Processing, StartRun, TypeOK
<1>19. CASE Wipe
  <2>1. candidates' \subseteq Candidate
    BY <1>14, <1>19 DEF Wipe
  <2> QED
    BY <1>0, <1>15, <1>19, <2>1 DEF Outside, Processing, Wipe, TypeOK
<1>20. CASE EndRun
  BY <1>0, <1>15, <1>20 DEF Outside, Processing, EndRun, TypeOK
<1>21. ASSUME NEW n \in Numbers, RenderPage(n) PROVE TypeOK'
  <2>1. pages' \subseteq Row
    BY <1>0, <1>21 DEF RenderPage, Row, TypeOK
  <2> QED
    BY <1>0, <1>15, <1>21, <2>1 DEF Outside, Processing, RenderPage, TypeOK
<1>22. ASSUME NEW p \in pages, FindProducts(p) PROVE TypeOK'
  <2>1. finds' \subseteq Detected
    BY <1>0, <1>22 DEF FindProducts, Detected, TypeOK
  <2> QED
    BY <1>0, <1>15, <1>22, <2>1 DEF Outside, Processing, FindProducts, TypeOK
<1> QED
  BY <1>2, <1>3, <1>4, <1>5, <1>6, <1>7, <1>8, <1>9, <1>11, <1>12, <1>16, <1>17, <1>18,
     <1>19, <1>20, <1>21, <1>22 DEF Next, Assemble, Processing

----------------------------------------------------------------------------
(* Numbers, references and runs. *)

LEMMA OwnNumberStep == IInv /\ [Next]_vars => OwnNumber'
<1> SUFFICES ASSUME IInv, [Next]_vars PROVE OwnNumber'
  OBVIOUS
<1>0. TypeOK /\ OwnNumber /\ assemblies \in Nat
  BY DEF IInv, TypeOK
\* Nobody begins or ends.
<1>1. ASSUME \A q \in Requests : by'[q] = by[q] /\ (Open(q)' <=> Open(q)) /\ snapshot'[q] = snapshot[q],
             assemblies' = assemblies, Amends
      PROVE  OwnNumber'
  <2>1. \A d \in candidates' : \E c \in candidates : d.by = c.by
    BY <1>1 DEF Amends, Amended
  <2>2. ASSUME NEW r \in Requests, Open(r)'
        PROVE  /\ by'[r] \in 1..assemblies'
               /\ \A q \in Requests \ {r} : by'[q] # by'[r]
               /\ \A c \in candidates' : c.by # by'[r]
               /\ \A q \in Requests : \A i \in snapshot'[q] : i[1] # by'[r]
    BY <1>0, <1>1, <2>1, <2>2 DEF OwnNumber
  <2>3. /\ \A c \in candidates' : c.by \in 0..assemblies'
        /\ \A r \in Requests : \A i \in snapshot'[r] : i[1] \in 0..assemblies'
    BY <1>0, <1>1, <2>1 DEF OwnNumber
  <2> QED
    BY <2>2, <2>3 DEF OwnNumber
<1>2. CASE UNCHANGED vars
  BY <1>0, <1>2 DEF vars, tables, session, OwnNumber, Open
<1>3. CASE Outside
  BY <1>1, <1>3, OutsideEffect, OutsideAmends DEF Keeps, Open
<1>4. ASSUME NEW r \in Requests, Begin(r) PROVE OwnNumber'
  <2>1. /\ candidates' = candidates /\ assemblies' = assemblies + 1 /\ by'[r] = assemblies + 1
        /\ snapshot'[r] = {}
        /\ \A q \in Requests \ {r} : by'[q] = by[q] /\ pc'[q] = pc[q] /\ snapshot'[q] = snapshot[q]
    BY <1>0, <1>4, BeginEffect DEF StepOf, Keeps, tables
  <2>2. \A q \in Requests : by[q] \in 0..assemblies
    BY <1>0 DEF OwnNumber, Open, TypeOK
  <2>3. /\ by'[r] \in 1..assemblies'
        /\ \A i \in 0..assemblies : i # by'[r] /\ i \in 0..assemblies'
        /\ \A i \in 1..assemblies : i \in 1..assemblies'
    BY <1>0, <2>1
  <2>4. /\ \A c \in candidates : c.by \in 0..assemblies
        /\ \A q \in Requests : \A i \in snapshot[q] : i[1] \in 0..assemblies
    BY <1>0 DEF OwnNumber
  <2>5. ASSUME NEW q \in Requests, Open(q)'
        PROVE  /\ by'[q] \in 1..assemblies'
               /\ \A p \in Requests \ {q} : by'[p] # by'[q]
               /\ \A c \in candidates' : c.by # by'[q]
               /\ \A p \in Requests : \A i \in snapshot'[p] : i[1] # by'[q]
    <3>1. CASE q = r
      BY <2>1, <2>2, <2>3, <2>4, <3>1
    <3>2. CASE q # r
      <4>1. Open(q) /\ by'[q] = by[q] /\ by[q] \in 1..assemblies /\ by[q] # by'[r]
        BY <1>0, <2>1, <2>2, <2>3, <2>5, <3>2 DEF Open, OwnNumber
      <4> QED
        BY <1>0, <2>1, <2>3, <3>2, <4>1 DEF OwnNumber
    <3> QED
      BY <3>1, <3>2
  <2>6. /\ \A c \in candidates' : c.by \in 0..assemblies'
        /\ \A q \in Requests : \A i \in snapshot'[q] : i[1] \in 0..assemblies'
    BY <2>1, <2>3, <2>4
  <2> QED
    BY <2>5, <2>6 DEF OwnNumber
<1>5. ASSUME NEW r \in Requests, DeleteBegins(r) PROVE OwnNumber'
  <2>1. /\ candidates' = candidates /\ assemblies' = assemblies /\ by'[r] = by[r]
        /\ pc[r] = "begun" /\ pc'[r] = "deleting"
        /\ \A i \in snapshot'[r] : \E c \in candidates : i = Id(c)
        /\ \A q \in Requests \ {r} : by'[q] = by[q] /\ pc'[q] = pc[q] /\ snapshot'[q] = snapshot[q]
    BY <1>0, <1>5, DeleteBeginsEffect DEF StepOf, Keeps, tables
  <2>2. \A i \in snapshot'[r] : \E c \in candidates : i[1] = c.by
    BY <2>1 DEF Id
  <2>3. \A q \in Requests : by'[q] = by[q] /\ (Open(q)' <=> Open(q))
    BY <2>1 DEF Open
  <2>4. ASSUME NEW q \in Requests, Open(q), NEW p \in Requests, NEW i \in snapshot'[p]
        PROVE  i[1] # by[q] /\ i[1] \in 0..assemblies
    BY <1>0, <2>1, <2>2, <2>4 DEF OwnNumber
  <2>5. \A q \in Requests : \A i \in snapshot'[q] : i[1] \in 0..assemblies
    BY <1>0, <2>1, <2>2 DEF OwnNumber
  <2> QED
    BY <1>0, <2>1, <2>3, <2>4, <2>5 DEF OwnNumber
\* Whoever ends leaves its number to its candidates.
<1>6. ASSUME NEW r \in Requests, Ends(r), \A q \in Requests \ {r} : Keeps(q),
             \A c \in candidates' :
               (c.by = by[r] /\ Open(r)) \/ \E d \in candidates : c.by = d.by
      PROVE  OwnNumber'
  <2>1. ASSUME NEW q \in Requests, Open(q)'
        PROVE  /\ q # r /\ Open(q) /\ by'[q] = by[q]
    BY <1>6, <2>1 DEF Ends, Keeps, Open
  <2>2. by'[r] = 0 /\ snapshot'[r] = {} /\ assemblies' = assemblies
        /\ \A q \in Requests \ {r} : by'[q] = by[q] /\ snapshot'[q] = snapshot[q]
    BY <1>6 DEF Ends, Keeps
  <2>3. ASSUME NEW q \in Requests, Open(q)'
        PROVE  /\ by'[q] \in 1..assemblies'
               /\ \A p \in Requests \ {q} : by'[p] # by'[q]
               /\ \A c \in candidates' : c.by # by'[q]
               /\ \A p \in Requests : \A i \in snapshot'[p] : i[1] # by'[q]
    <3>1. by'[q] \in 1..assemblies' /\ \A p \in Requests \ {q} : by'[p] # by'[q]
      BY <1>0, <2>1, <2>2, <2>3 DEF OwnNumber
    <3>2. \A c \in candidates' : c.by # by'[q]
      BY <1>0, <1>6, <2>1, <2>2, <2>3 DEF OwnNumber
    <3>3. \A p \in Requests : \A i \in snapshot'[p] : i[1] # by'[q]
      BY <1>0, <2>1, <2>2, <2>3 DEF OwnNumber
    <3> QED
      BY <3>1, <3>2, <3>3
  <2>4. \A c \in candidates' : c.by \in 0..assemblies'
    BY <1>0, <1>6, <2>2 DEF OwnNumber
  <2>5. \A q \in Requests : \A i \in snapshot'[q] : i[1] \in 0..assemblies'
    BY <1>0, <2>2 DEF OwnNumber
  <2> QED
    BY <2>3, <2>4, <2>5 DEF OwnNumber
<1>7. ASSUME NEW r \in Requests, Fail(r) PROVE OwnNumber'
  <2>1. candidates' = candidates /\ Ends(r) /\ \A q \in Requests \ {r} : Keeps(q)
    BY <1>0, <1>7, FailEffect DEF StepOf, tables
  <2> QED
    BY <1>6, <2>1
<1>8. ASSUME NEW r \in Requests, Commits(r) PROVE OwnNumber'
  <2>1. \A c \in inserted[r] : c.by = by[r]
    BY DEF IInv, BuildsOnce, Made, BuiltOf
  <2>2. Open(r) /\ Ends(r) /\ \A q \in Requests \ {r} : Keeps(q)
    BY <1>8 DEF Commits, Open
  <2>3. \A c \in candidates' : c \in candidates \/ c \in inserted[r]
    BY <1>8 DEF Commits
  <2> QED
    BY <1>6, <2>1, <2>2, <2>3
<1>9. ASSUME NEW r \in Requests, DeleteEnds(r) \/ ReadKept(r) \/ ListPages(r) \/ ReadPage(r) \/ Insert(r)
      PROVE  OwnNumber'
  <2>1. /\ assemblies' = assemblies /\ by'[r] = by[r] /\ snapshot'[r] = snapshot[r]
        /\ Open(r) /\ Open(r)'
    BY <1>0, <1>9, DeleteEndsEffect, ReadKeptEffect, ListPagesEffect, ReadPageEffect,
       InsertEffect DEF Open
  <2>2. Step(r)
    BY <1>9 DEF Step
  <2>3. \A q \in Requests \ {r} : Keeps(q)
    BY <1>0, <2>2, StepEffect DEF StepOf
  <2> QED
    BY <1>1, <2>1, <2>2, <2>3, StepAmends DEF Keeps, Open
<1> QED
  BY <1>2, <1>3, <1>4, <1>5, <1>7, <1>8, <1>9, Cases DEF Step

\* The candidates of one assembly are of different pages.
LEMMA BuiltApart ==
  ASSUME IInv, NEW r \in Requests, NEW c \in Made(r), NEW d \in Made(r), c.page = d.page
  PROVE  c = d
<1>1. PICK p \in Row : BuiltOf(r, c, p)
  BY DEF IInv, BuildsOnce
<1>2. PICK q \in Row : BuiltOf(r, d, q)
  BY DEF IInv, BuildsOnce
<1>3. p[2] = q[2]
  <2>1. p \in UNION {e.pages : e \in Made(r)} /\ q \in UNION {e.pages : e \in Made(r)}
    BY <1>1, <1>2 DEF BuiltOf
  <2> QED
    BY <2>1 DEF IInv, BuildsOnce
<1>4. p = q
  <2>1. p[1] = q[1]
    BY <1>1, <1>2 DEF BuiltOf
  <2>2. p = <<p[1], p[2]>> /\ q = <<q[1], q[2]>>
    BY DEF Row
  <2> QED
    BY <1>3, <2>1, <2>2
<1>5. c.pages \cap d.pages # {}
  BY <1>1, <1>2, <1>4 DEF BuiltOf
<1> QED
  BY <1>5 DEF IInv, BuildsOnce

LEMMA UniqueIdsStep == IInv /\ [Next]_vars => UniqueIds'
<1> SUFFICES ASSUME IInv, [Next]_vars PROVE UniqueIds'
  OBVIOUS
<1>1. CASE UNCHANGED vars
  BY <1>1 DEF vars, tables, IInv, UniqueIds
<1>2. CASE Outside
  BY <1>2, OutsideAmends DEF Amends
<1>3. ASSUME NEW r \in Requests, Step(r) PROVE UniqueIds'
  BY <1>3, StepAmends DEF Amends
<1>4. ASSUME NEW r \in Requests, Commits(r) PROVE UniqueIds'
  <2>0. UniqueIds /\ Numbers \subseteq Nat
    BY NumbersAssumption DEF IInv
  <2>1. \A c \in candidates' : c \in candidates \/ c \in inserted[r]
    BY <1>4 DEF Commits
  <2>2. ASSUME NEW c \in inserted[r], NEW d \in candidates PROVE Id(c) # Id(d)
    BY <1>4 DEF Commits, Open, IInv, BuildsOnce, Made, BuiltOf, OwnNumber, Id
  <2>3. ASSUME NEW c \in inserted[r], NEW d \in inserted[r], Id(c) = Id(d) PROVE c = d
    <3>1. c \in Made(r) /\ d \in Made(r) /\ c.page = d.page
      BY <2>3 DEF Made, Id
    <3> QED
      BY <3>1, BuiltApart
  <2> QED
    BY <2>0, <2>1, <2>2, <2>3 DEF UniqueIds
<1> QED
  BY <1>1, <1>2, <1>3, <1>4, Cases

LEMMA RefsHoldStep == IInv /\ [Next]_vars => RefsHold'
<1> SUFFICES ASSUME IInv, [Next]_vars PROVE RefsHold'
  OBVIOUS
<1>0. TypeOK /\ RefsHold
  BY DEF IInv
<1>1. Amends => \A c \in candidates' : c.pages \subseteq pages' /\ c.finds \subseteq finds'
  BY DEF Amends, Amended
<1>2. CASE UNCHANGED vars
  BY <1>0, <1>2 DEF vars, tables, session, RefsHold
<1>3. ASSUME Outside,
             \A q \in Requests : \A c \in inserted[q] : c.pages \subseteq pages' /\ c.finds \subseteq finds'
      PROVE  RefsHold'
  BY <1>1, <1>3, OutsideEffect, OutsideAmends DEF RefsHold, Keeps
<1>4. ASSUME Outside, pages \subseteq pages', finds \subseteq finds' PROVE RefsHold'
  BY <1>0, <1>3, <1>4 DEF RefsHold
<1>5. ASSUME NEW f \in finds, ForgetFind(f) PROVE RefsHold'
  <2>1. ASSUME NEW q \in Requests, NEW c \in inserted[q]
        PROVE  c.pages \subseteq pages' /\ c.finds \subseteq finds'
    <3>1. pages' = pages /\ finds' = finds \ {f} /\ PageOf(f) \notin c.pages
      BY <1>5 DEF ForgetFind, Free
    <3>2. PICK p \in Row : BuiltOf(q, c, p)
      BY DEF IInv, BuildsOnce, Made
    <3>3. f \notin c.finds
      BY <3>1, <3>2 DEF BuiltOf
    <3> QED
      BY <1>0, <3>1, <3>3 DEF RefsHold
  <2> QED
    BY <1>3, <1>5, <2>1 DEF Outside
<1>6. CASE Wipe
  <2>1. ASSUME NEW q \in Requests, NEW c \in inserted[q] PROVE FALSE
    <3>1. c.pages \cap pages = {} /\ c.pages \subseteq pages
      BY <1>0, <1>6 DEF Wipe, Free, RefsHold
    <3>2. PICK p \in Row : BuiltOf(q, c, p)
      BY DEF IInv, BuildsOnce, Made
    <3> QED
      BY <3>1, <3>2 DEF BuiltOf
  <2> QED
    BY <1>3, <1>6, <2>1 DEF Outside, Processing
<1>7. CASE Outside
  <2>1. CASE (\E c \in candidates : Review(c)) \/ StartRun \/ EndRun
    BY <1>4, <1>7, <2>1 DEF Review, StartRun, EndRun
  <2>2. CASE (\E n \in Numbers : RenderPage(n)) \/ \E p \in pages : FindProducts(p)
    BY <1>4, <1>7, <2>2 DEF RenderPage, FindProducts
  <2> QED
    BY <1>5, <1>6, <1>7, <2>1, <2>2 DEF Outside, Processing
<1>8. ASSUME NEW r \in Requests, Step(r), inserted'[r] \subseteq inserted[r] PROVE RefsHold'
  <2>1. /\ \A q \in Requests : inserted'[q] \subseteq inserted[q]
        /\ pages' = pages /\ finds' = finds
    BY <1>0, <1>8, StepEffect DEF StepOf, Keeps, tables
  <2> QED
    BY <1>0, <1>1, <1>8, <2>1, StepAmends DEF RefsHold
<1>9. ASSUME NEW r \in Requests, Step(r) PROVE RefsHold'
  <2>1. CASE Insert(r)
    <3>1. /\ pages' = pages /\ finds' = finds /\ candidates' = candidates
          /\ inserted'[r] = inserted[r] \cup draft[r]
          /\ \A c \in draft[r] : c.pages \subseteq pages /\ c.finds \subseteq finds
          /\ \A q \in Requests \ {r} : inserted'[q] = inserted[q]
      BY <1>0, <2>1, InsertEffect DEF StepOf, Keeps, tables
    <3> QED
      BY <1>0, <3>1 DEF RefsHold
  <2>2. CASE ~Insert(r)
    <3>1. inserted'[r] \subseteq inserted[r]
      BY <1>0, <1>9, <2>2, BeginEffect, DeleteBeginsEffect, DeleteEndsEffect, ReadKeptEffect,
         ListPagesEffect, ReadPageEffect, FailEffect DEF Step, Ends
    <3> QED
      BY <1>8, <1>9, <3>1
  <2> QED
    BY <2>1, <2>2
<1>10. ASSUME NEW r \in Requests, Commits(r) PROVE RefsHold'
  <2>1. /\ pages' = pages /\ finds' = finds
        /\ \A c \in candidates' : c \in candidates \/ c \in inserted[r]
        /\ inserted'[r] = {} /\ \A q \in Requests \ {r} : inserted'[q] = inserted[q]
    BY <1>10 DEF Commits, Ends, Keeps
  <2> QED
    BY <1>0, <2>1 DEF RefsHold
<1> QED
  BY <1>2, <1>7, <1>9, <1>10, Cases

LEMMA OneRunStep == IInv /\ [Next]_vars => OneRun'
<1> SUFFICES ASSUME IInv, [Next]_vars PROVE OneRun'
  OBVIOUS
<1>0. TypeOK /\ OneRun
  BY DEF IInv
<1>1. CASE pages' \subseteq pages
  BY <1>0, <1>1 DEF OneRun
<1>2. ASSUME NEW n \in Numbers, RenderPage(n) PROVE OneRun'
  BY <1>2 DEF RenderPage, OfThisRun, OneRun
<1>3. CASE Outside
  <2>1. CASE (\E c \in candidates : Review(c)) \/ (\E f \in finds : ForgetFind(f))
             \/ StartRun \/ Wipe \/ EndRun \/ \E p \in pages : FindProducts(p)
    BY <1>1, <2>1 DEF Review, ForgetFind, StartRun, Wipe, EndRun, FindProducts
  <2> QED
    BY <1>2, <1>3, <2>1 DEF Outside, Processing
<1>4. ASSUME NEW r \in Requests, Step(r) PROVE OneRun'
  BY <1>0, <1>1, <1>4, StepEffect DEF StepOf, tables
<1>5. ASSUME NEW r \in Requests, Commits(r) PROVE OneRun'
  BY <1>1, <1>5 DEF Commits
<1>6. CASE UNCHANGED vars
  BY <1>1, <1>6 DEF vars, tables
<1> QED
  BY <1>3, <1>4, <1>5, <1>6, Cases

----------------------------------------------------------------------------
(* What an open assembly keeps. *)

LEMMA FreshStartStep == IInv /\ [Next]_vars => FreshStart'
<1> SUFFICES ASSUME IInv, [Next]_vars PROVE FreshStart'
  OBVIOUS
<1>0. TypeOK /\ FreshStart
  BY DEF IInv
<1>1. CASE UNCHANGED vars
  BY <1>0, <1>1 DEF vars, session, FreshStart
<1>2. CASE Outside
  BY <1>0, <1>2, OutsideEffect DEF Keeps, FreshStart
<1>3. ASSUME NEW r \in Requests, \A q \in Requests \ {r} : Keeps(q),
             pc'[r] = "begun" => snapshot'[r] = {},
             pc'[r] \in {"begun", "deleting"} => deleted'[r] = {},
             pc'[r] \notin {"reading", "drafted"} => todo'[r] = {} /\ inserted'[r] = {}
      PROVE  FreshStart'
  <2>1. ASSUME NEW q \in Requests
        PROVE  /\ pc'[q] = "begun" => snapshot'[q] = {}
               /\ pc'[q] \in {"begun", "deleting"} => deleted'[q] = {}
               /\ pc'[q] \notin {"reading", "drafted"} => todo'[q] = {} /\ inserted'[q] = {}
    <3>1. CASE q = r
      BY <1>3, <3>1
    <3>2. CASE q # r
      BY <1>0, <1>3, <3>2 DEF Keeps, FreshStart
    <3> QED
      BY <3>1, <3>2
  <2> QED
    BY <2>1 DEF FreshStart
<1>4. ASSUME NEW r \in Requests, Step(r)
      PROVE  /\ pc'[r] = "begun" => snapshot'[r] = {}
             /\ pc'[r] \in {"begun", "deleting"} => deleted'[r] = {}
             /\ pc'[r] \notin {"reading", "drafted"} => todo'[r] = {} /\ inserted'[r] = {}
  <2>0. /\ pc[r] \in {"begun", "deleting"} => deleted[r] = {}
        /\ pc[r] \notin {"reading", "drafted"} => todo[r] = {} /\ inserted[r] = {}
    BY <1>0 DEF FreshStart
  <2>1. CASE Begin(r)
    BY <1>0, <2>1, BeginEffect
  <2>2. CASE DeleteBegins(r)
    BY <1>0, <2>0, <2>2, DeleteBeginsEffect
  <2>3. CASE DeleteEnds(r)
    BY <1>0, <2>0, <2>3, DeleteEndsEffect
  <2>4. CASE ReadKept(r)
    BY <1>0, <2>0, <2>4, ReadKeptEffect
  <2>5. CASE ListPages(r)
    BY <1>0, <2>5, ListPagesEffect
  <2>6. CASE ReadPage(r)
    BY <1>0, <2>6, ReadPageEffect
  <2>7. CASE Insert(r)
    BY <1>0, <2>7, InsertEffect
  <2>8. CASE Fail(r)
    BY <1>0, <2>8, FailEffect DEF Ends
  <2> QED
    BY <1>4, <2>1, <2>2, <2>3, <2>4, <2>5, <2>6, <2>7, <2>8 DEF Step
<1>5. ASSUME NEW r \in Requests, Step(r) PROVE FreshStart'
  <2>1. \A q \in Requests \ {r} : Keeps(q)
    BY <1>0, <1>5, StepEffect DEF StepOf
  <2> QED
    BY <1>3, <1>4, <1>5, <2>1
<1>6. ASSUME NEW r \in Requests, Commits(r) PROVE FreshStart'
  BY <1>3, <1>6 DEF Commits, Ends
<1> QED
  BY <1>1, <1>2, <1>5, <1>6, Cases

\* BuildsOnce of one request.
BuildsOnceOf(r) ==
  /\ \A c \in Made(r) : \E p \in Row : BuiltOf(r, c, p)
  /\ \A c, d \in Made(r) : c.pages \cap d.pages # {} => c = d
  /\ todo[r] \cap kept[r] = {}
  /\ \A p, q \in todo[r] \cup UNION {c.pages : c \in Made(r)} : p[2] = q[2]

LEMMA BuildsOnceStep == IInv /\ [Next]_vars => BuildsOnce'
<1> SUFFICES ASSUME IInv, [Next]_vars PROVE BuildsOnce'
  OBVIOUS
<1>0. TypeOK /\ FreshStart /\ \A r \in Requests : BuildsOnceOf(r)
  BY DEF IInv, BuildsOnce, BuildsOnceOf
<1>1. ASSUME NEW q \in Requests, Keeps(q) PROVE BuildsOnceOf(q)'
  BY <1>0, <1>1 DEF Keeps, BuildsOnceOf, BuiltOf, Made
<1>2. CASE UNCHANGED vars
  BY <1>1, <1>2 DEF vars, session, Keeps, BuildsOnce, BuildsOnceOf
<1>3. CASE Outside
  BY <1>1, <1>3, OutsideEffect DEF BuildsOnce, BuildsOnceOf
<1>4. ASSUME NEW r \in Requests, \A q \in Requests \ {r} : Keeps(q), BuildsOnceOf(r)'
      PROVE  BuildsOnce'
  BY <1>1, <1>4 DEF BuildsOnce, BuildsOnceOf
\* With nothing built and nothing to read there is nothing to show.
<1>5. ASSUME NEW r \in Requests, todo'[r] = {}, draft'[r] = {}, inserted'[r] = {}
      PROVE  BuildsOnceOf(r)'
  BY <1>5 DEF BuildsOnceOf, Made
<1>6. ASSUME NEW r \in Requests, Begin(r) \/ DeleteBegins(r) \/ DeleteEnds(r) \/ ReadKept(r) \/ Fail(r)
      PROVE  BuildsOnceOf(r)'
  <2>1. pc[r] \notin {"reading", "drafted"} => todo[r] = {} /\ inserted[r] = {} /\ draft[r] = {}
    BY <1>0 DEF FreshStart, TypeOK
  <2>2. CASE Begin(r)
    BY <1>0, <1>5, <2>2, BeginEffect
  <2>3. CASE DeleteBegins(r)
    BY <1>0, <1>5, <2>1, <2>3, DeleteBeginsEffect
  <2>4. CASE DeleteEnds(r)
    BY <1>0, <1>5, <2>1, <2>4, DeleteEndsEffect
  <2>5. CASE ReadKept(r)
    BY <1>0, <1>5, <2>1, <2>5, ReadKeptEffect
  <2>6. CASE Fail(r)
    BY <1>0, <1>5, <2>6, FailEffect DEF Ends
  <2> QED
    BY <1>6, <2>2, <2>3, <2>4, <2>5, <2>6
<1>7. ASSUME NEW r \in Requests, ListPages(r) PROVE BuildsOnceOf(r)'
  <2>1. /\ todo'[r] = pages \ kept[r] /\ kept'[r] = kept[r]
        /\ inserted'[r] = {} /\ draft'[r] = {}
    BY <1>0, <1>7, ListPagesEffect DEF FreshStart, TypeOK
  <2>2. Made(r)' = {}
    BY <2>1 DEF Made
  <2>3. \A p, q \in todo'[r] : p[2] = q[2]
    BY <2>1 DEF IInv, OneRun
  <2>4. UNION {c.pages : c \in Made(r)'} = {}
    BY <2>2
  <2> QED
    BY <2>1, <2>2, <2>3, <2>4 DEF BuildsOnceOf
<1>8. ASSUME NEW r \in Requests, ReadPage(r) PROVE BuildsOnceOf(r)'
  <2>0. /\ inserted'[r] = inserted[r] /\ draft[r] = {} /\ by'[r] = by[r] /\ kept'[r] = kept[r]
        /\ todo[r] \subseteq Row
    BY <1>0, <1>8, ReadPageEffect DEF TypeOK
  <2>1. PICK p \in todo[r] :
          /\ todo'[r] = todo[r] \ {p}
          /\ draft'[r] = {} \/ draft'[r] = {Built(by[r], p)}
    BY <1>0, <1>8, ReadPageEffect
  <2>20. PICK d : d = Built(by[r], p)
    OBVIOUS
  <2>2. /\ d.by = by[r] /\ ~d.reviewed /\ d.pages = {p} /\ d.page = p[1]
        /\ \A f \in d.finds : PageOf(f) = p
    BY <2>20 DEF Built, FindsOn
  <2>3. Made(r) = inserted[r] /\ (Made(r)' = inserted[r] \/ Made(r)' = inserted[r] \cup {d})
    BY <2>0, <2>1, <2>20 DEF Made
  <2>4. ASSUME NEW c \in inserted[r] PROVE \E q \in Row : BuiltOf(r, c, q) /\ BuiltOf(r, c, q)'
    <3>1. PICK q \in Row : BuiltOf(r, c, q)
      BY <1>0, <2>3 DEF BuildsOnceOf
    <3>2. BuiltOf(r, c, q)'
      BY <2>0, <2>1, <3>1 DEF BuiltOf
    <3> QED
      BY <3>1, <3>2
  <2>5. BuiltOf(r, d, p)'
    BY <1>0, <2>0, <2>1, <2>2 DEF BuiltOf, BuildsOnceOf
  <2>6. \A c \in Made(r)' : \E q \in Row : BuiltOf(r, c, q)'
    BY <2>0, <2>3, <2>4, <2>5
  <2>7. ASSUME NEW c \in inserted[r] PROVE c.pages \cap d.pages = {}
    BY <2>1, <2>2, <2>4 DEF BuiltOf
  <2>8. \A c, e \in Made(r)' : c.pages \cap e.pages # {} => c = e
    BY <1>0, <2>3, <2>7 DEF BuildsOnceOf
  <2>9. \A q \in UNION {c.pages : c \in Made(r)'} : q \in UNION {c.pages : c \in Made(r)} \/ q = p
    BY <2>2, <2>3
  <2>10. \A q, e \in todo'[r] \cup UNION {c.pages : c \in Made(r)'} : q[2] = e[2]
    BY <1>0, <2>1, <2>9 DEF BuildsOnceOf
  <2>11. todo'[r] \cap kept'[r] = {}
    BY <1>0, <2>0, <2>1 DEF BuildsOnceOf
  <2> QED
    BY <2>6, <2>8, <2>10, <2>11 DEF BuildsOnceOf
<1>9. ASSUME NEW r \in Requests, Insert(r) PROVE BuildsOnceOf(r)'
  <2>1. /\ todo'[r] = todo[r] /\ kept'[r] = kept[r] /\ by'[r] = by[r] /\ Made(r)' = Made(r)
    BY <1>0, <1>9, InsertEffect DEF Made
  <2> QED
    BY <1>0, <2>1 DEF BuildsOnceOf, BuiltOf
<1>10. ASSUME NEW r \in Requests, Step(r) PROVE BuildsOnce'
  <2>1. \A q \in Requests \ {r} : Keeps(q)
    BY <1>0, <1>10, StepEffect DEF StepOf
  <2>2. BuildsOnceOf(r)'
    BY <1>6, <1>7, <1>8, <1>9, <1>10 DEF Step
  <2> QED
    BY <1>4, <2>1, <2>2
<1>11. ASSUME NEW r \in Requests, Commits(r) PROVE BuildsOnce'
  BY <1>4, <1>5, <1>11 DEF Commits, Ends
<1> QED
  BY <1>2, <1>3, <1>10, <1>11, Cases

\* Deletions of one request.
AllOrNone(r, a) ==
  \/ \A c \in candidates : c.by = a /\ ~c.reviewed => Id(c) \in Found(r)
  \/ \A i \in Found(r) : i[1] # a
DeletionsOf(r) ==
  /\ deleted[r] \subseteq snapshot[r]
  /\ \A c \in candidates : Id(c) \in deleted[r] => ~c.reviewed
  /\ \A a \in 0..MaxAssemblies : AllOrNone(r, a)
DeletedApart == \A r, q \in Requests : r # q => deleted[q] \cap deleted[r] = {}

LEMMA DeletionsParts == Deletions <=> DeletedApart /\ \A r \in Requests : DeletionsOf(r)
BY DEF Deletions, DeletedApart, DeletionsOf, AllOrNone

LEMMA DeletionsStep == IInv /\ [Next]_vars => Deletions'
<1> SUFFICES ASSUME IInv, [Next]_vars PROVE DeletedApart' /\ \A r \in Requests : DeletionsOf(r)'
  BY DEF Deletions, DeletedApart, DeletionsOf, AllOrNone
<1>0. /\ TypeOK /\ FreshStart /\ UniqueIds /\ DeletedApart
      /\ \A r \in Requests : DeletionsOf(r)
  BY DeletionsParts DEF IInv
\* Amending the candidates keeps a request's deletions.
<1>1. ASSUME NEW r \in Requests, Amends,
             pc'[r] = pc[r], deleted'[r] = deleted[r], snapshot'[r] = snapshot[r]
      PROVE  DeletionsOf(r)'
  <2>1. Found(r)' = Found(r)
    BY <1>1 DEF Found
  <2>2. \A d \in candidates' : \E c \in candidates :
          /\ Id(d) = Id(c) /\ d.by = c.by /\ (~d.reviewed => ~c.reviewed)
          /\ Id(c) \in deleted[r] => d.reviewed = c.reviewed
    <3>1. ASSUME NEW d \in candidates', NEW c \in candidates, Amended(c, d)
          PROVE  /\ Id(d) = Id(c) /\ d.by = c.by /\ (~d.reviewed => ~c.reviewed)
                 /\ Id(c) \in deleted[r] => d.reviewed = c.reviewed
      BY <3>1 DEF Amended, Id
    <3> QED
      BY <1>1, <3>1 DEF Amends
  <2>3. \A d \in candidates' : Id(d) \in deleted'[r] => ~d.reviewed
    BY <1>0, <1>1, <2>2 DEF DeletionsOf
  <2>4. ASSUME NEW a \in 0..MaxAssemblies PROVE AllOrNone(r, a)'
    BY <1>0, <2>1, <2>2 DEF DeletionsOf, AllOrNone
  <2> QED
    BY <1>0, <1>1, <2>3, <2>4 DEF DeletionsOf
<1>2. ASSUME \A q \in Requests : deleted'[q] \subseteq deleted[q] PROVE DeletedApart'
  BY <1>0, <1>2 DEF DeletedApart
<1>3. CASE UNCHANGED vars
  <2>1. Amends
    BY <1>3, QuietAmends DEF IInv, vars, tables
  <2> QED
    BY <1>1, <1>2, <1>3, <2>1 DEF vars, session
<1>4. CASE Outside
  BY <1>1, <1>2, <1>4, OutsideEffect, OutsideAmends DEF Keeps
<1>5. ASSUME NEW r \in Requests, Step(r), deleted'[r] \subseteq deleted[r], DeletionsOf(r)'
      PROVE  DeletedApart' /\ \A q \in Requests : DeletionsOf(q)'
  <2>1. \A q \in Requests \ {r} : Keeps(q)
    BY <1>0, <1>5, StepEffect DEF StepOf
  <2> QED
    BY <1>1, <1>2, <1>5, <2>1, StepAmends DEF Keeps
\* A request without deletions.
<1>6. ASSUME NEW r \in Requests, deleted'[r] = {}, pc'[r] # "deleting" PROVE DeletionsOf(r)'
  BY <1>6 DEF DeletionsOf, AllOrNone, Found
<1>7. ASSUME NEW r \in Requests, Begin(r) PROVE DeletedApart' /\ \A q \in Requests : DeletionsOf(q)'
  BY <1>0, <1>5, <1>6, <1>7, BeginEffect DEF Step
<1>8. ASSUME NEW r \in Requests, Fail(r) PROVE DeletedApart' /\ \A q \in Requests : DeletionsOf(q)'
  BY <1>0, <1>5, <1>6, <1>8, FailEffect DEF Step, Ends
<1>9. ASSUME NEW r \in Requests, DeleteBegins(r)
      PROVE  DeletedApart' /\ \A q \in Requests : DeletionsOf(q)'
  <2>1. /\ candidates' = candidates /\ deleted'[r] = {} /\ deleted[r] = {} /\ pc'[r] = "deleting"
        /\ snapshot'[r] = {Id(c) : c \in {d \in candidates : Rebuildable(d)}}
    BY <1>0, <1>9, DeleteBeginsEffect DEF StepOf, tables, FreshStart
  <2>2. \A c \in candidates' : ~c.reviewed => Id(c) \in Found(r)'
    BY <2>1 DEF Found, Rebuildable
  <2>3. DeletionsOf(r)'
    BY <2>1, <2>2 DEF DeletionsOf, AllOrNone
  <2> QED
    BY <1>5, <1>9, <2>1, <2>3 DEF Step
<1>10. ASSUME NEW r \in Requests, DeleteEnds(r)
       PROVE  DeletedApart' /\ \A q \in Requests : DeletionsOf(q)'
  <2>1. /\ candidates' = candidates /\ snapshot'[r] = snapshot[r]
        /\ pc[r] = "deleting" /\ pc'[r] = "deleted"
        /\ deleted'[r] = snapshot[r] \cap {Id(c) : c \in {d \in candidates : Rebuildable(d)}}
        /\ \A q \in Requests \ {r} : deleted[q] \cap snapshot[r] = {} /\ Keeps(q)
    BY <1>0, <1>10, DeleteEndsEffect DEF StepOf, tables
  <2>2. Found(r) = snapshot[r] /\ Found(r)' = deleted'[r]
    BY <2>1 DEF Found
  <2>3. \A c \in candidates : ~c.reviewed /\ Id(c) \in snapshot[r] => Id(c) \in deleted'[r]
    BY <2>1 DEF Rebuildable
  <2>4. \A c \in candidates' : Id(c) \in deleted'[r] => ~c.reviewed
    BY <1>0, <2>1 DEF Rebuildable, UniqueIds
  <2>5. ASSUME NEW a \in 0..MaxAssemblies PROVE AllOrNone(r, a)'
    <3>1. CASE \A c \in candidates : c.by = a /\ ~c.reviewed => Id(c) \in Found(r)
      BY <2>1, <2>2, <2>3, <3>1 DEF AllOrNone
    <3>2. CASE \A i \in Found(r) : i[1] # a
      BY <2>1, <2>2, <3>2 DEF AllOrNone
    <3> QED
      BY <1>0, <3>1, <3>2 DEF DeletionsOf, AllOrNone
  <2>6. DeletionsOf(r)'
    BY <2>1, <2>4, <2>5 DEF DeletionsOf
  <2>7. DeletedApart'
    BY <1>0, <2>1 DEF DeletedApart, Keeps
  <2>8. Amends
    BY <1>10, StepAmends DEF Step
  <2> QED
    BY <1>1, <2>1, <2>6, <2>7, <2>8 DEF Keeps
<1>11. ASSUME NEW r \in Requests, ReadKept(r) \/ ListPages(r) \/ ReadPage(r) \/ Insert(r)
       PROVE  DeletedApart' /\ \A q \in Requests : DeletionsOf(q)'
  <2>1. /\ deleted'[r] = deleted[r] /\ snapshot'[r] = snapshot[r]
        /\ pc[r] # "deleting" /\ pc'[r] # "deleting"
    BY <1>0, <1>11, ReadKeptEffect, ListPagesEffect, ReadPageEffect, InsertEffect
  <2>2. Step(r) /\ candidates' = candidates
    BY <1>0, <1>11, StepEffect DEF Step, StepOf, tables
  <2>3. Found(r)' = Found(r)
    BY <2>1 DEF Found
  <2>4. DeletionsOf(r)'
    BY <1>0, <2>1, <2>2, <2>3 DEF DeletionsOf, AllOrNone
  <2> QED
    BY <1>5, <2>1, <2>2, <2>4
\* The others have found nothing of what a commit deletes or inserts.
<1>12. ASSUME NEW r \in Requests, Commits(r)
       PROVE  DeletedApart' /\ \A q \in Requests : DeletionsOf(q)'
  <2>1. /\ deleted'[r] = {} /\ pc'[r] = "idle" /\ Open(r)
        /\ \A q \in Requests \ {r} : Keeps(q)
        /\ \A c \in candidates' : c \in candidates \/ c \in inserted[r]
    BY <1>12 DEF Commits, Ends, Open
  <2>2. DeletedApart'
    BY <1>2, <2>1 DEF Keeps
  <2>3. ASSUME NEW q \in Requests \ {r} PROVE DeletionsOf(q)'
    <3>1. /\ pc'[q] = pc[q] /\ deleted'[q] = deleted[q] /\ snapshot'[q] = snapshot[q]
          /\ Found(q)' = Found(q) /\ Found(q) \subseteq snapshot[q]
      BY <1>0, <2>1 DEF Keeps, Found, DeletionsOf
    <3>2. \A c \in inserted[r] : c.by = by[r] /\ ~c.reviewed
      BY DEF IInv, BuildsOnce, Made, BuiltOf
    <3>3. \A i \in Found(q) : i[1] # by[r]
      BY <2>1, <3>1 DEF IInv, OwnNumber
    <3>4. \A c \in candidates' : Id(c) \in deleted'[q] => ~c.reviewed
      BY <1>0, <2>1, <3>1, <3>2 DEF DeletionsOf
    <3>5. ASSUME NEW a \in 0..MaxAssemblies PROVE AllOrNone(q, a)'
      <4>1. CASE a = by[r]
        BY <3>1, <3>3, <4>1 DEF AllOrNone
      <4>2. CASE a # by[r]
        <5>1. \A c \in candidates' : c.by = a => c \in candidates
          BY <2>1, <3>2, <4>2
        <5>2. CASE \A c \in candidates : c.by = a /\ ~c.reviewed => Id(c) \in Found(q)
          BY <3>1, <5>1, <5>2 DEF AllOrNone
        <5>3. CASE \A i \in Found(q) : i[1] # a
          BY <3>1, <5>3 DEF AllOrNone
        <5> QED
          BY <1>0, <5>2, <5>3 DEF DeletionsOf, AllOrNone
      <4> QED
        BY <4>1, <4>2
    <3> QED
      BY <1>0, <3>1, <3>4, <3>5 DEF DeletionsOf
  <2> QED
    BY <1>6, <2>1, <2>2, <2>3
<1> QED
  BY <1>3, <1>4, <1>7, <1>8, <1>9, <1>10, <1>11, <1>12, Cases DEF Step

\* NoneLeft of one request.
NoneLeftOf(r) ==
  PastDeletes(r) =>
    \A c \in candidates : ~c.reviewed /\ Id(c) \in snapshot[r] => Id(c) \in deleted[r]

LEMMA NoneLeftStep == IInv /\ [Next]_vars => NoneLeft'
<1> SUFFICES ASSUME IInv, [Next]_vars PROVE \A r \in Requests : NoneLeftOf(r)'
  BY DEF NoneLeft, NoneLeftOf
<1>0. TypeOK /\ \A r \in Requests : NoneLeftOf(r)
  BY DEF IInv, NoneLeft, NoneLeftOf
<1>1. ASSUME NEW r \in Requests, Amends, PastDeletes(r)' => PastDeletes(r),
             deleted'[r] = deleted[r], snapshot'[r] = snapshot[r]
      PROVE  NoneLeftOf(r)'
  <2>1. \A d \in candidates' : \E c \in candidates :
          Id(d) = Id(c) /\ (~d.reviewed => ~c.reviewed)
    BY <1>1 DEF Amends, Amended, Id
  <2> QED
    BY <1>0, <1>1, <2>1 DEF NoneLeftOf
<1>2. ASSUME NEW r \in Requests, ~PastDeletes(r)' PROVE NoneLeftOf(r)'
  BY <1>2 DEF NoneLeftOf
<1>3. CASE UNCHANGED vars
  <2>1. Amends
    BY <1>3, QuietAmends DEF IInv, vars, tables
  <2> QED
    BY <1>1, <1>3, <2>1 DEF vars, session, PastDeletes
<1>4. CASE Outside
  BY <1>1, <1>4, OutsideEffect, OutsideAmends DEF Keeps, PastDeletes
<1>5. ASSUME NEW r \in Requests, Step(r), NEW q \in Requests \ {r} PROVE NoneLeftOf(q)'
  BY <1>0, <1>1, <1>5, StepEffect, StepAmends DEF StepOf, Keeps, PastDeletes
<1>6. ASSUME NEW r \in Requests, Begin(r) \/ DeleteBegins(r) \/ Fail(r) PROVE NoneLeftOf(r)'
  BY <1>0, <1>2, <1>6, BeginEffect, DeleteBeginsEffect, FailEffect DEF Ends, PastDeletes
<1>7. ASSUME NEW r \in Requests, DeleteEnds(r) PROVE NoneLeftOf(r)'
  <2>1. /\ candidates' = candidates /\ snapshot'[r] = snapshot[r]
        /\ deleted'[r] = snapshot[r] \cap {Id(c) : c \in {d \in candidates : Rebuildable(d)}}
    BY <1>0, <1>7, DeleteEndsEffect DEF StepOf, tables
  <2> QED
    BY <2>1 DEF NoneLeftOf, Rebuildable
<1>8. ASSUME NEW r \in Requests, ReadKept(r) \/ ListPages(r) \/ ReadPage(r) \/ Insert(r)
      PROVE  NoneLeftOf(r)'
  <2>1. PastDeletes(r) /\ deleted'[r] = deleted[r] /\ snapshot'[r] = snapshot[r]
    BY <1>0, <1>8, ReadKeptEffect, ListPagesEffect, ReadPageEffect, InsertEffect DEF PastDeletes
  <2> QED
    BY <1>1, <1>8, <2>1, StepAmends DEF Step
\* What a commit inserts has a number that nobody has found.
<1>9. ASSUME NEW r \in Requests, Commits(r), NEW q \in Requests PROVE NoneLeftOf(q)'
  <2>1. CASE q = r
    BY <1>2, <1>9, <2>1 DEF Commits, Ends, PastDeletes
  <2>2. CASE q # r
    <3>1. /\ pc'[q] = pc[q] /\ deleted'[q] = deleted[q] /\ snapshot'[q] = snapshot[q] /\ Open(r)
          /\ \A c \in candidates' : c \in candidates \/ c \in inserted[r]
      BY <1>9, <2>2 DEF Commits, Keeps, Open
    <3>2. \A c \in inserted[r] : c.by = by[r]
      BY DEF IInv, BuildsOnce, Made, BuiltOf
    <3>3. \A c \in inserted[r] : Id(c) \notin snapshot[q]
      BY <3>1, <3>2 DEF IInv, OwnNumber, Id
    <3> QED
      BY <1>0, <3>1, <3>3 DEF NoneLeftOf, PastDeletes
  <2> QED
    BY <2>1, <2>2
<1> QED
  BY <1>3, <1>4, <1>5, <1>6, <1>7, <1>8, <1>9, Cases DEF Step

LEMMA NothingInCommonStep == IInv /\ [Next]_vars => NothingInCommon'
<1> SUFFICES ASSUME IInv, [Next]_vars PROVE NothingInCommon'
  OBVIOUS
<1>0. TypeOK /\ NoneLeft /\ NothingInCommon /\ UniqueIds
  BY DEF IInv
<1>1. ASSUME \A q \in Requests : deleted'[q] \subseteq deleted[q],
             \A q \in Requests : PastDeletes(q)' => PastDeletes(q) /\ snapshot'[q] = snapshot[q]
      PROVE  NothingInCommon'
  BY <1>0, <1>1 DEF NothingInCommon
<1>2. CASE UNCHANGED vars
  BY <1>1, <1>2 DEF vars, session, PastDeletes
<1>3. CASE Outside
  BY <1>1, <1>3, OutsideEffect DEF Keeps, PastDeletes
<1>4. ASSUME NEW r \in Requests, Step(r), ~DeleteEnds(r) PROVE NothingInCommon'
  <2>1. \A q \in Requests \ {r} : Keeps(q)
    BY <1>0, <1>4, StepEffect DEF StepOf
  <2>2. CASE Begin(r) \/ DeleteBegins(r) \/ Fail(r)
    <3>1. ~PastDeletes(r)' /\ deleted'[r] \subseteq deleted[r]
      BY <1>0, <2>2, BeginEffect, DeleteBeginsEffect, FailEffect DEF Ends, PastDeletes
    <3> QED
      BY <1>1, <2>1, <3>1 DEF Keeps, PastDeletes
  <2>3. CASE ReadKept(r) \/ ListPages(r) \/ ReadPage(r) \/ Insert(r)
    <3>1. PastDeletes(r) /\ deleted'[r] = deleted[r] /\ snapshot'[r] = snapshot[r]
      BY <1>0, <2>3, ReadKeptEffect, ListPagesEffect, ReadPageEffect, InsertEffect DEF PastDeletes
    <3> QED
      BY <1>1, <2>1, <3>1 DEF Keeps, PastDeletes
  <2> QED
    BY <1>4, <2>2, <2>3 DEF Step
\* What another has found and left has been reviewed or is gone, and r has waited for
\* what another has found and deleted.
<1>5. ASSUME NEW r \in Requests, DeleteEnds(r) PROVE NothingInCommon'
  <2>1. /\ snapshot'[r] = snapshot[r]
        /\ deleted'[r] = snapshot[r] \cap {Id(c) : c \in {d \in candidates : Rebuildable(d)}}
        /\ \A q \in Requests \ {r} : deleted[q] \cap snapshot[r] = {} /\ Keeps(q)
    BY <1>0, <1>5, DeleteEndsEffect DEF StepOf
  <2>2. ASSUME NEW q \in Requests \ {r}, PastDeletes(q), NEW i \in deleted'[r], i \in snapshot[q]
        PROVE  FALSE
    <3>1. PICK c \in candidates : i = Id(c) /\ ~c.reviewed
      BY <2>1 DEF Rebuildable
    <3>2. i \in deleted[q]
      BY <1>0, <2>2, <3>1 DEF NoneLeft
    <3> QED
      BY <2>1, <3>2
  <2>3. ASSUME NEW p \in Requests, NEW q \in Requests, p # q, PastDeletes(q)'
        PROVE  deleted'[p] \cap snapshot'[q] = {}
    <3>1. CASE q = r
      BY <2>1, <2>3, <3>1 DEF Keeps
    <3>2. CASE p = r
      BY <2>1, <2>2, <2>3, <3>2 DEF Keeps, PastDeletes
    <3>3. CASE p # r /\ q # r
      BY <1>0, <2>1, <2>3, <3>3 DEF Keeps, PastDeletes, NothingInCommon
    <3> QED
      BY <3>1, <3>2, <3>3
  <2> QED
    BY <2>3 DEF NothingInCommon
<1>6. ASSUME NEW r \in Requests, Commits(r) PROVE NothingInCommon'
  <2>1. /\ deleted'[r] = {} /\ pc'[r] = "idle"
        /\ \A q \in Requests \ {r} : Keeps(q)
    BY <1>6 DEF Commits, Ends
  <2> QED
    BY <1>1, <2>1 DEF Keeps, PastDeletes
<1> QED
  BY <1>2, <1>3, <1>4, <1>5, <1>6, Cases

----------------------------------------------------------------------------
(* What an open assembly has looked at. *)

\* KeptCovers of one request.
KeptCoversOf(r) ==
  Looked(r) /\ "assembly" \notin disturbed[r] =>
    \A c \in candidates : Id(c) \notin deleted[r] => c.pages \subseteq kept[r]

LEMMA KeptCoversStep == IInv /\ [Next]_vars => KeptCovers'
<1> SUFFICES ASSUME IInv, [Next]_vars PROVE \A r \in Requests : KeptCoversOf(r)'
  BY DEF KeptCovers, KeptCoversOf
<1>0. TypeOK /\ \A r \in Requests : KeptCoversOf(r)
  BY DEF IInv, KeptCovers, KeptCoversOf
<1>1. ASSUME NEW r \in Requests, Amends, Keeps(r), Open(r) => disturbed[r] \subseteq disturbed'[r]
      PROVE  KeptCoversOf(r)'
  <2> SUFFICES ASSUME Looked(r)', "assembly" \notin disturbed'[r],
                      NEW d \in candidates', Id(d) \notin deleted'[r]
               PROVE  d.pages \subseteq kept'[r]
    BY DEF KeptCoversOf
  <2>1. PICK c \in candidates : Amended(c, d)
    BY <1>1 DEF Amends
  <2>2. Id(c) = Id(d) /\ d.pages \subseteq c.pages
    BY <2>1 DEF Amended, Id
  <2>3. Looked(r) /\ Open(r)
    BY <1>1 DEF Keeps, Looked, Open
  <2> QED
    BY <1>0, <1>1, <2>2, <2>3 DEF KeptCoversOf, Keeps
<1>2. CASE UNCHANGED vars
  BY <1>0, <1>2 DEF vars, tables, session, KeptCoversOf, Looked
<1>3. CASE Outside
  BY <1>1, <1>3, OutsideEffect, OutsideAmends
<1>4. ASSUME NEW r \in Requests, Step(r), NEW q \in Requests \ {r} PROVE KeptCoversOf(q)'
  BY <1>0, <1>1, <1>4, StepEffect, StepAmends DEF StepOf
<1>5. ASSUME NEW r \in Requests, Begin(r) \/ DeleteBegins(r) \/ DeleteEnds(r) \/ Fail(r)
      PROVE  KeptCoversOf(r)'
  BY <1>0, <1>5, BeginEffect, DeleteBeginsEffect, DeleteEndsEffect, FailEffect
     DEF KeptCoversOf, Looked, Ends
<1>6. ASSUME NEW r \in Requests, ReadKept(r) PROVE KeptCoversOf(r)'
  <2>1. /\ candidates' = candidates /\ deleted'[r] = deleted[r]
        /\ kept'[r] = UNION {c.pages : c \in {d \in candidates : Id(d) \notin deleted[r]}}
    BY <1>0, <1>6, ReadKeptEffect DEF StepOf, tables
  <2> QED
    BY <2>1 DEF KeptCoversOf
<1>7. ASSUME NEW r \in Requests, ListPages(r) \/ ReadPage(r) \/ Insert(r) PROVE KeptCoversOf(r)'
  <2>1. /\ Looked(r) /\ deleted'[r] = deleted[r] /\ kept'[r] = kept[r]
        /\ disturbed'[r] = disturbed[r]
    BY <1>0, <1>7, ListPagesEffect, ReadPageEffect, InsertEffect DEF Looked
  <2>2. candidates' = candidates
    BY <1>0, <1>7, StepEffect DEF Step, StepOf, tables
  <2> QED
    BY <1>0, <2>1, <2>2 DEF KeptCoversOf
<1>8. ASSUME NEW r \in Requests, Step(r) PROVE \A q \in Requests : KeptCoversOf(q)'
  <2>1. KeptCoversOf(r)'
    BY <1>5, <1>6, <1>7, <1>8 DEF Step
  <2> QED
    BY <1>4, <1>8, <2>1
<1>9. ASSUME NEW r \in Requests, Commits(r), NEW q \in Requests PROVE KeptCoversOf(q)'
  <2>1. CASE q = r
    BY <1>9, <2>1 DEF Commits, Ends, KeptCoversOf, Looked
  <2>2. CASE q # r
    BY <1>9, <2>2 DEF Commits, Keeps, KeptCoversOf, Looked
  <2> QED
    BY <2>1, <2>2
<1> QED
  BY <1>2, <1>3, <1>8, <1>9, Cases

LEMMA RunsNoticedStep == IInv /\ [Next]_vars => RunsNoticed'
<1> SUFFICES ASSUME IInv, [Next]_vars PROVE RunsNoticed'
  OBVIOUS
<1>0. TypeOK /\ RunsNoticed
  BY DEF IInv
<1>1. CASE UNCHANGED vars
  BY <1>0, <1>1 DEF vars, tables, session, RunsNoticed, Open
<1>2. CASE StartRun
  <2>1. \A q \in Requests : Open(q)' => "run" \in disturbed'[q]
    BY <1>0, <1>2 DEF StartRun, session, Open, TypeOK
  <2> QED
    BY <2>1 DEF RunsNoticed
<1>3. CASE Outside
  <2>1. StartRun \/ (running' => running)
    BY <1>3 DEF Outside, Review, ForgetFind, Processing, Wipe, RenderPage, FindProducts, EndRun
  <2>2. \A q \in Requests : /\ Open(q)' <=> Open(q)
                            /\ Open(q) => disturbed[q] \subseteq disturbed'[q]
    BY <1>3, OutsideEffect DEF Keeps, Open
  <2> QED
    BY <1>0, <1>2, <2>1, <2>2 DEF RunsNoticed
<1>4. ASSUME NEW r \in Requests, Step(r) PROVE RunsNoticed'
  <2>1. /\ running' = running
        /\ \A q \in Requests \ {r} : disturbed'[q] = disturbed[q] /\ (Open(q)' <=> Open(q))
    BY <1>0, <1>4, StepEffect DEF StepOf, tables, Keeps, Open
  <2>2. CASE Begin(r)
    BY <1>0, <2>1, <2>2, BeginEffect DEF RunsNoticed
  <2>3. CASE Fail(r)
    BY <1>0, <2>1, <2>3, FailEffect DEF RunsNoticed, Ends, Open
  <2>4. CASE ~Begin(r) /\ ~Fail(r)
    <3>1. Open(r) /\ disturbed'[r] = disturbed[r]
      BY <1>0, <1>4, <2>4, DeleteBeginsEffect, DeleteEndsEffect, ReadKeptEffect, ListPagesEffect,
         ReadPageEffect, InsertEffect DEF Step, Open
    <3> QED
      BY <1>0, <2>1, <3>1 DEF RunsNoticed
  <2> QED
    BY <2>2, <2>3, <2>4
<1>5. ASSUME NEW r \in Requests, Commits(r) PROVE RunsNoticed'
  <2>1. /\ running' = running /\ ~Open(r)'
        /\ \A q \in Requests \ {r} : (Open(q)' <=> Open(q)) /\ disturbed[q] \subseteq disturbed'[q]
    BY <1>5 DEF Commits, Ends, Keeps, Open
  <2> QED
    BY <1>0, <2>1 DEF RunsNoticed
<1> QED
  BY <1>1, <1>3, <1>4, <1>5, Cases

\* What an open assembly does not know of a run never happened.
LEMMA NoRunOutside ==
  ASSUME Outside, ~running
  PROVE  pages' = pages /\ finds' \subseteq finds
BY DEF Outside, Review, ForgetFind, Processing, StartRun, Wipe, RenderPage, FindProducts, EndRun

FindsTakenOf(r) ==
  "run" \notin disturbed[r] => \A c \in Made(r) : \A p \in c.pages : FindsOn(p) \subseteq c.finds

LEMMA FindsTakenStep == IInv /\ [Next]_vars => FindsTaken'
<1> SUFFICES ASSUME IInv, [Next]_vars PROVE \A r \in Requests : FindsTakenOf(r)'
  BY DEF FindsTaken, FindsTakenOf
<1>0. TypeOK /\ RunsNoticed /\ \A r \in Requests : FindsTakenOf(r)
  BY DEF IInv, FindsTaken, FindsTakenOf
<1>1. ASSUME NEW r \in Requests, Made(r)' \subseteq Made(r), finds' \subseteq finds,
             "run" \notin disturbed'[r] => "run" \notin disturbed[r]
      PROVE  FindsTakenOf(r)'
  <2>1. \A p : FindsOn(p)' \subseteq FindsOn(p)
    BY <1>1 DEF FindsOn
  <2> QED
    BY <1>0, <1>1, <2>1 DEF FindsTakenOf
<1>2. ASSUME NEW r \in Requests, Made(r)' = {} PROVE FindsTakenOf(r)'
  BY <1>2 DEF FindsTakenOf
<1>3. CASE UNCHANGED vars
  BY <1>1, <1>3 DEF vars, tables, session, Made
<1>4. ASSUME Outside, NEW r \in Requests PROVE FindsTakenOf(r)'
  <2>1. /\ Made(r)' = Made(r)
        /\ Open(r) => disturbed[r] \subseteq disturbed'[r]
    BY <1>4, OutsideEffect DEF Keeps, Made
  <2>2. CASE ~Open(r)
    BY <1>0, <1>2, <2>1, <2>2 DEF Open, Made, TypeOK
  <2>3. CASE Open(r) /\ "run" \in disturbed[r]
    BY <2>1, <2>3 DEF FindsTakenOf
  <2>4. CASE Open(r) /\ "run" \notin disturbed[r]
    BY <1>0, <1>1, <1>4, <2>1, <2>4, NoRunOutside DEF RunsNoticed
  <2> QED
    BY <2>2, <2>3, <2>4
<1>5. ASSUME NEW r \in Requests, ReadPage(r) PROVE FindsTakenOf(r)'
  <2>1. PICK p \in todo[r] :
          draft'[r] = {} \/ draft'[r] = {Built(by[r], p)}
    BY <1>0, <1>5, ReadPageEffect
  <2>2. /\ inserted'[r] = inserted[r] /\ draft[r] = {} /\ disturbed'[r] = disturbed[r]
        /\ finds' = finds
    BY <1>0, <1>5, ReadPageEffect DEF StepOf, tables
  <2>3. PICK d : d = Built(by[r], p)
    OBVIOUS
  <2>4. \A c \in Made(r)' : c \in Made(r) \/ c = d
    BY <2>1, <2>2, <2>3 DEF Made
  <2>5. d.pages = {p} /\ d.finds = FindsOn(p)
    BY <2>3 DEF Built
  <2>6. \A e : FindsOn(e)' = FindsOn(e)
    BY <2>2 DEF FindsOn
  <2> QED
    BY <1>0, <2>2, <2>4, <2>5, <2>6 DEF FindsTakenOf
<1>6. ASSUME NEW r \in Requests, Step(r), ~ReadPage(r) PROVE FindsTakenOf(r)'
  <2>1. finds' = finds
    BY <1>0, <1>6, StepEffect DEF StepOf, tables
  <2>2. CASE Begin(r) \/ Fail(r)
    BY <1>0, <1>2, <2>2, BeginEffect, FailEffect DEF Ends, Made
  <2>3. CASE Insert(r)
    BY <1>0, <1>1, <2>1, <2>3, InsertEffect DEF Made
  <2>4. CASE DeleteBegins(r) \/ DeleteEnds(r) \/ ReadKept(r) \/ ListPages(r)
    BY <1>0, <1>1, <2>1, <2>4, DeleteBeginsEffect, DeleteEndsEffect, ReadKeptEffect,
       ListPagesEffect DEF Made
  <2> QED
    BY <1>6, <2>2, <2>3, <2>4 DEF Step
<1>7. ASSUME NEW r \in Requests, Step(r), NEW q \in Requests \ {r} PROVE FindsTakenOf(q)'
  BY <1>0, <1>1, <1>7, StepEffect DEF StepOf, tables, Keeps, Made
<1>8. ASSUME NEW r \in Requests, Commits(r), NEW q \in Requests PROVE FindsTakenOf(q)'
  <2>1. CASE q = r
    BY <1>2, <1>8, <2>1 DEF Commits, Ends, Made
  <2>2. CASE q # r
    BY <1>1, <1>8, <2>2 DEF Commits, Keeps, Made
  <2> QED
    BY <2>1, <2>2
<1> QED
  BY <1>3, <1>4, <1>5, <1>6, <1>7, <1>8, Cases

PagesTakenOf(r) ==
  disturbed[r] = {} =>
    /\ Looked(r) => \A p \in kept[r] : \E c \in candidates : Id(c) \notin deleted[r] /\ p \in c.pages
    /\ pc[r] \in {"reading", "drafted"} =>
         \A p \in pages : FindsOn(p) # {} =>
           p \in kept[r] \cup todo[r] \cup UNION {c.pages : c \in Made(r)}

LEMMA PagesTakenStep == IInv /\ [Next]_vars => PagesTaken'
<1> SUFFICES ASSUME IInv, [Next]_vars PROVE \A r \in Requests : PagesTakenOf(r)'
  BY DEF PagesTaken, PagesTakenOf
<1>0. TypeOK /\ RefsHold /\ RunsNoticed /\ \A r \in Requests : PagesTakenOf(r)
  BY DEF IInv, PagesTaken, PagesTakenOf
<1>1. ASSUME NEW r \in Requests, Amends, Keeps(r), pages' = pages, finds' \subseteq finds,
             disturbed'[r] = {} => disturbed[r] = {}
      PROVE  PagesTakenOf(r)'
  <2> SUFFICES ASSUME disturbed'[r] = {} PROVE PagesTakenOf(r)'
    BY DEF PagesTakenOf
  <2>1. ASSUME NEW p \in kept[r], Looked(r)
        PROVE  \E d \in candidates' : Id(d) \notin deleted[r] /\ p \in d.pages
    <3>1. PICK c \in candidates : Id(c) \notin deleted[r] /\ p \in c.pages
      BY <1>0, <1>1, <2>1 DEF PagesTakenOf
    <3>2. PICK d \in candidates' : Amended(c, d)
      BY <1>1 DEF Amends
    <3>3. Id(d) = Id(c) /\ d.pages = c.pages
      BY <1>0, <1>1, <3>2 DEF Amended, Id, RefsHold
    <3> QED
      BY <3>1, <3>3
  <2>2. \A p : FindsOn(p)' \subseteq FindsOn(p)
    BY <1>1 DEF FindsOn
  <2>3. Made(r)' = Made(r) /\ (Looked(r)' <=> Looked(r))
    BY <1>1 DEF Keeps, Made, Looked
  <2> QED
    BY <1>0, <1>1, <2>1, <2>2, <2>3 DEF PagesTakenOf, Keeps
<1>2. ASSUME NEW r \in Requests, disturbed'[r] # {} \/ ~Looked(r)' PROVE PagesTakenOf(r)'
  BY <1>2 DEF PagesTakenOf, Looked
<1>3. CASE UNCHANGED vars
  <2>1. Amends
    BY <1>0, <1>3, QuietAmends DEF IInv, vars, tables
  <2> QED
    BY <1>1, <1>3, <2>1 DEF vars, tables, session, Keeps
<1>4. ASSUME Outside, NEW r \in Requests PROVE PagesTakenOf(r)'
  <2>1. Keeps(r) /\ (Open(r) => disturbed[r] \subseteq disturbed'[r])
    BY <1>4, OutsideEffect
  <2>2. CASE ~Open(r)
    BY <1>2, <2>1, <2>2 DEF Keeps, Open, Looked
  <2>3. CASE Open(r) /\ disturbed[r] # {}
    BY <1>2, <2>1, <2>3
  <2>4. CASE Open(r) /\ disturbed[r] = {}
    BY <1>0, <1>1, <1>4, <2>1, <2>4, NoRunOutside, OutsideAmends DEF RunsNoticed
  <2> QED
    BY <2>2, <2>3, <2>4
<1>5. ASSUME NEW r \in Requests, Step(r), NEW q \in Requests \ {r} PROVE PagesTakenOf(q)'
  BY <1>0, <1>1, <1>5, StepEffect, StepAmends DEF StepOf, tables
<1>6. ASSUME NEW r \in Requests, Begin(r) \/ DeleteBegins(r) \/ DeleteEnds(r) \/ Fail(r)
      PROVE  PagesTakenOf(r)'
  BY <1>0, <1>2, <1>6, BeginEffect, DeleteBeginsEffect, DeleteEndsEffect, FailEffect
     DEF Looked, Ends
<1>7. ASSUME NEW r \in Requests, ReadKept(r) PROVE PagesTakenOf(r)'
  <2>1. /\ candidates' = candidates /\ deleted'[r] = deleted[r] /\ pc'[r] = "kept"
        /\ kept'[r] = UNION {c.pages : c \in {d \in candidates : Id(d) \notin deleted[r]}}
    BY <1>0, <1>7, ReadKeptEffect DEF StepOf, tables
  <2> QED
    BY <2>1 DEF PagesTakenOf
<1>8. ASSUME NEW r \in Requests, ListPages(r) \/ ReadPage(r) \/ Insert(r)
      PROVE  PagesTakenOf(r)'
  <2>1. /\ Looked(r) /\ deleted'[r] = deleted[r] /\ kept'[r] = kept[r]
        /\ disturbed'[r] = disturbed[r]
    BY <1>0, <1>8, ListPagesEffect, ReadPageEffect, InsertEffect DEF Looked
  <2>2. candidates' = candidates /\ pages' = pages /\ finds' = finds
    BY <1>0, <1>8, StepEffect DEF Step, StepOf, tables
  <2>3. \A p : FindsOn(p)' = FindsOn(p)
    BY <2>2 DEF FindsOn
  <2>4. ASSUME disturbed[r] = {}, NEW p \in pages, FindsOn(p) # {}
        PROVE  p \in kept[r] \cup todo'[r] \cup UNION {c.pages : c \in Made(r)'}
    <3>1. CASE ListPages(r)
      BY <1>0, <2>4, <3>1, ListPagesEffect
    <3>2. CASE Insert(r)
      <4>1. Made(r)' = Made(r) /\ todo'[r] = todo[r] /\ pc[r] = "drafted"
        BY <1>0, <3>2, InsertEffect DEF Made
      <4> QED
        BY <1>0, <2>4, <4>1 DEF PagesTakenOf
    <3>3. CASE ReadPage(r)
      <4>1. PICK e \in todo[r] :
              /\ todo'[r] = todo[r] \ {e}
              /\ FindsOn(e) = {} \/ draft'[r] = {Built(by[r], e)}
        BY <1>0, <3>3, ReadPageEffect
      <4>2. inserted'[r] = inserted[r] /\ draft[r] = {} /\ pc[r] = "reading"
        BY <1>0, <3>3, ReadPageEffect
      <4>3. p \in kept[r] \cup todo[r] \cup UNION {c.pages : c \in Made(r)}
        BY <1>0, <2>4, <4>2 DEF PagesTakenOf
      <4>4. CASE p = e
        <5>1. PICK d : d = Built(by[r], e)
          OBVIOUS
        <5>2. d \in Made(r)' /\ p \in d.pages
          BY <2>4, <4>1, <4>4, <5>1 DEF Made, Built
        <5> QED
          BY <5>2
      <4>5. CASE p # e
        <5>1. Made(r) \subseteq Made(r)'
          BY <4>2 DEF Made
        <5> QED
          BY <4>1, <4>3, <4>5, <5>1
      <4> QED
        BY <4>4, <4>5
    <3> QED
      BY <1>8, <3>1, <3>2, <3>3
  <2> QED
    BY <1>0, <2>1, <2>2, <2>3, <2>4 DEF PagesTakenOf
<1>9. ASSUME NEW r \in Requests, Step(r) PROVE PagesTakenOf(r)'
  BY <1>6, <1>7, <1>8, <1>9 DEF Step
<1>10. ASSUME NEW r \in Requests, Commits(r), NEW q \in Requests PROVE PagesTakenOf(q)'
  <2>1. CASE q = r
    BY <1>2, <1>10, <2>1 DEF Commits, Ends, Looked
  <2>2. CASE q # r
    <3>1. CASE Looked(q)
      BY <1>2, <1>10, <2>2, <3>1 DEF Commits
    <3>2. CASE ~Looked(q)
      BY <1>2, <1>10, <2>2, <3>2 DEF Commits, Keeps, Looked
    <3> QED
      BY <3>1, <3>2
  <2> QED
    BY <2>1, <2>2
<1> QED
  BY <1>3, <1>4, <1>5, <1>9, <1>10, Cases

----------------------------------------------------------------------------
(* Pages and flags. *)

LEMMA PagesOnceStep == IInv /\ [Next]_vars => PagesOnceUnlessRaced'
<1> SUFFICES ASSUME IInv, [Next]_vars, "assembly" \notin trouble' PROVE PagesOnce'
  BY DEF PagesOnceUnlessRaced
<1>0. TypeOK /\ (("assembly" \notin trouble) => PagesOnce)
  BY DEF IInv, PagesOnceUnlessRaced
<1>1. ASSUME Amends, PagesOnce PROVE PagesOnce'
  <2> SUFFICES ASSUME NEW d \in candidates', NEW e \in candidates', d.pages \cap e.pages # {}
               PROVE  d = e
    BY DEF PagesOnce
  <2>1. PICK c \in candidates : Amended(c, d)
    BY <1>1 DEF Amends
  <2>2. PICK b \in candidates : Amended(b, e)
    BY <1>1 DEF Amends
  <2>3. c.pages \cap b.pages # {}
    BY <2>1, <2>2 DEF Amended
  <2>4. c = b
    BY <1>1, <2>3 DEF PagesOnce
  <2>5. Id(d) = Id(e)
    BY <2>1, <2>2, <2>4 DEF Amended, Id
  <2> QED
    BY <1>1, <2>5 DEF Amends, UniqueIds
<1>2. CASE UNCHANGED vars
  BY <1>0, <1>2 DEF vars, tables, PagesOnce
<1>3. CASE Outside
  BY <1>0, <1>1, <1>3, OutsideEffect, OutsideAmends
<1>4. ASSUME NEW r \in Requests, Step(r) PROVE PagesOnce'
  BY <1>0, <1>1, <1>4, StepEffect, StepAmends DEF StepOf
<1>5. ASSUME NEW r \in Requests, Commits(r) PROVE PagesOnce'
  <2>1. /\ PagesOnce /\ "assembly" \notin disturbed[r] /\ Looked(r)
        /\ \A c \in candidates' :
             (c \in candidates /\ Id(c) \notin deleted[r]) \/ c \in inserted[r]
    BY <1>0, <1>5 DEF Commits, Looked
  <2>2. \A c \in candidates : Id(c) \notin deleted[r] => c.pages \subseteq kept[r]
    BY <2>1 DEF IInv, KeptCovers
  <2>3. ASSUME NEW c \in inserted[r] PROVE c.pages \cap kept[r] = {}
    BY DEF IInv, BuildsOnce, Made, BuiltOf
  <2>4. \A c, d \in inserted[r] : c.pages \cap d.pages # {} => c = d
    BY DEF IInv, BuildsOnce, Made
  <2>5. ASSUME NEW c \in candidates', NEW d \in candidates', c.pages \cap d.pages # {}
        PROVE  c = d
    <3>1. CASE c \in inserted[r] /\ d \in inserted[r]
      BY <2>4, <2>5, <3>1
    <3>2. CASE c \in inserted[r] /\ d \notin inserted[r]
      BY <2>1, <2>2, <2>3, <2>5, <3>2
    <3>3. CASE c \notin inserted[r] /\ d \in inserted[r]
      BY <2>1, <2>2, <2>3, <2>5, <3>3
    <3>4. CASE c \notin inserted[r] /\ d \notin inserted[r]
      BY <2>1, <2>5, <3>4 DEF PagesOnce
    <3> QED
      BY <3>1, <3>2, <3>3, <3>4
  <2> QED
    BY <2>5 DEF PagesOnce
<1> QED
  BY <1>2, <1>3, <1>4, <1>5, Cases

\* FlagsExact of any flags and candidates.
Alike(c, d) == c.by = d.by /\ c.by # 0 /\ Code[c.page] = Code[d.page] /\ Code[c.page] # NoCode
FirstIn(cs, d) == \A c \in cs : Alike(c, d) => d.page <= c.page
WholeIn(cs, a) == \E c \in cs : c.by = a /\ ~c.reviewed
Relates(f, cs) == \E c, d \in cs : f = <<Id(c), Id(d)>> /\ Alike(c, d) /\ d.page < c.page
MustFlag(cs, c, d) == Alike(c, d) /\ c # d /\ FirstIn(cs, d) /\ WholeIn(cs, c.by)
Exact(fs, cs) ==
  /\ \A f \in fs : Relates(f, cs)
  /\ \A c, d \in cs : MustFlag(cs, c, d) => <<Id(c), Id(d)>> \in fs

LEMMA ExactIsFlagsExact ==
  (FlagsExact <=> Exact(flags, candidates)) /\ (FlagsExact' <=> Exact(flags', candidates'))
<1>1. FlagsExact <=> Exact(flags, candidates)
  BY DEF FlagsExact, Exact, Relates, MustFlag, Alike, FirstIn, WholeIn
<1>2. FlagsExact' <=> Exact(flags', candidates')
  BY DEF FlagsExact, Exact, Relates, MustFlag, Alike, FirstIn, WholeIn, Id
<1> QED
  BY <1>1, <1>2

LEMMA FlagsExactStep == IInv /\ [Next]_vars => FlagsExact'
<1> SUFFICES ASSUME IInv, [Next]_vars PROVE Exact(flags', candidates')
  BY ExactIsFlagsExact
<1>0. /\ TypeOK /\ UniqueIds /\ Exact(flags, candidates)
      /\ \A c \in candidates : c.page \in Nat /\ c.by \in 0..MaxAssemblies
      /\ \A q \in Requests : \A c \in inserted[q] : c.page \in Nat /\ c.by \in 0..MaxAssemblies
  BY ExactIsFlagsExact, NumbersAssumption DEF IInv, TypeOK, Candidate
\* Amended candidates are alike, first and flagged as before, and fewer are without review.
<1>1. ASSUME Amends, flags' = flags PROVE Exact(flags', candidates')
  <2>1. \A c, d : Amended(c, d) =>
          Id(d) = Id(c) /\ d.by = c.by /\ d.page = c.page /\ (~d.reviewed => ~c.reviewed)
    BY DEF Amended, Id
  <2>2. ASSUME NEW f \in flags PROVE Relates(f, candidates')
    <3>1. PICK c \in candidates, d \in candidates :
            f = <<Id(c), Id(d)>> /\ Alike(c, d) /\ d.page < c.page
      BY <1>0 DEF Exact, Relates
    <3>2. PICK b \in candidates', e \in candidates' : Amended(c, b) /\ Amended(d, e)
      BY <1>1 DEF Amends
    <3> QED
      BY <2>1, <3>1, <3>2 DEF Relates, Alike
  <2>3. ASSUME NEW b \in candidates', NEW e \in candidates', MustFlag(candidates', b, e)
        PROVE  <<Id(b), Id(e)>> \in flags
    <3>1. PICK c \in candidates, d \in candidates : Amended(c, b) /\ Amended(d, e)
      BY <1>1 DEF Amends
    <3>2. c # d
      <4>1. Id(b) # Id(e)
        BY <1>1, <2>3 DEF Amends, UniqueIds, MustFlag
      <4> QED
        BY <2>1, <3>1, <4>1
    <3>3. Alike(c, d)
      BY <2>1, <2>3, <3>1 DEF MustFlag, Alike
    <3>4. FirstIn(candidates, d)
      <4>1. ASSUME NEW x \in candidates, Alike(x, d) PROVE d.page <= x.page
        <5>1. PICK y \in candidates' : Amended(x, y)
          BY <1>1 DEF Amends
        <5>2. Alike(y, e)
          BY <2>1, <3>1, <4>1, <5>1 DEF Alike
        <5> QED
          BY <2>1, <2>3, <3>1, <5>1, <5>2 DEF MustFlag, FirstIn
      <4> QED
        BY <4>1 DEF FirstIn
    <3>5. WholeIn(candidates, c.by)
      <4>1. PICK y \in candidates' : y.by = b.by /\ ~y.reviewed
        BY <2>3 DEF MustFlag, WholeIn
      <4>2. PICK x \in candidates : Amended(x, y)
        BY <1>1 DEF Amends
      <4> QED
        BY <2>1, <3>1, <4>1, <4>2 DEF WholeIn
    <3> QED
      BY <1>0, <2>1, <3>1, <3>2, <3>3, <3>4, <3>5 DEF Exact, MustFlag
  <2> QED
    BY <1>1, <2>2, <2>3 DEF Exact
<1>2. CASE UNCHANGED vars
  BY <1>0, <1>2 DEF vars, tables
<1>3. CASE Outside
  BY <1>1, <1>3, OutsideEffect, OutsideAmends
<1>4. ASSUME NEW r \in Requests, Step(r) PROVE Exact(flags', candidates')
  BY <1>0, <1>1, <1>4, StepEffect, StepAmends DEF StepOf, tables
<1>5. ASSUME NEW r \in Requests, Commits(r) PROVE Exact(flags', candidates')
  <2> DEFINE left == {c \in candidates : Id(c) \notin deleted[r]}
  <2>1. /\ candidates' = left \cup inserted[r] /\ Open(r) /\ pc[r] = "reading"
        /\ flags' = {f \in flags : f[1] \notin deleted[r] /\ f[2] \notin deleted[r]}
                      \cup DuplicatesAmong(inserted[r])
    BY <1>5 DEF Commits, Open
  <2>2. /\ \A c \in inserted[r] : c.by = by[r]
        /\ \A c \in candidates : c.by # by[r]
        /\ by[r] # 0
    BY <2>1 DEF IInv, BuildsOnce, Made, BuiltOf, OwnNumber
  <2>3. \A c, d \in inserted[r] : c.page = d.page => c = d
    BY BuiltApart DEF Made
  <2>4. ASSUME NEW f \in flags, f[1] \notin deleted[r], f[2] \notin deleted[r]
        PROVE  Relates(f, candidates')
    <3>1. PICK c \in candidates, d \in candidates :
            f = <<Id(c), Id(d)>> /\ Alike(c, d) /\ d.page < c.page
      BY <1>0 DEF Exact, Relates
    <3>2. c \in candidates' /\ d \in candidates'
      BY <2>1, <2>4, <3>1
    <3> QED
      BY <3>1, <3>2 DEF Relates
  <2>5. ASSUME NEW f \in DuplicatesAmong(inserted[r]) PROVE Relates(f, candidates')
    <3>1. PICK c \in inserted[r], d \in inserted[r] :
            /\ f = <<Id(c), Id(d)>> /\ Code[c.page] # NoCode
            /\ Code[d.page] = Code[c.page] /\ d.page < c.page
      BY DEF DuplicatesAmong
    <3> QED
      BY <2>1, <2>2, <3>1 DEF Relates, Alike
  <2>6. ASSUME NEW c \in inserted[r], NEW d \in inserted[r], MustFlag(candidates', c, d)
        PROVE  <<Id(c), Id(d)>> \in DuplicatesAmong(inserted[r])
    <3>1. /\ Code[c.page] # NoCode /\ Code[d.page] = Code[c.page] /\ c # d
          /\ \A x \in candidates' : Alike(x, d) => d.page <= x.page
      BY <2>6 DEF MustFlag, Alike, FirstIn
    <3>2. \A x \in inserted[r] : Code[x.page] = Code[c.page] => d.page <= x.page
      BY <2>1, <2>2, <3>1 DEF Alike
    <3>3. d.page < c.page
      BY <1>0, <2>3, <3>1, <3>2
    <3> QED
      BY <3>1, <3>2, <3>3 DEF DuplicatesAmong
\* An older assembly's candidates are as they were, or none of those left is without review.
  <2>7. ASSUME NEW c \in left, NEW d \in left, MustFlag(candidates', c, d)
        PROVE  <<Id(c), Id(d)>> \in flags'
    <3>1. Found(r) = deleted[r]
      BY <2>1 DEF Found
    <3>2. CASE \A x \in candidates : x.by = c.by /\ ~x.reviewed => Id(x) \in deleted[r]
      <4>1. \A x \in candidates' : x.by = c.by => x \in left
        BY <2>1, <2>2
      <4>2. ~WholeIn(candidates', c.by)
        BY <3>2, <4>1 DEF WholeIn
      <4> QED
        BY <2>7, <4>2 DEF MustFlag
    <3>3. CASE \A i \in deleted[r] : i[1] # c.by
      <4>1. \A x \in candidates : x.by = c.by => x \in candidates'
        BY <2>1, <3>3 DEF Id
      <4>2. \A x \in candidates' : x.by = c.by => x \in candidates
        BY <2>1, <2>2
      <4>3. FirstIn(candidates, d)
        BY <2>7, <4>1 DEF MustFlag, FirstIn, Alike
      <4>4. WholeIn(candidates, c.by)
        BY <2>7, <4>2 DEF MustFlag, WholeIn
      <4>5. <<Id(c), Id(d)>> \in flags
        BY <1>0, <2>7, <4>3, <4>4 DEF Exact, MustFlag
      <4> QED
        BY <2>1, <4>5
    <3> QED
      BY <1>0, <3>1, <3>2, <3>3 DEF IInv, Deletions
  <2>8. ASSUME NEW c \in candidates', NEW d \in candidates', MustFlag(candidates', c, d)
        PROVE  <<Id(c), Id(d)>> \in flags'
    <3>1. c.by = d.by
      BY <2>8 DEF MustFlag, Alike
    <3>2. CASE c \in inserted[r]
      <4>1. d \in inserted[r]
        BY <2>1, <2>2, <3>1, <3>2
      <4> QED
        BY <2>1, <2>6, <2>8, <3>2, <4>1
    <3>3. CASE c \in left
      <4>1. d \in left
        BY <2>1, <2>2, <3>1, <3>3
      <4> QED
        BY <2>7, <2>8, <3>3, <4>1
    <3> QED
      BY <2>1, <3>2, <3>3
  <2> QED
    BY <2>1, <2>4, <2>5, <2>8 DEF Exact
<1> QED
  BY <1>2, <1>3, <1>4, <1>5, Cases

----------------------------------------------------------------------------
(* The theorems. *)

\* An admin's candidate covers pages that the candidates built before do not.
LEMMA InitInvariant == Init => IInv
<1> SUFFICES ASSUME Init PROVE IInv
  OBVIOUS
<1>1. TypeOK
  BY TypeInit
<1>2. PICK covered \in SUBSET pages :
        \/ candidates = Entered(covered) /\ flags = {}
        \/ /\ candidates = Entered(covered) \cup BuiltBefore(covered)
           /\ flags = DuplicatesAmong(BuiltBefore(covered))
  BY DEF Init
<1>3. PICK built : /\ built = {} \/ built = BuiltBefore(covered)
                   /\ candidates = Entered(covered) \cup built
                   /\ flags = DuplicatesAmong(built)
  <2>1. DuplicatesAmong({}) = {}
    BY DEF DuplicatesAmong
  <2>2. CASE candidates = Entered(covered) /\ flags = {}
    <3>1. PICK none : none = {}
      OBVIOUS
    <3> QED
      BY <2>1, <2>2, <3>1
  <2> QED
    BY <1>2, <2>2
<1>4. \A c \in Entered(covered) :
        /\ c.by = 0 /\ c.reviewed /\ c.pages = covered
        /\ c.finds = {f \in finds : PageOf(f) \in covered}
        /\ \E p \in covered : c.page = p[1] /\ \A o \in covered : p[1] <= o[1]
  BY DEF Entered
<1>5. \A c, d \in Entered(covered) : c = d
  <2>1. ASSUME NEW p \in covered, NEW q \in covered,
               \A o \in covered : p[1] <= o[1], \A o \in covered : q[1] <= o[1]
        PROVE  p[1] = q[1]
    <3>1. p[1] \in Nat /\ q[1] \in Nat
      BY NumbersAssumption DEF Init
    <3> QED
      BY <2>1, <3>1
  <2> QED
    BY <2>1 DEF Entered
<1>6. \A c \in built : \E p \in pages \ covered :
        /\ c = Built(1, p) /\ c.by = 1 /\ ~c.reviewed
        /\ c.page = p[1] /\ c.pages = {p} /\ c.finds \subseteq finds
  BY <1>3 DEF BuiltBefore, Built, FindsOn
<1>7. \A p, q \in pages : p[1] = q[1] => p = q
  BY DEF Init
<1>8. \A c, d \in built : c.page = d.page => c = d
  BY <1>6, <1>7
<1>9. \A c \in candidates : c \in Entered(covered) \/ c \in built
  BY <1>3
<1>10. /\ \A r \in Requests : /\ pc[r] = "idle" /\ snapshot[r] = {} /\ deleted[r] = {}
                              /\ todo[r] = {} /\ draft[r] = {} /\ inserted[r] = {}
       /\ assemblies = 1 /\ \A p \in pages : p[2] = 0
  BY DEF Init
<1>11. OwnNumber
  <2>1. \A c \in candidates : c.by \in 0..1
    BY <1>4, <1>6, <1>9
  <2> QED
    BY <1>10, <2>1 DEF OwnNumber, Open
<1>12. UniqueIds
  <2>1. ASSUME NEW c \in candidates, NEW d \in candidates, Id(c) = Id(d) PROVE c = d
    <3>1. c.by = d.by /\ c.page = d.page
      BY <2>1 DEF Id
    <3> QED
      BY <1>4, <1>5, <1>6, <1>8, <1>9, <3>1
  <2> QED
    BY <2>1 DEF UniqueIds
<1>13. OneRun /\ FreshStart /\ NoneLeft /\ NothingInCommon
  BY <1>10 DEF OneRun, FreshStart, NoneLeft, NothingInCommon, PastDeletes
<1>14. RefsHold
  <2>1. \A c \in candidates : c.pages \subseteq pages /\ c.finds \subseteq finds
    BY <1>4, <1>6, <1>9
  <2> QED
    BY <1>10, <2>1 DEF RefsHold
<1>15. BuildsOnce
  BY <1>10 DEF BuildsOnce, Made
<1>16. Deletions
  BY <1>10 DEF Deletions, Found
<1>17. KeptCovers /\ RunsNoticed /\ FindsTaken /\ PagesTaken
  BY <1>10 DEF KeptCovers, RunsNoticed, FindsTaken, PagesTaken, Looked, Open, Made
<1>18. PagesOnceUnlessRaced
  <2>1. ASSUME NEW c \in candidates, NEW d \in candidates, c.pages \cap d.pages # {} PROVE c = d
    <3>1. CASE c \in Entered(covered) /\ d \in Entered(covered)
      BY <1>5, <3>1
    <3>2. CASE c \in built /\ d \in built
      BY <1>6, <2>1, <3>2
    <3>3. CASE (c \in built /\ d \in Entered(covered)) \/ (c \in Entered(covered) /\ d \in built)
      BY <1>4, <1>6, <2>1, <3>3
    <3> QED
      BY <1>9, <3>1, <3>2, <3>3
  <2> QED
    BY <2>1 DEF PagesOnceUnlessRaced, PagesOnce
<1>19. FlagsExact
  <2>0. \A c \in built : c.page \in Nat
    <3>1. \A p \in pages : p[1] \in Nat
      BY NumbersAssumption DEF Init
    <3> QED
      BY <1>6, <3>1
  <2>1. ASSUME NEW f \in flags PROVE Relates(f, candidates)
    <3>1. PICK c \in built, d \in built :
            /\ f = <<Id(c), Id(d)>> /\ Code[c.page] # NoCode
            /\ Code[d.page] = Code[c.page] /\ d.page < c.page
      BY <1>3, <2>1 DEF DuplicatesAmong
    <3>2. c.by = 1 /\ d.by = 1 /\ c \in candidates /\ d \in candidates
      BY <1>3, <1>6
    <3> QED
      BY <3>1, <3>2 DEF Relates, Alike
  <2>2. ASSUME NEW c \in candidates, NEW d \in candidates, MustFlag(candidates, c, d)
        PROVE  <<Id(c), Id(d)>> \in flags
    <3>1. /\ Code[c.page] # NoCode /\ Code[d.page] = Code[c.page] /\ c # d
          /\ c.by = d.by /\ c.by # 0
          /\ \A x \in candidates : Alike(x, d) => d.page <= x.page
      BY <2>2 DEF MustFlag, Alike, FirstIn
    <3>2. c \in built /\ d \in built
      BY <1>4, <1>9, <3>1
    <3>3. \A x \in built : Code[x.page] = Code[c.page] => d.page <= x.page
      <4>1. \A x \in built : x \in candidates /\ x.by = 1
        BY <1>3, <1>6
      <4> QED
        BY <3>1, <3>2, <4>1 DEF Alike
    <3>4. d.page < c.page
      <4>1. c.page # d.page
        BY <1>8, <3>1, <3>2
      <4> QED
        BY <2>0, <3>2, <3>3, <4>1
    <3> QED
      BY <1>3, <3>1, <3>2, <3>3, <3>4 DEF DuplicatesAmong
  <2> QED
    BY <2>1, <2>2, ExactIsFlagsExact DEF Exact
<1> QED
  BY <1>1, <1>11, <1>12, <1>13, <1>14, <1>15, <1>16, <1>17, <1>18, <1>19 DEF IInv

THEOREM Invariance == Spec => []IInv
<1>1. IInv /\ [Next]_vars => IInv'
  BY TypeStep, OwnNumberStep, UniqueIdsStep, RefsHoldStep, OneRunStep, FreshStartStep,
     BuildsOnceStep, DeletionsStep, NoneLeftStep, NothingInCommonStep, KeptCoversStep, RunsNoticedStep, FindsTakenStep,
     PagesTakenStep, PagesOnceStep, FlagsExactStep DEF IInv
<1> QED
  BY <1>1, InitInvariant, PTL DEF Spec

(* Tables and sessions are of the sorts that the module gives them, and a request *)
(* keeps nothing of a finished assembly.                                          *)
THEOREM TypeCorrect == Spec => []TypeOK
<1>1. IInv => TypeOK
  BY DEF IInv
<1> QED
  BY <1>1, Invariance, PTL

(* "So a page never ends up described by two overlapping candidates"             *)
(* (candidate_assembly.py), unless another assembly that has found nothing in     *)
(* common with this one to delete has committed after this one looked at the     *)
(* pages to leave out.                                                           *)
THEOREM PagesOnceApart == Spec => []PagesOnceUnlessRaced
<1>1. IInv => PagesOnceUnlessRaced
  BY DEF IInv
<1> QED
  BY <1>1, Invariance, PTL

(* Flags relate the candidates of one assembly with one model code, and all of   *)
(* them while the assembly's candidates are as they were built.                  *)
THEOREM FlagsAreExact == Spec => []FlagsExact
<1>1. IInv => FlagsExact
  BY DEF IInv
<1> QED
  BY <1>1, Invariance, PTL

(* No assembly, correction or run ever takes away a candidate with a review, or  *)
(* anything of it but rows that are gone (_REBUILDABLE).                         *)
THEOREM ReviewsStay == Spec => ReviewedStay
<1> DEFINE Stays == \A c \in candidates : c.reviewed =>
                      \E d \in candidates' : /\ Id(d) = Id(c) /\ d.reviewed
                                             /\ d.pages = c.pages \cap pages'
                                             /\ d.finds = c.finds \cap finds'
<1>1. ASSUME Amends PROVE Stays
  BY <1>1 DEF Amends, Amended, Id
<1>2. ASSUME IInv, NEW r \in Requests, Commits(r) PROVE Stays
  <2>1. /\ pages' = pages /\ finds' = finds
        /\ {c \in candidates : Id(c) \notin deleted[r]} \subseteq candidates'
    BY <1>2 DEF Commits
  <2>2. \A c \in candidates : /\ c.reviewed => Id(c) \notin deleted[r]
                              /\ c.pages \subseteq pages /\ c.finds \subseteq finds
    BY <1>2 DEF IInv, Deletions, RefsHold
  <2> QED
    BY <2>1, <2>2
<1>3. ASSUME IInv, UNCHANGED vars PROVE Amends
  BY <1>3, QuietAmends DEF IInv, vars, tables
<1>4. IInv /\ [Next]_vars => [Stays]_vars
  BY <1>1, <1>2, <1>3, Cases, OutsideAmends, StepAmends
<1> QED
  BY <1>4, Invariance, PTL DEF Spec, ReviewedStay

(* An assembly that nothing came between gives every page with products a       *)
(* candidate, with exactly the products that are there when it commits.          *)
THEOREM NothingIsMissed == Spec => NothingMissed
<1> DEFINE Whole == \A r \in Requests : Commit(r) /\ disturbed[r] = {} =>
                      /\ \A p \in pages : FindsOn(p) # {} => \E c \in candidates' : p \in c.pages
                      /\ \A c \in inserted[r] : c.finds = UNION {FindsOn(p) : p \in c.pages}
<1>1. ASSUME IInv, NEW r \in Requests, Commit(r), disturbed[r] = {},
             NEW p \in pages, FindsOn(p) # {}
      PROVE  \E c \in candidates' : p \in c.pages
  <2>1. Commits(r)
    BY <1>1, CommitEffect DEF IInv
  <2>2. /\ pc[r] = "reading" /\ todo[r] = {} /\ Looked(r)
        /\ candidates' = {c \in candidates : Id(c) \notin deleted[r]} \cup inserted[r]
    BY <2>1 DEF Commits, Looked
  <2>3. Made(r) = inserted[r]
    BY <1>1, <2>2 DEF IInv, TypeOK, Made
  <2>4. p \in kept[r] \/ \E c \in inserted[r] : p \in c.pages
    BY <1>1, <2>2, <2>3 DEF IInv, PagesTaken
  <2>5. p \in kept[r] => \E c \in candidates : Id(c) \notin deleted[r] /\ p \in c.pages
    BY <1>1, <2>2 DEF IInv, PagesTaken
  <2> QED
    BY <2>2, <2>4, <2>5
<1>2. ASSUME IInv, NEW r \in Requests, disturbed[r] = {}, NEW c \in inserted[r]
      PROVE  c.finds = UNION {FindsOn(p) : p \in c.pages}
  <2>1. c \in Made(r) /\ c.finds \subseteq finds
    BY <1>2 DEF Made, IInv, RefsHold
  <2>2. PICK p \in Row : BuiltOf(r, c, p)
    BY <1>2, <2>1 DEF IInv, BuildsOnce
  <2>3. FindsOn(p) \subseteq c.finds
    BY <1>2, <2>1, <2>2 DEF IInv, FindsTaken, BuiltOf
  <2>4. c.finds \subseteq FindsOn(p)
    BY <2>1, <2>2 DEF BuiltOf, FindsOn
  <2> QED
    BY <2>2, <2>3, <2>4 DEF BuiltOf
<1>3. IInv /\ [Next]_vars => [Whole]_vars
  BY <1>1, <1>2
<1> QED
  BY <1>3, Invariance, PTL DEF Spec, NothingMissed

=============================================================================
