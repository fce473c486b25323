------------------------------ MODULE Assembly ------------------------------
(***************************************************************************)
(* Grouping the products found on a catalogue's pages into candidates.  An *)
(* assembly is one transaction of many statements, each of which sees what *)
(* was committed before it began (READ COMMITTED).  Nothing stops two of   *)
(* them, a correction of a panel or a new run of the pipeline meanwhile.   *)
(***************************************************************************)
EXTENDS Naturals, FiniteSets

CONSTANTS Requests,       \* requests that may be served at once
          Numbers,        \* page numbers of the catalogue
          Objects,        \* products that may be found on a page
          Code,           \* the model code printed on a page
          NoCode,         \* the mark of a page without one
          MaxAssemblies,  \* assemblies that may begin (the bound)
          MaxRuns         \* runs of the pipeline that may begin (the bound)

ASSUME NumbersAssumption == Numbers \subseteq Nat /\ IsFiniteSet(Numbers)
ASSUME BoundsAssumption == MaxAssemblies \in Nat \ {0} /\ MaxRuns \in Nat

VARIABLES status,      \* catalogues.status: whether it has been processed
          running,     \* whether a run of the pipeline is going on
          run,         \* the latest one
          pages,       \* catalogue_pages: number and the run that wrote it
          finds,       \* detected_objects: page and product
          candidates,  \* product_candidates with their association tables
          flags,       \* duplicate_flags: a candidate and the first of its code
          assemblies,  \* how many have begun
          pc,          \* where an assembly is
          by,          \* its number
          snapshot,    \* the candidates its DELETE has found
          deleted,     \* the candidates it has deleted
          kept,        \* the pages it must not touch
          todo,        \* the pages it has still to read
          draft,       \* the candidate it has built from the page read last
          inserted,    \* the candidates it has inserted
          disturbed,   \* what came between since it began (for properties)
          trouble      \* what came between some assembly so far (for properties)

tables  == <<status, running, run, pages, finds, candidates, flags>>
session == <<pc, by, snapshot, deleted, kept, todo, draft, inserted>>
vars == <<tables, assemblies, session, disturbed, trouble>>

Row == Numbers \X (0..MaxRuns)
Detected == Row \X Objects
Id(c) == <<c.by, c.page>>
Candidate == [by : 0..MaxAssemblies, page : Numbers, reviewed : BOOLEAN,
              pages : SUBSET Row, finds : SUBSET Detected]
Ids == (0..MaxAssemblies) \X Numbers
Hazard == {"run", "assembly"}

TypeOK ==
  /\ status \in {"SETTLED", "PROCESSING", "FAILED"}
  /\ running \in BOOLEAN
  /\ run \in 0..MaxRuns
  /\ pages \subseteq Row
  /\ finds \subseteq Detected
  /\ candidates \subseteq Candidate
  /\ flags \subseteq Ids \X Ids
  /\ assemblies \in 0..MaxAssemblies
  /\ pc \in [Requests -> {"idle", "begun", "deleting", "deleted", "kept", "reading", "drafted"}]
  /\ by \in [Requests -> 0..MaxAssemblies]
  /\ snapshot \in [Requests -> SUBSET Ids]
  /\ deleted \in [Requests -> SUBSET Ids]
  /\ kept \in [Requests -> SUBSET Row]
  /\ todo \in [Requests -> SUBSET Row]
  /\ draft \in [Requests -> SUBSET Candidate]
  /\ inserted \in [Requests -> SUBSET Candidate]
  /\ disturbed \in [Requests -> SUBSET Hazard]
  /\ trouble \subseteq Hazard
  /\ \A r \in Requests : pc[r] = "idle" =>
       by[r] = 0 /\ snapshot[r] \cup deleted[r] \cup kept[r] \cup todo[r] \cup draft[r] \cup inserted[r] = {}
  /\ \A r \in Requests : draft[r] # {} <=> pc[r] = "drafted"

PageOf(f) == f[1]
FindsOn(p) == {f \in finds : PageOf(f) = p}

\* Candidates of one assembly with the same code: all others point at the first.
DuplicatesAmong(created) ==
  LET first(c) == {o \in created : /\ Code[c.page] # NoCode
                                   /\ Code[o.page] = Code[c.page]
                                   /\ o.page < c.page
                                   /\ \A f \in created : Code[f.page] = Code[c.page] => o.page <= f.page}
  IN UNION {{<<Id(c), Id(d)>> : d \in first(c)} : c \in created}

\* What _assemble_page makes of a page with products.
Built(number, p) ==
  [by |-> number, page |-> p[1], reviewed |-> FALSE, pages |-> {p}, finds |-> FindsOn(p)]

\* A candidate that an admin has entered or merged, over any pages.
Entered(covered) ==
  {[by |-> 0, page |-> p[1], reviewed |-> TRUE, pages |-> covered,
    finds |-> {f \in finds : PageOf(f) \in covered}] :
   p \in {q \in covered : \A o \in covered : q[1] <= o[1]}}

\* What an earlier assembly has built of the other pages.
BuiltBefore(covered) == {Built(1, p) : p \in {q \in pages \ covered : FindsOn(q) # {}}}

\* A processed catalogue: some products found, perhaps a candidate of an admin's,
\* and perhaps the candidates of an assembly that nobody has reviewed yet.
Init ==
  /\ status = "SETTLED"
  /\ running = FALSE
  /\ run = 0
  /\ pages = Numbers \X {0}
  /\ finds \in SUBSET (pages \X Objects)
  /\ \E covered \in SUBSET pages :
       \/ candidates = Entered(covered) /\ flags = {}
       \/ /\ candidates = Entered(covered) \cup BuiltBefore(covered)
          /\ flags = DuplicatesAmong(BuiltBefore(covered))
  /\ assemblies = 1
  /\ pc = [r \in Requests |-> "idle"]
  /\ by = [r \in Requests |-> 0]
  /\ snapshot = [r \in Requests |-> {}]
  /\ deleted = [r \in Requests |-> {}]
  /\ kept = [r \in Requests |-> {}]
  /\ todo = [r \in Requests |-> {}]
  /\ draft = [r \in Requests |-> {}]
  /\ inserted = [r \in Requests |-> {}]
  /\ disturbed = [r \in Requests |-> {}]
  /\ trouble = {}

----------------------------------------------------------------------------
(* An assembly.                                                            *)

\* The catalogue is loaded, and has been processed at least partly.  A run may be
\* going on all the same that has not announced itself (StartRun).
Begin(r) ==
  /\ pc[r] = "idle"
  /\ status = "SETTLED"
  /\ assemblies < MaxAssemblies
  /\ assemblies' = assemblies + 1
  /\ by' = [by EXCEPT ![r] = assemblies + 1]
  /\ pc' = [pc EXCEPT ![r] = "begun"]
  /\ disturbed' = [disturbed EXCEPT ![r] = IF running THEN {"run"} ELSE {}]
  /\ UNCHANGED <<tables, snapshot, deleted, kept, todo, draft, inserted, trouble>>

\* _REBUILDABLE: built by an assembly, and nobody has reviewed it.
Rebuildable(c) == ~c.reviewed

\* The DELETE fixes the rows it is about.
DeleteBegins(r) ==
  /\ pc[r] = "begun"
  /\ snapshot' = [snapshot EXCEPT ![r] = {Id(c) : c \in {d \in candidates : Rebuildable(d)}}]
  /\ pc' = [pc EXCEPT ![r] = "deleting"]
  /\ UNCHANGED <<tables, assemblies, by, deleted, kept, todo, draft, inserted, disturbed, trouble>>

\* Mutant: the DELETE does not wait for rows that another one has deleted.
DeleteWithoutWaiting(r) ==
  /\ pc[r] = "deleting"
  /\ deleted' = [deleted EXCEPT ![r] =
       snapshot[r] \cap {Id(c) : c \in {d \in candidates : Rebuildable(d)}}]
  /\ pc' = [pc EXCEPT ![r] = "deleted"]
  /\ UNCHANGED <<tables, assemblies, by, snapshot, kept, todo, draft, inserted, disturbed, trouble>>

\* Mutant: rows are deleted as they were found, reviewed meanwhile or not.
DeleteAsFound(r) ==
  /\ pc[r] = "deleting"
  /\ \A q \in Requests \ {r} : deleted[q] \cap snapshot[r] = {}
  /\ deleted' = [deleted EXCEPT ![r] = snapshot[r] \cap {Id(c) : c \in candidates}]
  /\ pc' = [pc EXCEPT ![r] = "deleted"]
  /\ UNCHANGED <<tables, assemblies, by, snapshot, kept, todo, draft, inserted, disturbed, trouble>>

\* It waits for a transaction that has deleted some of them, and looks again at
\* those that are left.  Rows committed since it began are not among them.
DeleteEnds(r) ==
  /\ pc[r] = "deleting"
  /\ \A q \in Requests \ {r} : deleted[q] \cap snapshot[r] = {}
  /\ deleted' = [deleted EXCEPT ![r] =
       snapshot[r] \cap {Id(c) : c \in {d \in candidates : Rebuildable(d)}}]
  /\ pc' = [pc EXCEPT ![r] = "deleted"]
  /\ UNCHANGED <<tables, assemblies, by, snapshot, kept, todo, draft, inserted, disturbed, trouble>>

\* Mutant: the pages of the candidates it has deleted are kept too.
ReadKeptOfAll(r) ==
  /\ pc[r] = "deleted"
  /\ kept' = [kept EXCEPT ![r] = UNION {c.pages : c \in candidates}]
  /\ pc' = [pc EXCEPT ![r] = "kept"]
  /\ UNCHANGED <<tables, assemblies, by, snapshot, deleted, todo, draft, inserted, disturbed, trouble>>

\* The pages of every candidate that is left.
ReadKept(r) ==
  /\ pc[r] = "deleted"
  /\ kept' = [kept EXCEPT ![r] = UNION {c.pages : c \in {d \in candidates : Id(d) \notin deleted[r]}}]
  /\ pc' = [pc EXCEPT ![r] = "kept"]
  /\ UNCHANGED <<tables, assemblies, by, snapshot, deleted, todo, draft, inserted, disturbed, trouble>>

ListPages(r) ==
  /\ pc[r] = "kept"
  /\ todo' = [todo EXCEPT ![r] = pages \ kept[r]]
  /\ pc' = [pc EXCEPT ![r] = "reading"]
  /\ UNCHANGED <<tables, assemblies, by, snapshot, deleted, kept, draft, inserted, disturbed, trouble>>

\* Pages in their order; one without products gets no candidate.
ReadPage(r) ==
  \E p \in todo[r] :
    /\ pc[r] = "reading"
    /\ \A q \in todo[r] : p[1] <= q[1]
    /\ todo' = [todo EXCEPT ![r] = @ \ {p}]
    /\ IF FindsOn(p) = {} THEN UNCHANGED <<pc, draft>>
       ELSE /\ draft' = [draft EXCEPT ![r] = {Built(by[r], p)}]
            /\ pc' = [pc EXCEPT ![r] = "drafted"]
    /\ UNCHANGED <<tables, assemblies, by, snapshot, deleted, kept, inserted, disturbed, trouble>>

\* The next statement sends the candidate and its associations; the rows they
\* refer to must be there, and stay until the transaction ends.
Insert(r) ==
  /\ pc[r] = "drafted"
  /\ \A c \in draft[r] : c.pages \subseteq pages /\ c.finds \subseteq finds
  /\ inserted' = [inserted EXCEPT ![r] = @ \cup draft[r]]
  /\ draft' = [draft EXCEPT ![r] = {}]
  /\ pc' = [pc EXCEPT ![r] = "reading"]
  /\ UNCHANGED <<tables, assemblies, by, snapshot, deleted, kept, todo, disturbed, trouble>>

\* Mutant: the deleted rows stay locked.
EndSessionHolding(r) ==
  /\ pc' = [pc EXCEPT ![r] = "idle"]
  /\ by' = [by EXCEPT ![r] = 0]
  /\ snapshot' = [snapshot EXCEPT ![r] = {}]
  /\ UNCHANGED deleted
  /\ kept' = [kept EXCEPT ![r] = {}]
  /\ todo' = [todo EXCEPT ![r] = {}]
  /\ draft' = [draft EXCEPT ![r] = {}]
  /\ inserted' = [inserted EXCEPT ![r] = {}]

EndSession(r) ==
  /\ pc' = [pc EXCEPT ![r] = "idle"]
  /\ by' = [by EXCEPT ![r] = 0]
  /\ snapshot' = [snapshot EXCEPT ![r] = {}]
  /\ deleted' = [deleted EXCEPT ![r] = {}]
  /\ kept' = [kept EXCEPT ![r] = {}]
  /\ todo' = [todo EXCEPT ![r] = {}]
  /\ draft' = [draft EXCEPT ![r] = {}]
  /\ inserted' = [inserted EXCEPT ![r] = {}]

\* q has looked at the pages to keep, and the two have found nothing in common to
\* delete: what r commits is no reason for q to have waited.  (For properties.)
Overtakes(r, q) ==
  pc[q] \in {"kept", "reading", "drafted"} /\ deleted[r] \cap snapshot[q] = {}

\* Mutant: the new candidates are compared with those that are left, too.
FlagsAmongAll(r) ==
  {f \in flags : f[1] \notin deleted[r] /\ f[2] \notin deleted[r]}
    \cup DuplicatesAmong({c \in candidates : Id(c) \notin deleted[r]} \cup inserted[r])

\* Flags go with their candidates; the new ones are compared with each other.
FlagsAfter(r) ==
  {f \in flags : f[1] \notin deleted[r] /\ f[2] \notin deleted[r]} \cup DuplicatesAmong(inserted[r])

Commit(r) ==
  /\ pc[r] = "reading" /\ todo[r] = {}
  /\ candidates' = {c \in candidates : Id(c) \notin deleted[r]} \cup inserted[r]
  /\ flags' = FlagsAfter(r)
  /\ trouble' = trouble \cup disturbed[r]
  /\ disturbed' = [q \in Requests |->
       IF q = r THEN {}
       ELSE IF Overtakes(r, q) THEN disturbed[q] \cup {"assembly"}
       ELSE disturbed[q]]
  /\ EndSession(r)
  /\ UNCHANGED <<status, running, run, pages, finds, assemblies>>

\* A row it refers to is gone, PostgreSQL ends a deadlock, the process dies.
Fail(r) ==
  /\ pc[r] # "idle"
  /\ EndSession(r)
  /\ disturbed' = [disturbed EXCEPT ![r] = {}]
  /\ UNCHANGED <<tables, assemblies, trouble>>

----------------------------------------------------------------------------
(* What may happen meanwhile.                                              *)

\* An admin reviews a candidate; an open transaction that has deleted it makes
\* the review find nothing.
Review(c) ==
  /\ ~c.reviewed
  /\ \A q \in Requests : Id(c) \notin deleted[q]
  /\ candidates' = (candidates \ {c}) \cup {[c EXCEPT !.reviewed = TRUE]}
  /\ UNCHANGED <<status, running, run, pages, finds, flags, assemblies, session, disturbed, trouble>>

\* Rows that an open assembly refers to or has deleted cannot go before it ends.
Free(rows) ==
  \A q \in Requests :
    /\ \A c \in inserted[q] : c.pages \cap rows = {}
    /\ \A c \in candidates : Id(c) \in deleted[q] => c.pages \cap rows = {}

\* Deleting rows deletes their associations with candidates.
Detach(keptPages, keptFinds) ==
  candidates' = {[c EXCEPT !.pages = @ \cap keptPages, !.finds = @ \cap keptFinds] : c \in candidates}

OfThisRun == \A p \in pages : p[2] = run

\* A corrected panel loses its products (forget_finds).  That no job is active has
\* been checked before; a run may have begun since, but not wiped the page.
ForgetFind(f) ==
  /\ running => ~OfThisRun
  /\ Free({PageOf(f)})
  /\ finds' = finds \ {f}
  /\ Detach(pages, finds \ {f})
  /\ UNCHANGED <<status, running, run, pages, flags, assemblies, session, disturbed, trouble>>

\* The status is written if it is not what was loaded before the catalogue's lock
\* was taken, perhaps PROCESSING still of the run before (PipelineRun).
StartRun ==
  /\ ~running
  /\ run < MaxRuns
  /\ run' = run + 1
  /\ running' = TRUE
  /\ status' \in {"PROCESSING", status}
  /\ disturbed' = [q \in Requests |-> IF pc[q] = "idle" THEN {} ELSE disturbed[q] \cup {"run"}]
  /\ UNCHANGED <<pages, finds, candidates, flags, assemblies, session, trouble>>

Wipe ==
  /\ running /\ ~OfThisRun
  /\ Free(pages)
  /\ pages' = {}
  /\ finds' = {}
  /\ Detach({}, {})
  /\ UNCHANGED <<status, running, run, flags, assemblies, session, disturbed, trouble>>

RenderPage(n) ==
  /\ running /\ OfThisRun /\ <<n, run>> \notin pages
  /\ pages' = pages \cup {<<n, run>>}
  /\ UNCHANGED <<status, running, run, finds, candidates, flags, assemblies, session, disturbed, trouble>>

FindProducts(p) ==
  /\ running /\ OfThisRun /\ FindsOn(p) = {}
  /\ \E objects \in SUBSET Objects \ {{}} : finds' = finds \cup ({p} \X objects)
  /\ UNCHANGED <<status, running, run, pages, candidates, flags, assemblies, session, disturbed, trouble>>

\* It finishes, fails, or its worker dies and the status stays as it is.
EndRun ==
  /\ running
  /\ running' = FALSE
  /\ \/ status' = "SETTLED" /\ pages # {} /\ OfThisRun
     \/ status' \in {"FAILED", status}
  /\ UNCHANGED <<run, pages, finds, candidates, flags, assemblies, session, disturbed, trouble>>

Processing ==
  \/ StartRun \/ Wipe \/ EndRun
  \/ \E n \in Numbers : RenderPage(n)
  \/ \E p \in pages : FindProducts(p)

Assemble(r) ==
  \/ Begin(r) \/ DeleteBegins(r) \/ DeleteEnds(r) \/ ReadKept(r) \/ ListPages(r)
  \/ ReadPage(r) \/ Insert(r) \/ Commit(r) \/ Fail(r)

Next ==
  \/ \E r \in Requests : Assemble(r)
  \/ \E c \in candidates : Review(c)
  \/ \E f \in finds : ForgetFind(f)
  \/ Processing

Spec == Init /\ [][Next]_vars

----------------------------------------------------------------------------
(* Properties.                                                             *)

(* Whatever an assembly throws away, a candidate with a review stays, with   *)
(* everything it was made of that is still there.                            *)
ReviewedStay ==
  [][\A c \in candidates : c.reviewed =>
       \E d \in candidates' : /\ Id(d) = Id(c) /\ d.reviewed
                              /\ d.pages = c.pages \cap pages'
                              /\ d.finds = c.finds \cap finds']_vars

(* "So a page never ends up described by two overlapping candidates"          *)
(* (candidate_assembly.py).                                                  *)
PagesOnce ==
  \A c, d \in candidates : c.pages \cap d.pages # {} => c = d

(* ... which holds however two assemblies overlap that have found a candidate *)
(* to delete in common: one's DELETE waits for the other's commit, and the    *)
(* pages it then keeps are those the other has given a candidate.  Only an    *)
(* assembly that has nothing to delete in common with another may come        *)
(* between that one's look at the kept pages and its commit.                  *)
PagesOnceUnlessRaced == "assembly" \notin trouble => PagesOnce

(* An assembly that nothing came between leaves no page with products without *)
(* a candidate, and its candidates have exactly the products that are there,  *)
(* whatever panels were corrected while it ran.                               *)
NothingMissed ==
  [][\A r \in Requests : Commit(r) /\ disturbed[r] = {} =>
       /\ \A p \in pages : FindsOn(p) # {} => \E c \in candidates' : p \in c.pages
       /\ \A c \in inserted[r] : c.finds = UNION {FindsOn(p) : p \in c.pages}]_vars

(* Until the next assembly or review takes some of them apart, candidates of   *)
(* one assembly with the same model code are all flagged against the first;    *)
(* and whatever goes, no flag is left that relates anything else.              *)
FlagsExact ==
  LET alike(c, d) == c.by = d.by /\ c.by # 0 /\ Code[c.page] = Code[d.page] /\ Code[c.page] # NoCode
      first(d) == \A c \in candidates : alike(c, d) => d.page <= c.page
      whole(a) == \E c \in candidates : c.by = a /\ ~c.reviewed
  IN /\ \A f \in flags : \E c, d \in candidates :
          f = <<Id(c), Id(d)>> /\ alike(c, d) /\ d.page < c.page
     /\ \A c, d \in candidates :
          alike(c, d) /\ c # d /\ first(d) /\ whole(c.by) => <<Id(c), Id(d)>> \in flags
=============================================================================
