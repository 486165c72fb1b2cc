----------------------------- MODULE ReindexProofs -----------------------------
(* What holds of every reindex, for any vault, tables, scopes and types, with  *)
(* any saves, imports and failures between its statements: it keeps out of the *)
(* scopes it does not hold, leaves nothing of what was removed, a document and *)
(* its texts are of one version, every page has its row and its links, and an  *)
(* import keeps the documents it moves.                                        *)
EXTENDS Reindex, ChunksProofs

\* Functions and records keep their domains.
Shape ==
  /\ DOMAIN db = DOMAIN EmptyTables
  /\ \A table \in {"rows", "claims", "chunks", "findings"} : DOMAIN db[table] = Uids
  /\ DOMAIN run = DOMAIN Resting
  /\ DOMAIN vault = DOMAIN Pages

\* The page whose statements are under way: its row is written, in a scope that
\* is held, and then its claims and its chunks.
PageInv ==
  /\ run.pc = "document" => run.page.uid \in Uids
  /\ run.pc \in Writing =>
       /\ run.page.uid \in Owned(db, run.held)
       /\ db.rows[run.page.uid] = RowOf(run.page.path, run.page.page, run.types)
  /\ run.pc \in Writing \ {"claims"} =>
       db.claims[run.page.uid] = ClaimsOf(run.page.page, run.types)
  /\ run.pc = "findings" => db.chunks[run.page.uid] = ChunkBody(run.page.page.body)

\* Every other document that no run has left halfway has texts of its version.
TextInv ==
  \A uid \in Documents(db) \ cut :
    (run.pc \in Writing => uid # run.page.uid) => OneVersion(db, uid)

\* While nothing is saved the run's listing is that of the vault, and the prune
\* leaves no row of another path.
PruneInv ==
  /\ run.pc # "idle" /\ quiet => run.list = Listed
  /\ run.pc = "embed" => \A uid \in Owned(db, run.held) : db.rows[uid].path \in run.list
  /\ Complete => \A uid \in Owned(db, run.held) : db.rows[uid].path \in Listed

RunInv == Shape /\ NothingLeft(db) /\ PageInv /\ TextInv /\ PruneInv

-------------------------------------------------------------------------------
(* The statements on the tables. *)

LEMMA RowIsNoNoRow ==
  ASSUME NEW path, NEW page, NEW limits
  PROVE  /\ RowOf(path, page, limits) # NoRow
         /\ RowOf(path, page, limits).version = page
         /\ RowOf(path, page, limits).print = limits
         /\ RowOf(path, page, limits).scope = ScopeOf(path, page)
<1>1. DOMAIN RowOf(path, page, limits) # DOMAIN NoRow
  BY DEF RowOf, NoRow
<1> QED
  BY <1>1 DEF RowOf

LEMMA InitInv == Init => RunInv
<1> SUFFICES ASSUME Init PROVE RunInv
  OBVIOUS
<1>1. run.pc = "idle" /\ outcome = "none" /\ db = Tables /\ DOMAIN run = DOMAIN Resting
  BY DEF Init, Resting
<1>2. Shape
  BY <1>1, TablesAreSound DEF Shape, Init
<1>3. NothingLeft(db) /\ TextInv
  BY <1>1, TablesAreSound DEF TextInv
<1>4. PageInv /\ PruneInv
  BY <1>1 DEF PageInv, PruneInv, Complete, Writing
<1> QED
  BY <1>2, <1>3, <1>4 DEF RunInv

\* The end of a run before it is done: the page it was at is left halfway, and
\* of its links some may be written.
LEMMA StopKeepsInv ==
  ASSUME RunInv, NEW how, Ended(how), how # "done",
         DOMAIN db' = DOMAIN db, NothingLeft(db'),
         \A table \in {"rows", "claims", "chunks", "findings"} : db'[table] = db[table],
         cut \subseteq cut', run.pc \in Writing => run.page.uid \in cut',
         UNCHANGED <<vault, quiet>>
  PROVE  RunInv'
<1>0. /\ db'.rows = db.rows /\ db'.claims = db.claims /\ db'.chunks = db.chunks
      /\ db'.findings = db.findings
  OBVIOUS
<1>1. run'.pc = "idle" /\ run'.held = run.held /\ DOMAIN run' = DOMAIN Resting /\ outcome' = how
  BY DEF Ended, Resting
<1>2. Shape'
  BY <1>0, <1>1 DEF RunInv, Shape
<1>3. PageInv' /\ PruneInv'
  BY <1>1 DEF PageInv, PruneInv, Complete, Writing
<1>4. TextInv'
  BY <1>0, <1>1 DEF RunInv, TextInv, Documents, OneVersion, Writing
<1> QED
  BY <1>2, <1>3, <1>4 DEF RunInv

LEMMA EndKeepsInv ==
  ASSUME RunInv, NEW how, Ended(how), how # "done", UNCHANGED db,
         cut \subseteq cut', run.pc \in Writing => run.page.uid \in cut',
         UNCHANGED <<vault, quiet>>
  PROVE  RunInv'
<1>1. NothingLeft(db')
  BY DEF RunInv
<1> QED
  BY <1>1, StopKeepsInv

\* A step of the environment: nothing of the tables or the run.
LEMMA EnvironmentKeepsInv ==
  ASSUME RunInv, UNCHANGED <<db, run, outcome, cut>>,
         DOMAIN vault' = DOMAIN vault,
         quiet' = FALSE \/ (quiet' = quiet /\ vault' = vault)
  PROVE  RunInv'
<1>1. Shape' /\ NothingLeft(db')
  BY DEF RunInv, Shape
<1>2. PageInv' /\ TextInv'
  BY DEF RunInv, PageInv, TextInv, Documents, OneVersion, Owned
<1>3. PruneInv'
  BY DEF RunInv, PruneInv, Complete, Listed, Owned, Documents
<1> QED
  BY <1>1, <1>2, <1>3 DEF RunInv

\* A step of a run that reads, and writes no document.
LEMMA ReadKeepsInv ==
  ASSUME RunInv, run.pc \in {"walk", "index"},
         DOMAIN db' = DOMAIN db,
         \A table \in {"rows", "claims", "chunks", "findings", "edges"} : db'[table] = db[table],
         DOMAIN run' = DOMAIN run, run'.pc \in {"walk", "index", "document"},
         run'.pc = "document" => run'.page.uid \in Uids,
         run'.list = run.list,
         UNCHANGED <<vault, quiet, cut>>
  PROVE  RunInv'
<1>0. /\ db'.rows = db.rows /\ db'.claims = db.claims /\ db'.chunks = db.chunks
      /\ db'.findings = db.findings /\ db'.edges = db.edges
  OBVIOUS
<1>1. Shape' /\ NothingLeft(db')
  BY <1>0 DEF RunInv, Shape, NothingLeft, Documents
<1>2. PageInv' /\ TextInv'
  BY <1>0 DEF RunInv, PageInv, TextInv, Documents, OneVersion, Writing
<1>3. PruneInv'
  BY DEF RunInv, PruneInv, Complete, Listed
<1> QED
  BY <1>1, <1>2, <1>3 DEF RunInv

LEMMA BeginKeepsInv ==
  ASSUME RunInv, NEW held, NEW embeds, Begin(held, embeds)
  PROVE  RunInv'
<1>1. /\ run'.pc = "walk" /\ DOMAIN run' = DOMAIN Resting /\ run'.list = Listed
      /\ UNCHANGED <<db, vault, cut>> /\ run.pc = "idle"
  BY DEF Begin, Resting
<1>2. Shape' /\ NothingLeft(db')
  BY <1>1 DEF RunInv, Shape
<1>3. PageInv' /\ TextInv'
  BY <1>1 DEF RunInv, PageInv, TextInv, Documents, OneVersion, Writing
<1>4. Listed' = Listed
  BY <1>1 DEF Listed
<1>5. PruneInv'
  BY <1>1, <1>4 DEF PruneInv, Complete
<1> QED
  BY <1>2, <1>3, <1>5 DEF RunInv

\* The two passes up to a page's first statement.
LEMMA PassesKeepInv ==
  ASSUME RunInv, WalkPage \/ BeginIndexing \/ IndexPage
  PROVE  RunInv'
<1>1. CASE WalkPage
  <2>1. CASE Ended("failed")
    BY <1>1, <2>1, EndKeepsInv DEF WalkPage, history, Writing
  <2>2. CASE \E path \in run.todo :
               run' = [run EXCEPT !.todo = @ \ {path}, !.index = Walked(@, path, vault[path]),
                                  !.scopeOf = Noted(@, path, vault[path])]
    <3>1. run'.pc = run.pc /\ run'.list = run.list /\ DOMAIN run' = DOMAIN run
      BY <2>2 DEF RunInv, Shape, Resting
    <3> QED
      BY <1>1, <3>1, ReadKeepsInv DEF WalkPage, history
  <2> QED
    BY <1>1, <2>1, <2>2 DEF WalkPage
<1>2. CASE BeginIndexing
  <2>1. run'.pc = "index" /\ run'.list = run.list /\ DOMAIN run' = DOMAIN run
    BY <1>2 DEF BeginIndexing, RunInv, Shape, Resting
  <2> QED
    BY <1>2, <2>1, ReadKeepsInv DEF BeginIndexing, history
<1>3. CASE IndexPage
  <2>0. run.pc = "index" /\ UNCHANGED <<vault, quiet, cut>>
    BY <1>3 DEF IndexPage, history
  <2>1. CASE Ended("failed") /\ UNCHANGED db
    BY <2>0, <2>1, EndKeepsInv DEF Writing
  <2>2. CASE \E path, page :
               /\ \/ db' = db
                  \/ \E globals : db' = [db EXCEPT !.globals = globals]
               /\ \/ run' = [run EXCEPT !.todo = @ \ {path}]
                  \/ /\ page.uid \in Uids
                     /\ run' = [run EXCEPT !.pc = "document", !.page = page]
    <3>1. /\ DOMAIN db' = DOMAIN db
          /\ \A table \in {"rows", "claims", "chunks", "findings", "edges"} : db'[table] = db[table]
      BY <2>2 DEF RunInv, Shape, EmptyTables
    <3>2. /\ run'.pc \in {"index", "document"} /\ run'.list = run.list /\ DOMAIN run' = DOMAIN run
          /\ run'.pc = "document" => run'.page.uid \in Uids
      BY <2>0, <2>2 DEF RunInv, Shape, Resting
    <3> QED
      BY <2>0, <3>1, <3>2, ReadKeepsInv
  <2> QED
    BY <1>3, <2>1, <2>2 DEF IndexPage, UpsertGlobalFinding, ResolveGlobalFindings
<1> QED
  BY <1>1, <1>2, <1>3

\* A statement of the page under way: it writes one table, at the page's uid.
LEMMA DocumentKeepsInv ==
  ASSUME RunInv, WriteDocument
  PROVE  RunInv'
<1> DEFINE uid == run.page.uid
           row == RowOf(run.page.path, run.page.page, run.types)
<1>0. run.pc = "document" /\ uid \in Uids /\ UNCHANGED <<vault, quiet, cut>>
  BY DEF WriteDocument, history, RunInv, PageInv
<1>1. CASE Ended("failed") /\ UNCHANGED db
  BY <1>0, <1>1, EndKeepsInv DEF Writing
<1>2. CASE UpsertOutcome(db, run.held, uid, row) = "ok" /\ db' = UpsertDocument(db, uid, row)
             /\ run' = [run EXCEPT !.pc = "claims"]
  <2>1. row # NoRow /\ row.scope \in run.held
    BY <1>2, RowIsNoNoRow DEF UpsertOutcome
  <2>2. /\ DOMAIN db' = DOMAIN db /\ DOMAIN db'.rows = Uids
        /\ db'.rows[uid] = row /\ \A u \in Uids \ {uid} : db'.rows[u] = db.rows[u]
        /\ db'.claims = db.claims /\ db'.chunks = db.chunks
        /\ db'.findings = db.findings /\ db'.edges = db.edges
    BY <1>0, <1>2 DEF UpsertDocument, RunInv, Shape, EmptyTables
  <2>3. /\ run'.pc = "claims" /\ DOMAIN run' = DOMAIN run
        /\ run'.page = run.page /\ run'.held = run.held
        /\ run'.list = run.list /\ run'.types = run.types
    BY <1>2 DEF RunInv, Shape, Resting
  <2>4. Documents(db') = Documents(db) \cup {uid}
    BY <1>0, <2>1, <2>2 DEF Documents
  <2>5. Shape'
    BY <1>0, <2>2, <2>3 DEF RunInv, Shape
  <2>6. NothingLeft(db')
    BY <2>2, <2>4 DEF RunInv, NothingLeft
  <2>7. PageInv'
    BY <1>0, <2>1, <2>2, <2>3, <2>4 DEF PageInv, Owned, Writing
  <2>8. TextInv'
    <3> SUFFICES ASSUME NEW u \in Documents(db') \ cut', u # uid PROVE OneVersion(db', u)
      BY <2>3 DEF TextInv, Writing
    <3>1. u \in Documents(db) \ cut
      BY <1>0, <2>4
    <3>2. OneVersion(db, u)
      BY <1>0, <3>1 DEF RunInv, TextInv, Writing
    <3> QED
      BY <2>2, <3>1, <3>2 DEF OneVersion, Documents
  <2>9. PruneInv'
    BY <1>0, <2>3 DEF RunInv, PruneInv, Complete, Listed
  <2> QED
    BY <2>5, <2>6, <2>7, <2>8, <2>9 DEF RunInv
<1> QED
  BY <1>1, <1>2 DEF WriteDocument

\* The links of a page under way are of a document.
LEMMA LinksOfPageStand ==
  ASSUME RunInv, run.pc \in Writing, NEW written,
         written \in SUBSET EdgesOf(run.page.page, run.page.uid, PageScope, run.index),
         db' = UpsertEdges(db, written)
  PROVE  /\ NothingLeft(db') /\ DOMAIN db' = DOMAIN db
         /\ \A table \in {"rows", "claims", "chunks", "findings"} : db'[table] = db[table]
<1>1. /\ DOMAIN db' = DOMAIN db
      /\ \A table \in {"rows", "claims", "chunks", "findings"} : db'[table] = db[table]
      /\ db'.edges \subseteq db.edges \cup written
  BY DEF UpsertEdges, RunInv, Shape, EmptyTables
<1>2. /\ db'.rows = db.rows /\ db'.claims = db.claims /\ db'.chunks = db.chunks
      /\ db'.findings = db.findings
  BY <1>1
<1>3. \A e \in written : e.from = run.page.uid
  BY DEF EdgesOf
<1>4. run.page.uid \in Documents(db)
  BY DEF RunInv, PageInv, Owned
<1>5. Documents(db') = Documents(db)
  BY <1>2 DEF Documents
<1>6. NothingLeft(db')
  BY <1>1, <1>2, <1>3, <1>4, <1>5 DEF RunInv, NothingLeft
<1> QED
  BY <1>1, <1>6

\* What the statements after the first have in common.
LEMMA StatementKeepsInv ==
  ASSUME RunInv, run.pc \in Writing, run'.pc \in Writing \ {"claims"},
         DOMAIN run' = DOMAIN run, run'.page = run.page, run'.held = run.held,
         run'.list = run.list, run'.types = run.types,
         DOMAIN db' = DOMAIN db, db'.rows = db.rows, NothingLeft(db'),
         \A table \in {"claims", "chunks", "findings"} : DOMAIN db'[table] = Uids,
         \A u \in Uids \ {run.page.uid} :
           db'.claims[u] = db.claims[u] /\ db'.chunks[u] = db.chunks[u],
         db'.claims[run.page.uid] = ClaimsOf(run.page.page, run.types),
         run'.pc = "findings" => db'.chunks[run.page.uid] = ChunkBody(run.page.page.body),
         UNCHANGED <<vault, quiet, cut>>
  PROVE  RunInv'
<1>1. Documents(db') = Documents(db) /\ Owned(db', run'.held) = Owned(db, run.held)
  BY DEF Documents, Owned
<1>2. Shape'
  BY DEF RunInv, Shape
<1>3. PageInv'
  BY <1>1 DEF RunInv, PageInv, Writing
<1>4. TextInv'
  <2> SUFFICES ASSUME NEW u \in Documents(db) \ cut, u # run.page.uid PROVE OneVersion(db', u)
    BY <1>1 DEF TextInv
  <2>1. OneVersion(db, u) /\ u \in Uids \ {run.page.uid}
    BY DEF RunInv, TextInv, Documents
  <2> QED
    BY <2>1 DEF OneVersion
<1>5. PruneInv'
  BY DEF RunInv, PruneInv, Complete, Listed, Writing
<1> QED
  BY <1>2, <1>3, <1>4, <1>5 DEF RunInv

LEMMA ClaimsKeepInv ==
  ASSUME RunInv, WriteClaims
  PROVE  RunInv'
<1> DEFINE claims == ClaimsOf(run.page.page, run.types)
<1>0. run.pc = "claims" /\ run.pc \in Writing /\ UNCHANGED <<vault, quiet>>
  BY DEF WriteClaims, Writing
<1>1. CASE Ended("failed") /\ cut' = cut \cup {run.page.uid} /\ UNCHANGED db
  BY <1>0, <1>1, EndKeepsInv
<1>2. CASE /\ db' = ReplaceClaims(db, run.page.uid, claims)
           /\ run' = [run EXCEPT !.pc = "edges"] /\ UNCHANGED cut
  <2>0. run.page.uid \in Documents(db) /\ run.page.uid \in Uids
    BY <1>0 DEF RunInv, PageInv, Owned, Documents
  <2> HIDE DEF claims
  <2>1. /\ DOMAIN db' = DOMAIN db /\ db'.rows = db.rows /\ db'.chunks = db.chunks
        /\ db'.findings = db.findings /\ db'.edges = db.edges /\ DOMAIN db'.claims = Uids
        /\ db'.claims[run.page.uid] = claims
        /\ \A u \in Uids \ {run.page.uid} : db'.claims[u] = db.claims[u]
    BY <1>2, <2>0 DEF ReplaceClaims, RunInv, Shape, EmptyTables
  <2>2. /\ run'.pc = "edges" /\ DOMAIN run' = DOMAIN run
        /\ run'.page = run.page /\ run'.held = run.held
        /\ run'.list = run.list /\ run'.types = run.types
    BY <1>2 DEF RunInv, Shape, Resting
  <2>3. NothingLeft(db')
    BY <2>0, <2>1 DEF RunInv, NothingLeft, Documents
  <2>4. \A table \in {"claims", "chunks", "findings"} : DOMAIN db'[table] = Uids
    BY <2>1 DEF RunInv, Shape
  <2> QED
    BY <1>0, <1>2, <2>1, <2>2, <2>3, <2>4, StatementKeepsInv DEF claims, Writing
<1> QED
  BY <1>1, <1>2 DEF WriteClaims

LEMMA EdgesKeepInv ==
  ASSUME RunInv, WriteEdges
  PROVE  RunInv'
<1>0. run.pc = "edges" /\ run.pc \in Writing /\ UNCHANGED <<vault, quiet, cut>>
  BY DEF WriteEdges, Writing, history
<1>1. /\ NothingLeft(db') /\ DOMAIN db' = DOMAIN db
      /\ \A table \in {"rows", "claims", "chunks", "findings"} : db'[table] = db[table]
  BY <1>0, LinksOfPageStand DEF WriteEdges
<1>2. /\ run'.pc = "chunks" /\ DOMAIN run' = DOMAIN run
      /\ run'.page = run.page /\ run'.held = run.held
      /\ run'.list = run.list /\ run'.types = run.types
  BY DEF WriteEdges, RunInv, Shape, Resting
<1>3. db'.claims = db.claims /\ db'.chunks = db.chunks /\ db'.rows = db.rows
  BY <1>1
<1>4. db.claims[run.page.uid] = ClaimsOf(run.page.page, run.types)
  BY <1>0 DEF RunInv, PageInv, Writing
<1>5. \A table \in {"claims", "chunks", "findings"} : DOMAIN db'[table] = Uids
  BY <1>1 DEF RunInv, Shape
<1> QED
  BY <1>0, <1>1, <1>2, <1>3, <1>4, <1>5, StatementKeepsInv DEF Writing

LEMMA ChunksKeepInv ==
  ASSUME RunInv, WriteChunks
  PROVE  RunInv'
<1> DEFINE chunks == ChunkBody(run.page.page.body)
<1>0. run.pc = "chunks" /\ run.pc \in Writing /\ UNCHANGED <<vault, quiet, cut>>
  BY DEF WriteChunks, Writing, history
<1>1. run.page.uid \in Documents(db) /\ run.page.uid \in Uids
  BY <1>0 DEF RunInv, PageInv, Owned, Documents
<1>2. db' = ReplaceChunks(db, run.page.uid, chunks) /\ run' = [run EXCEPT !.pc = "findings"]
  BY DEF WriteChunks
<1> HIDE DEF chunks
<1>3. /\ DOMAIN db' = DOMAIN db /\ db'.rows = db.rows /\ db'.claims = db.claims
      /\ db'.findings = db.findings /\ db'.edges = db.edges /\ DOMAIN db'.chunks = Uids
      /\ db'.chunks[run.page.uid] = chunks
      /\ \A u \in Uids \ {run.page.uid} : db'.chunks[u] = db.chunks[u]
  BY <1>1, <1>2 DEF ReplaceChunks, RunInv, Shape, EmptyTables
<1>4. /\ run'.pc = "findings" /\ DOMAIN run' = DOMAIN run
      /\ run'.page = run.page /\ run'.held = run.held
      /\ run'.list = run.list /\ run'.types = run.types
  BY <1>2 DEF RunInv, Shape, Resting
<1>5. NothingLeft(db')
  BY <1>1, <1>3 DEF RunInv, NothingLeft, Documents
<1>6. db.claims[run.page.uid] = ClaimsOf(run.page.page, run.types)
  BY <1>0 DEF RunInv, PageInv, Writing
<1>7. \A table \in {"claims", "chunks", "findings"} : DOMAIN db'[table] = Uids
  BY <1>3 DEF RunInv, Shape
<1> QED
  BY <1>0, <1>3, <1>4, <1>5, <1>6, <1>7, StatementKeepsInv DEF chunks, Writing

\* The last statement of a page makes it whole.
LEMMA FindingsKeepInv ==
  ASSUME RunInv, WriteFindings
  PROVE  RunInv'
<1> DEFINE uid == run.page.uid
<1>0. run.pc = "findings" /\ run.pc \in Writing /\ UNCHANGED <<vault, quiet>> /\ cut' = cut \ {uid}
  BY DEF WriteFindings, Writing
<1>1. uid \in Documents(db) /\ uid \in Uids
  BY <1>0 DEF RunInv, PageInv, Owned, Documents
<1>2. PICK findings : db' = ReplaceFindings(db, uid, findings)
  BY DEF WriteFindings
<1>3. /\ DOMAIN db' = DOMAIN db /\ db'.rows = db.rows /\ db'.claims = db.claims
      /\ db'.chunks = db.chunks /\ db'.edges = db.edges /\ DOMAIN db'.findings = Uids
      /\ \A u \in Uids \ {uid} : db'.findings[u] = db.findings[u]
  BY <1>1, <1>2 DEF ReplaceFindings, RunInv, Shape, EmptyTables
<1>4. run'.pc = "index" /\ DOMAIN run' = DOMAIN run /\ run'.list = run.list
  BY DEF WriteFindings, RunInv, Shape, Resting
<1>5. Shape'
  BY <1>0, <1>3, <1>4 DEF RunInv, Shape
<1>6. NothingLeft(db')
  BY <1>1, <1>3 DEF RunInv, NothingLeft, Documents
<1>7. PageInv'
  BY <1>4 DEF PageInv, Writing
<1>8. TextInv'
  <2>1. Documents(db') = Documents(db)
    BY <1>3 DEF Documents
  <2>2. OneVersion(db, uid)
    BY <1>0, RowIsNoNoRow DEF RunInv, PageInv, OneVersion, Writing
  <2>3. \A u \in Documents(db) \ cut : u # uid => OneVersion(db, u)
    BY DEF RunInv, TextInv
  <2> QED
    BY <1>0, <1>3, <2>1, <2>2, <2>3 DEF TextInv, OneVersion
<1>9. PruneInv'
  BY <1>0, <1>4 DEF RunInv, PruneInv, Complete, Listed
<1> QED
  BY <1>5, <1>6, <1>7, <1>8, <1>9 DEF RunInv

\* The prune, and what of the tables it leaves alone.
LEMMA PrunedTables ==
  ASSUME RunInv, NEW held, NEW keep, db' = DeleteDocumentsNotIn(db, held, keep)
  PROVE  LET dead == {uid \in Owned(db, held) : db.rows[uid].path \notin keep} IN
         /\ DOMAIN db' = DOMAIN db
         /\ \A table \in {"rows", "claims", "chunks", "findings"} : DOMAIN db'[table] = Uids
         /\ \A uid \in dead :
              /\ db'.rows[uid] = NoRow /\ db'.claims[uid] = << >>
              /\ db'.chunks[uid] = << >> /\ db'.findings[uid] = {}
         /\ \A uid \in Uids \ dead :
              /\ db'.rows[uid] = db.rows[uid] /\ db'.claims[uid] = db.claims[uid]
              /\ db'.chunks[uid] = db.chunks[uid] /\ db'.findings[uid] = db.findings[uid]
         /\ \A e \in db'.edges : e \in db.edges /\ e.from \notin dead
         /\ Documents(db') = Documents(db) \ dead
<1> DEFINE dead == {uid \in Owned(db, held) : db.rows[uid].path \notin keep}
<1>1. dead \subseteq Uids
  BY DEF Owned, Documents
<1>2. /\ DOMAIN db' = DOMAIN db
      /\ db'.rows = [uid \in Uids |-> IF uid \in dead THEN NoRow ELSE db.rows[uid]]
      /\ db'.claims = [uid \in Uids |-> IF uid \in dead THEN << >> ELSE db.claims[uid]]
      /\ db'.chunks = [uid \in Uids |-> IF uid \in dead THEN << >> ELSE db.chunks[uid]]
      /\ db'.findings = [uid \in Uids |-> IF uid \in dead THEN {} ELSE db.findings[uid]]
      /\ db'.edges = {e \in db.edges : e.from \notin dead /\ e.to \notin dead}
  BY DEF DeleteDocumentsNotIn, RunInv, Shape, EmptyTables
<1>3. Documents(db') = Documents(db) \ dead
  BY <1>1, <1>2 DEF Documents
<1> HIDE DEF dead
<1> QED
  BY <1>1, <1>2, <1>3 DEF dead

LEMMA PruneKeepsInv ==
  ASSUME RunInv, Prune
  PROVE  RunInv'
<1> DEFINE dead == {uid \in Owned(db, run.held) : db.rows[uid].path \notin run.list}
<1>0. run.pc = "index" /\ UNCHANGED <<vault, quiet>> /\ cut' = cut \cap Documents(db')
  BY DEF Prune
<1>1. db' = DeleteDocumentsNotIn(db, run.held, run.list) /\ run' = [run EXCEPT !.pc = "embed"]
  BY DEF Prune
<1>2. /\ run'.pc = "embed" /\ DOMAIN run' = DOMAIN run /\ run'.list = run.list
      /\ run'.held = run.held
  BY <1>1 DEF RunInv, Shape, Resting
<1>3. /\ DOMAIN db' = DOMAIN db
      /\ \A table \in {"rows", "claims", "chunks", "findings"} : DOMAIN db'[table] = Uids
      /\ \A uid \in dead :
           /\ db'.rows[uid] = NoRow /\ db'.claims[uid] = << >>
           /\ db'.chunks[uid] = << >> /\ db'.findings[uid] = {}
      /\ \A uid \in Uids \ dead :
           /\ db'.rows[uid] = db.rows[uid] /\ db'.claims[uid] = db.claims[uid]
           /\ db'.chunks[uid] = db.chunks[uid] /\ db'.findings[uid] = db.findings[uid]
      /\ \A e \in db'.edges : e \in db.edges /\ e.from \notin dead
      /\ Documents(db') = Documents(db) \ dead
  BY <1>1, PrunedTables
<1>4. \A uid \in Owned(db', run.held) :
        uid \in Uids \ dead /\ uid \in Owned(db, run.held) /\ db'.rows[uid] = db.rows[uid]
  BY <1>3 DEF Owned, Documents
<1>5. Shape'
  BY <1>0, <1>2, <1>3 DEF RunInv, Shape
<1>6. NothingLeft(db')
  <2> HIDE DEF dead
  <2> QED
    BY <1>3 DEF RunInv, NothingLeft
<1>7. PageInv'
  BY <1>2 DEF PageInv, Writing
<1>8. TextInv'
  <2> SUFFICES ASSUME NEW u \in Documents(db') \ cut' PROVE OneVersion(db', u)
    BY DEF TextInv
  <2> HIDE DEF dead
  <2>1. u \in Documents(db) \ cut /\ u \in Uids \ dead
    BY <1>0, <1>3 DEF Documents
  <2>2. OneVersion(db, u)
    BY <1>0, <2>1 DEF RunInv, TextInv, Writing
  <2> QED
    BY <1>3, <2>1, <2>2 DEF OneVersion
<1>9. PruneInv'
  BY <1>0, <1>2, <1>4 DEF RunInv, PruneInv, Complete, Listed
<1> QED
  BY <1>5, <1>6, <1>7, <1>8, <1>9 DEF RunInv

\* The one way a run is done.
LEMMA EmbedKeepsInv ==
  ASSUME RunInv, Embed
  PROVE  RunInv'
<1>0. run.pc = "embed" /\ UNCHANGED <<vault, quiet, cut>>
  BY DEF Embed
<1>1. /\ DOMAIN db' = DOMAIN db /\ db'.rows = db.rows /\ db'.claims = db.claims
      /\ db'.chunks = db.chunks /\ db'.findings = db.findings /\ db'.edges = db.edges
  BY DEF Embed, RunInv, Shape, EmptyTables
<1>2. run'.pc = "idle" /\ run'.held = run.held /\ DOMAIN run' = DOMAIN Resting
  BY DEF Embed, Ended, Resting
<1>3. Shape' /\ NothingLeft(db')
  BY <1>0, <1>1, <1>2 DEF RunInv, Shape, NothingLeft, Documents
<1>4. PageInv' /\ TextInv'
  BY <1>0, <1>1, <1>2 DEF RunInv, PageInv, TextInv, Documents, OneVersion, Writing
<1>5. Owned(db', run'.held) = Owned(db, run.held)
  BY <1>1, <1>2 DEF Owned, Documents
<1>6. PruneInv'
  BY <1>0, <1>1, <1>2, <1>5 DEF RunInv, PruneInv, Complete, Listed
<1> QED
  BY <1>3, <1>4, <1>6 DEF RunInv

LEMMA FailKeepsInv ==
  ASSUME RunInv, Fail
  PROVE  RunInv'
<1>0. /\ Ended("stopped") /\ UNCHANGED <<vault, quiet>>
      /\ cut' = IF run.pc \in Writing THEN cut \cup {run.page.uid} ELSE cut
  BY DEF Fail
<1>1. CASE run.pc = "edges"
  <2>1. /\ NothingLeft(db') /\ DOMAIN db' = DOMAIN db
        /\ \A table \in {"rows", "claims", "chunks", "findings"} : db'[table] = db[table]
    BY <1>1, LinksOfPageStand DEF Fail, Writing
  <2> QED
    BY <1>0, <2>1, StopKeepsInv
<1>2. CASE run.pc # "edges"
  BY <1>0, <1>2, EndKeepsInv DEF Fail
<1> QED
  BY <1>1, <1>2

-------------------------------------------------------------------------------

LEMMA EnvironmentSteps ==
  ASSUME RunInv,
         \/ \E path \in DOMAIN Drafts : Save(path)
         \/ EditTypes \/ ImportReads \/ ImportWrites \/ ImportFails \/ Rescope
  PROVE  RunInv'
<1>1. UNCHANGED <<db, run, outcome, cut>> /\ DOMAIN vault' = DOMAIN vault
  BY DEF Save, Edit, EditTypes, ImportReads, ImportWrites, ImportFails, Rescope, history
<1>2. quiet' = FALSE \/ (quiet' = quiet /\ vault' = vault)
  BY DEF Save, Edit, EditTypes, ImportReads, ImportWrites, ImportFails, Rescope, history
<1> QED
  BY <1>1, <1>2, EnvironmentKeepsInv

LEMMA StepsKeepInv == RunInv /\ [Next]_vars => RunInv'
<1> SUFFICES ASSUME RunInv, [Next]_vars PROVE RunInv'
  OBVIOUS
<1>1. CASE \/ \E path \in DOMAIN Drafts : Save(path)
           \/ EditTypes \/ ImportReads \/ ImportWrites \/ ImportFails \/ Rescope
  BY <1>1, EnvironmentSteps
<1>2. CASE StartCommand \/ StartAfterAccept
  BY <1>2, BeginKeepsInv DEF StartCommand, StartAfterAccept
<1>3. CASE RunStep
  BY <1>3, PassesKeepInv, DocumentKeepsInv, ClaimsKeepInv, EdgesKeepInv, ChunksKeepInv,
     FindingsKeepInv, PruneKeepsInv, EmbedKeepsInv DEF RunStep
<1>4. CASE Fail
  BY <1>4, FailKeepsInv
<1>5. CASE UNCHANGED vars
  BY <1>5 DEF vars, history, RunInv, Shape, PageInv, TextInv, PruneInv, Complete, Listed,
     Owned, Documents, OneVersion
<1> QED
  BY <1>1, <1>2, <1>3, <1>4, <1>5 DEF Next

\* What every state of a reindex is like, whatever is saved, imported or fails.
THEOREM RunHolds == Spec => []RunInv
<1> QED
  BY InitInv, StepsKeepInv, PTL DEF Spec

\* cli.go:239: a removed page leaves no row in a held scope after a complete run,
\* and no link, text or finding of a document that is not there, ever.
THEOREM RemovedLeaveNothing == Spec => []NothingOfTheRemoved
<1>1. RunInv => NothingOfTheRemoved
  BY DEF RunInv, PruneInv, NothingOfTheRemoved
<1> QED
  BY <1>1, RunHolds, PTL

\* pipeline.go: between two pages a document's claims and chunks are those of
\* the content its row names, but for documents a failure cut short.
THEOREM TextStaysTogether == Spec => []TextTogether
<1>1. RunInv => TextTogether
  BY DEF RunInv, TextInv, TextTogether
<1> QED
  BY <1>1, RunHolds, PTL

\* queries.go (assertOwned, UpsertDocument, DeleteDocumentsNotIn): no statement of
\* a run touches a document of a scope the run does not hold.
LEMMA StepsSpareForeignRows ==
  ASSUME RunInv, [Next]_vars, NEW uid \in Documents(db),
         run.pc # "idle", db.rows[uid].scope \notin run.held
  PROVE  db'.rows[uid] = db.rows[uid] /\ db'.claims[uid] = db.claims[uid]
<1>0. uid \in Uids /\ uid \notin Owned(db, run.held)
  BY DEF Documents, Owned
<1>1. run.pc \in Writing => run.page.uid # uid
  BY <1>0 DEF RunInv, PageInv
<1>2. CASE WriteDocument
  <2>1. UpsertOutcome(db, run.held, run.page.uid, RowOf(run.page.path, run.page.page, run.types)) = "ok"
          => run.page.uid # uid
    BY <1>0 DEF UpsertOutcome
  <2> QED
    BY <1>0, <1>2, <2>1 DEF WriteDocument, UpsertDocument, RunInv, Shape, EmptyTables
<1>3. CASE WriteClaims
  BY <1>0, <1>1, <1>3 DEF WriteClaims, ReplaceClaims, RunInv, Shape, EmptyTables, Writing
<1>4. CASE WriteEdges \/ Fail
  <2>1. CASE db' = db
    BY <2>1
  <2>2. CASE \E written \in SUBSET EdgesOf(run.page.page, run.page.uid, PageScope, run.index) :
               db' = UpsertEdges(db, written) /\ run.pc = "edges"
    <3>1. \A table \in {"rows", "claims", "chunks", "findings"} : db'[table] = db[table]
      BY <2>2, LinksOfPageStand DEF Writing
    <3> QED
      BY <3>1
  <2> QED
    BY <1>4, <2>1, <2>2 DEF WriteEdges, Fail
<1>5. CASE WriteChunks \/ WriteFindings
  BY <1>5 DEF WriteChunks, WriteFindings, ReplaceChunks, ReplaceFindings, RunInv, Shape, EmptyTables
<1>6. CASE Prune
  BY <1>0, <1>6, PrunedTables DEF Prune
<1>7. CASE Embed
  BY <1>7 DEF Embed, RunInv, Shape, EmptyTables
<1>8. CASE IndexPage
  <2>1. \/ db' = db
        \/ \E globals : db' = [db EXCEPT !.globals = globals]
    BY <1>8 DEF IndexPage, UpsertGlobalFinding, ResolveGlobalFindings
  <2> QED
    BY <2>1 DEF RunInv, Shape, EmptyTables
<1>9. CASE db' = db
  BY <1>9
<1> QED
  BY <1>2, <1>3, <1>4, <1>5, <1>6, <1>7, <1>8, <1>9
     DEF Next, RunStep, Save, Edit, EditTypes, ImportReads, ImportWrites, ImportFails, Rescope,
         StartCommand, StartAfterAccept, Begin, WalkPage, BeginIndexing, vars, history

\* queries.go: a run keeps out of the scopes it does not hold, even when a page it
\* walks carries the uid of a document in one of them.
THEOREM ScopesAreKept == Spec => ForeignRowsUntouched
<1>1. RunInv /\ [Next]_vars =>
        [\A uid \in Documents(db) :
           run.pc # "idle" /\ db.rows[uid].scope \notin run.held =>
             db'.rows[uid] = db.rows[uid] /\ db'.claims[uid] = db.claims[uid]]_vars
  BY StepsSpareForeignRows
<1> QED
  BY <1>1, RunHolds, PTL DEF Spec, ForeignRowsUntouched

-------------------------------------------------------------------------------
(* The steps, by what they do to the tables and to the run's record. *)

RunKeeps ==
  /\ run'.list = run.list /\ run'.types = run.types /\ run'.held = run.held
  /\ UNCHANGED <<vault, import, types, served, quiet, fresh, outcome>>

SameDocuments ==
  /\ db'.rows = db.rows /\ db'.claims = db.claims /\ db'.chunks = db.chunks
  /\ db'.findings = db.findings /\ db'.edges = db.edges

\* A statement of the page that is under way, and the next one's place.
Statement(at, next) ==
  /\ run.pc = at /\ run'.pc = next /\ run'.todo = run.todo /\ run'.page = run.page
  /\ run'.index = run.index /\ RunKeeps /\ cut' = cut
  /\ db'.globals = db.globals

OthersKeep(table) == \A uid \in Uids \ {run.page.uid} : db'[table][uid] = db[table][uid]

Outside ==
  /\ UNCHANGED <<db, run, outcome, cut, fresh>>
  /\ served' \in {served, ScopesOpened}
  /\ quiet' = FALSE \/ UNCHANGED <<vault, types, quiet>>

Begins ==
  /\ run.pc = "idle" /\ run'.pc = "walk"
  /\ run'.list = Listed /\ run'.todo = Listed /\ run'.types = types
  /\ run'.held \in {ScopesOpened, served} /\ run'.index = EmptyIndex
  /\ quiet' = TRUE /\ fresh' = (Documents(db) = {}) /\ outcome' = "none"
  /\ UNCHANGED <<vault, import, types, db, served, cut>>

\* A run ends before it is done; of the links of the page some may be written.
Stops ==
  /\ run.pc # "idle" /\ run'.pc = "idle" /\ outcome' \in {"failed", "stopped"}
  /\ run'.held = run.held /\ run'.index = EmptyIndex
  /\ UNCHANGED <<vault, import, types, served, quiet, fresh>>
  /\ cut' = IF run.pc \in Writing THEN cut \cup {run.page.uid} ELSE cut
  /\ db'.rows = db.rows /\ db'.claims = db.claims /\ db'.chunks = db.chunks
  /\ db'.findings = db.findings /\ db'.globals = db.globals
  /\ \/ db'.edges = db.edges
     \/ /\ run.pc = "edges"
        /\ \E written \in SUBSET EdgesOf(run.page.page, run.page.uid, PageScope, run.index) :
             db'.edges \subseteq db.edges \cup written

Walks1(path) ==
  /\ run.pc = "walk" /\ run'.pc = "walk" /\ path \in run.todo /\ vault[path] # NoPage
  /\ run'.todo = run.todo \ {path} /\ run'.index = Walked(run.index, path, vault[path])
  /\ RunKeeps /\ UNCHANGED <<db, cut>>

Turns ==
  /\ run.pc = "walk" /\ run.todo = {} /\ run'.pc = "index" /\ run'.todo = run.list
  /\ run'.index = run.index /\ RunKeeps /\ UNCHANGED <<db, cut>>

\* The next page, and the scopes it is looked up in.
Looks(path) ==
  /\ run.pc = "index" /\ IsNext(path) /\ vault[path] # NoPage
  /\ run'.index = run.index /\ RunKeeps /\ SameDocuments /\ cut' = cut

Unparsed(path) ==
  /\ Looks(path) /\ ~ vault[path].ok
  /\ run'.pc = "index" /\ run'.todo = run.todo \ {path}
  /\ db'.globals = IF path.scope \in run.held
                   THEN db.globals \cup {[path |-> path, scope |-> path.scope]}
                   ELSE db.globals

Found(path) ==
  GetPage(db, run.held, ScopeOf(path, vault[path]), SlugOf(path, vault[path]))

Recovered(path) ==
  /\ Looks(path) /\ vault[path].ok
  /\ db'.globals = IF ScopeOf(path, vault[path]) \in run.held
                   THEN {f \in db.globals : f.path # path \/ f.scope \notin run.held}
                   ELSE db.globals

PassesOver(path) ==
  /\ Recovered(path)
  /\ run'.pc = "index" /\ run'.todo = run.todo \ {path}
  /\ Found(path) # None
  /\ db.rows[Found(path)].version = vault[path] /\ db.rows[Found(path)].print = run.types

TakesUp(path) ==
  LET uid == ResolveUID(vault[path], Found(path), db) IN
  /\ Recovered(path)
  /\ run'.pc = "document" /\ run'.todo = run.todo
  /\ uid \in Uids
  /\ run'.page = [path |-> path, page |-> vault[path], uid |-> uid]
  /\ ~ IsNoop(IF Found(path) = None THEN NoRow ELSE db.rows[Found(path)], vault[path], run.types)

PageRow == RowOf(run.page.path, run.page.page, run.types)

WritesRow ==
  /\ Statement("document", "claims")
  /\ UpsertOutcome(db, run.held, run.page.uid, PageRow) = "ok"
  /\ db'.rows[run.page.uid] = PageRow /\ OthersKeep("rows")
  /\ db'.claims = db.claims /\ db'.chunks = db.chunks
  /\ db'.findings = db.findings /\ db'.edges = db.edges

WritesClaims ==
  /\ Statement("claims", "edges")
  /\ db'.rows = db.rows /\ db'.chunks = db.chunks
  /\ db'.findings = db.findings /\ db'.edges = db.edges

PageEdges == EdgesOf(run.page.page, run.page.uid, PageScope, run.index)

WritesEdges ==
  /\ Statement("edges", "chunks")
  /\ PageEdges \subseteq db'.edges /\ db'.edges \subseteq db.edges \cup PageEdges
  /\ \A e \in db.edges : e.from # run.page.uid => e \in db'.edges
  /\ db'.rows = db.rows /\ db'.claims = db.claims /\ db'.chunks = db.chunks
  /\ db'.findings = db.findings

WritesChunks ==
  /\ Statement("chunks", "findings")
  /\ db'.rows = db.rows /\ db'.claims = db.claims
  /\ db'.findings = db.findings /\ db'.edges = db.edges

WritesFindings ==
  /\ run.pc = "findings" /\ run'.pc = "index" /\ run'.todo = run.todo \ {run.page.path}
  /\ run'.index = run.index /\ RunKeeps /\ cut' = cut \ {run.page.uid}
  /\ db'.findings[run.page.uid] =
       FindingsOf(run.page.page, run.types) \cup RefFindingsOf(run.page.page, PageScope, run.index)
  /\ OthersKeep("findings")
  /\ db'.rows = db.rows /\ db'.claims = db.claims /\ db'.chunks = db.chunks
  /\ db'.edges = db.edges /\ db'.globals = db.globals

Dead == {uid \in Owned(db, run.held) : db.rows[uid].path \notin run.list}

Prunes ==
  /\ run.pc = "index" /\ run.todo = {} /\ run'.pc = "embed" /\ run'.todo = {}
  /\ run'.index = run.index /\ RunKeeps /\ cut' = cut \cap Documents(db')
  /\ \A uid \in Dead : db'.rows[uid] = NoRow
  /\ \A uid \in Uids \ Dead :
       db'.rows[uid] = db.rows[uid] /\ db'.findings[uid] = db.findings[uid]
  /\ db'.edges = {e \in db.edges : e.from \notin Dead /\ e.to \notin Dead}
  /\ Documents(db') = Documents(db) \ Dead
  /\ db'.globals = db.globals

Finishes ==
  /\ run.pc = "embed" /\ run'.pc = "idle" /\ outcome' = "done"
  /\ run'.held = run.held /\ run'.index = EmptyIndex
  /\ UNCHANGED <<vault, import, types, served, quiet, fresh, cut>>
  /\ SameDocuments /\ db'.globals = db.globals

\* The steps are these.
StepCase ==
  \/ Outside \/ Begins \/ Stops
  \/ \E path \in run.todo : Walks1(path) \/ Unparsed(path) \/ PassesOver(path) \/ TakesUp(path)
  \/ Turns
  \/ WritesRow \/ WritesClaims \/ WritesEdges \/ WritesChunks \/ WritesFindings
  \/ Prunes \/ Finishes

LEMMA EndsStop ==
  ASSUME RunInv, NEW how \in {"failed", "stopped"}, Ended(how), run.pc # "idle",
         UNCHANGED <<vault, import, types, served, quiet, fresh>>,
         cut' = IF run.pc \in Writing THEN cut \cup {run.page.uid} ELSE cut,
         \/ UNCHANGED db
         \/ /\ run.pc = "edges"
            /\ \E written \in SUBSET EdgesOf(run.page.page, run.page.uid, PageScope, run.index) :
                 db' = UpsertEdges(db, written)
  PROVE  Stops
<1>1. /\ run'.pc = "idle" /\ run'.held = run.held /\ run'.index = EmptyIndex /\ outcome' = how
  BY DEF Ended, Resting
<1>2. CASE UNCHANGED db
  BY <1>1, <1>2 DEF Stops
<1>3. CASE /\ run.pc = "edges"
           /\ \E written \in SUBSET EdgesOf(run.page.page, run.page.uid, PageScope, run.index) :
                db' = UpsertEdges(db, written)
  <2>1. PICK written \in SUBSET EdgesOf(run.page.page, run.page.uid, PageScope, run.index) :
          db' = UpsertEdges(db, written)
    BY <1>3
  <2>2. /\ db'.rows = db.rows /\ db'.claims = db.claims /\ db'.chunks = db.chunks
        /\ db'.findings = db.findings /\ db'.globals = db.globals
        /\ db'.edges \subseteq db.edges \cup written
    BY <2>1 DEF UpsertEdges, RunInv, Shape, EmptyTables
  <2> QED
    BY <1>1, <1>3, <2>2 DEF Stops
<1> QED
  BY <1>2, <1>3

LEMMA OutsideCases ==
  ASSUME \/ \E path \in DOMAIN Drafts : Save(path)
         \/ EditTypes \/ ImportReads \/ ImportWrites \/ ImportFails \/ Rescope
         \/ UNCHANGED vars
  PROVE  Outside
BY DEF Outside, Save, Edit, EditTypes, ImportReads, ImportWrites, ImportFails, Rescope, vars, history

LEMMA BeginCases ==
  ASSUME StartCommand \/ StartAfterAccept
  PROVE  Begins
<1>1. PICK held \in {ScopesOpened, served} : \E embeds \in BOOLEAN : Begin(held, embeds)
  BY DEF StartCommand, StartAfterAccept
<1>2. /\ run'.pc = "walk" /\ run'.list = Listed /\ run'.todo = Listed /\ run'.types = types
      /\ run'.held = held /\ run'.index = EmptyIndex
  BY <1>1 DEF Begin, Resting
<1> QED
  BY <1>1, <1>2 DEF Begin, Begins

LEMMA WalkCases ==
  ASSUME RunInv, WalkPage \/ BeginIndexing
  PROVE  StepCase
<1>1. CASE WalkPage
  <2>0. run.pc = "walk" /\ UNCHANGED <<vault, import, types, served, db, quiet, fresh, cut>>
    BY <1>1 DEF WalkPage, history
  <2>1. CASE Ended("failed")
    BY <2>0, <2>1, EndsStop DEF StepCase, Writing
  <2>2. CASE \E path \in run.todo :
               /\ vault[path] # NoPage /\ UNCHANGED outcome
               /\ run' = [run EXCEPT !.todo = @ \ {path}, !.index = Walked(@, path, vault[path]),
                                     !.scopeOf = Noted(@, path, vault[path])]
    <3>1. PICK path \in run.todo :
               /\ vault[path] # NoPage /\ UNCHANGED outcome
               /\ run' = [run EXCEPT !.todo = @ \ {path}, !.index = Walked(@, path, vault[path]),
                                     !.scopeOf = Noted(@, path, vault[path])]
      BY <2>2
    <3>2. /\ run'.pc = "walk" /\ run'.todo = run.todo \ {path}
          /\ run'.index = Walked(run.index, path, vault[path])
          /\ run'.list = run.list /\ run'.types = run.types /\ run'.held = run.held
      BY <2>0, <3>1 DEF RunInv, Shape, Resting
    <3>3. Walks1(path)
      BY <2>0, <3>1, <3>2 DEF Walks1, RunKeeps
    <3> QED
      BY <3>3 DEF StepCase
  <2> QED
    BY <1>1, <2>1, <2>2 DEF WalkPage
<1>2. CASE BeginIndexing
  <2>1. /\ run'.pc = "index" /\ run'.todo = run.list /\ run'.index = run.index
        /\ run'.list = run.list /\ run'.types = run.types /\ run'.held = run.held
    BY <1>2 DEF BeginIndexing, RunInv, Shape, Resting
  <2>2. Turns
    BY <1>2, <2>1 DEF BeginIndexing, Turns, RunKeeps, history
  <2> QED
    BY <2>2 DEF StepCase
<1> QED
  BY <1>1, <1>2

LEMMA IndexPageCases ==
  ASSUME RunInv, IndexPage
  PROVE  StepCase
<1>0. run.pc = "index" /\ UNCHANGED <<vault, import, types, served, quiet, fresh, cut>>
  BY DEF IndexPage, history
<1>1. PICK path \in run.todo :
        LET page     == vault[path]
            scope    == ScopeOf(path, page)
            existing == GetPage(db, run.held, scope, SlugOf(path, page))
            uid      == ResolveUID(page, existing, db)
            row      == IF existing = None THEN NoRow ELSE db.rows[existing]
        IN /\ IsNext(path)
           /\ \/ page = NoPage /\ Ended("failed") /\ UNCHANGED db
              \/ /\ page # NoPage /\ ~ page.ok
                 /\ db' = UpsertGlobalFinding(db, run.held, [path |-> path, scope |-> path.scope])
                 /\ run' = [run EXCEPT !.todo = @ \ {path}]
                 /\ UNCHANGED outcome
              \/ /\ page # NoPage /\ page.ok
                 /\ db' = ResolveGlobalFindings(db, run.held, scope, path)
                 /\ IF IsNoop(row, page, run.types)
                    THEN run' = [run EXCEPT !.todo = @ \ {path}]
                    ELSE /\ uid \in Uids
                         /\ run' = [run EXCEPT !.pc = "document",
                                         !.page = [path |-> path, page |-> page, uid |-> uid]]
                 /\ UNCHANGED outcome
  BY DEF IndexPage
<1> DEFINE page == vault[path]
           uid  == ResolveUID(page, Found(path), db)
           row  == IF Found(path) = None THEN NoRow ELSE db.rows[Found(path)]
<1>2. CASE page = NoPage /\ Ended("failed") /\ UNCHANGED db
  BY <1>0, <1>2, EndsStop DEF StepCase, Writing
<1>3. CASE /\ page # NoPage /\ ~ page.ok
           /\ db' = UpsertGlobalFinding(db, run.held, [path |-> path, scope |-> path.scope])
           /\ run' = [run EXCEPT !.todo = @ \ {path}]
           /\ UNCHANGED outcome
  <2>1. /\ SameDocuments
        /\ db'.globals = IF path.scope \in run.held
                         THEN db.globals \cup {[path |-> path, scope |-> path.scope]}
                         ELSE db.globals
    BY <1>3 DEF UpsertGlobalFinding, SameDocuments, RunInv, Shape, EmptyTables
  <2>2. /\ run'.pc = "index" /\ run'.todo = run.todo \ {path} /\ run'.index = run.index
        /\ run'.list = run.list /\ run'.types = run.types /\ run'.held = run.held
    BY <1>0, <1>3 DEF RunInv, Shape, Resting
  <2>3. Unparsed(path)
    BY <1>0, <1>1, <1>3, <2>1, <2>2 DEF Unparsed, Looks, RunKeeps
  <2> QED
    BY <2>3 DEF StepCase
<1>4. CASE /\ page # NoPage /\ page.ok
           /\ db' = ResolveGlobalFindings(db, run.held, ScopeOf(path, page), path)
           /\ IF IsNoop(row, page, run.types)
              THEN run' = [run EXCEPT !.todo = @ \ {path}]
              ELSE /\ uid \in Uids
                   /\ run' = [run EXCEPT !.pc = "document",
                                   !.page = [path |-> path, page |-> page, uid |-> uid]]
           /\ UNCHANGED outcome
  <2> HIDE DEF uid, row
  <2>1. /\ SameDocuments
        /\ db'.globals = IF ScopeOf(path, page) \in run.held
                         THEN {f \in db.globals : f.path # path \/ f.scope \notin run.held}
                         ELSE db.globals
    BY <1>4 DEF ResolveGlobalFindings, SameDocuments, RunInv, Shape, EmptyTables
  <2>2. /\ run'.index = run.index /\ run'.list = run.list /\ run'.types = run.types
        /\ run'.held = run.held
    BY <1>4 DEF RunInv, Shape, Resting
  <2>3. Recovered(path)
    BY <1>0, <1>1, <1>4, <2>1, <2>2 DEF Recovered, Looks, RunKeeps
  <2>4. CASE IsNoop(row, page, run.types)
    <3>1. run'.pc = "index" /\ run'.todo = run.todo \ {path}
      BY <1>0, <1>4, <2>4 DEF RunInv, Shape, Resting
    <3>2. Found(path) # None /\ db.rows[Found(path)].version = page
            /\ db.rows[Found(path)].print = run.types
      BY <2>4 DEF IsNoop, row
    <3>3. PassesOver(path)
      BY <2>3, <3>1, <3>2 DEF PassesOver
    <3> QED
      BY <3>3 DEF StepCase
  <2>5. CASE ~ IsNoop(row, page, run.types)
    <3>1. /\ run'.pc = "document" /\ run'.todo = run.todo
          /\ run'.page = [path |-> path, page |-> page, uid |-> uid] /\ uid \in Uids
      BY <1>0, <1>4, <2>5 DEF RunInv, Shape, Resting
    <3>2. TakesUp(path)
      BY <2>3, <2>5, <3>1 DEF TakesUp, uid, row
    <3> QED
      BY <3>2 DEF StepCase
  <2> QED
    BY <2>4, <2>5
<1> QED
  BY <1>1, <1>2, <1>3, <1>4 DEF Found

LEMMA StatementCases ==
  ASSUME RunInv, WriteDocument \/ WriteClaims \/ WriteEdges \/ WriteChunks \/ WriteFindings
  PROVE  StepCase
<1> DEFINE uid == run.page.uid
<1>1. CASE WriteDocument
  <2>0. /\ run.pc = "document" /\ uid \in Uids
        /\ UNCHANGED <<vault, import, types, served, quiet, fresh, cut>>
    BY <1>1 DEF WriteDocument, history, RunInv, PageInv
  <2>1. CASE Ended("failed") /\ UNCHANGED db
    BY <2>0, <2>1, EndsStop DEF StepCase, Writing
  <2>2. CASE /\ UpsertOutcome(db, run.held, uid, PageRow) = "ok"
             /\ db' = UpsertDocument(db, uid, PageRow)
             /\ run' = [run EXCEPT !.pc = "claims"] /\ UNCHANGED outcome
    <3>1. /\ db'.rows[uid] = PageRow /\ OthersKeep("rows")
          /\ db'.claims = db.claims /\ db'.chunks = db.chunks
          /\ db'.findings = db.findings /\ db'.edges = db.edges /\ db'.globals = db.globals
      BY <2>0, <2>2 DEF UpsertDocument, OthersKeep, RunInv, Shape, EmptyTables
    <3>2. /\ run'.pc = "claims" /\ run'.todo = run.todo /\ run'.page = run.page
          /\ run'.index = run.index
          /\ run'.list = run.list /\ run'.types = run.types /\ run'.held = run.held
      BY <2>2 DEF RunInv, Shape, Resting
    <3>3. WritesRow
      BY <2>0, <2>2, <3>1, <3>2 DEF WritesRow, Statement, RunKeeps
    <3> QED
      BY <3>3 DEF StepCase
  <2> QED
    BY <1>1, <2>1, <2>2 DEF WriteDocument, PageRow
<1>2. CASE WriteClaims
  <2>0. /\ run.pc = "claims" /\ UNCHANGED <<vault, import, types, served, quiet, fresh>>
    BY <1>2 DEF WriteClaims
  <2>1. CASE Ended("failed") /\ cut' = cut \cup {uid} /\ UNCHANGED db
    BY <2>0, <2>1, EndsStop DEF StepCase, Writing
  <2>2. CASE \E claims : /\ db' = ReplaceClaims(db, uid, claims)
                         /\ run' = [run EXCEPT !.pc = "edges"]
                         /\ UNCHANGED <<outcome, cut>>
    <3>1. /\ db'.rows = db.rows /\ db'.chunks = db.chunks
          /\ db'.findings = db.findings /\ db'.edges = db.edges /\ db'.globals = db.globals
      BY <2>2 DEF ReplaceClaims, RunInv, Shape, EmptyTables
    <3>2. /\ run'.pc = "edges" /\ run'.todo = run.todo /\ run'.page = run.page
          /\ run'.index = run.index
          /\ run'.list = run.list /\ run'.types = run.types /\ run'.held = run.held
      BY <2>2 DEF RunInv, Shape, Resting
    <3>3. WritesClaims
      BY <2>0, <2>2, <3>1, <3>2 DEF WritesClaims, Statement, RunKeeps
    <3> QED
      BY <3>3 DEF StepCase
  <2> QED
    BY <1>2, <2>1, <2>2 DEF WriteClaims
<1>3. CASE WriteEdges
  <2>1. /\ run.pc = "edges" /\ UNCHANGED <<vault, import, types, served, quiet, fresh, cut, outcome>>
        /\ db' = UpsertEdges(db, PageEdges) /\ run' = [run EXCEPT !.pc = "chunks"]
    BY <1>3 DEF WriteEdges, history, PageEdges
  <2>2. \A e \in PageEdges : e.from = uid
    BY DEF PageEdges, EdgesOf
  <2> HIDE DEF uid
  <2>3. /\ db'.rows = db.rows /\ db'.claims = db.claims /\ db'.chunks = db.chunks
        /\ db'.findings = db.findings /\ db'.globals = db.globals
        /\ PageEdges \subseteq db'.edges /\ db'.edges \subseteq db.edges \cup PageEdges
        /\ \A e \in db.edges : e.from # uid => e \in db'.edges
    BY <2>1, <2>2 DEF UpsertEdges, RunInv, Shape, EmptyTables
  <2>4. /\ run'.pc = "chunks" /\ run'.todo = run.todo /\ run'.page = run.page
        /\ run'.index = run.index
        /\ run'.list = run.list /\ run'.types = run.types /\ run'.held = run.held
    BY <2>1 DEF RunInv, Shape, Resting
  <2>5. WritesEdges
    BY <2>1, <2>3, <2>4 DEF WritesEdges, Statement, RunKeeps, uid
  <2> QED
    BY <2>5 DEF StepCase
<1>4. CASE WriteChunks
  <2>1. PICK chunks :
          /\ run.pc = "chunks"
          /\ UNCHANGED <<vault, import, types, served, quiet, fresh, cut, outcome>>
          /\ db' = ReplaceChunks(db, uid, chunks) /\ run' = [run EXCEPT !.pc = "findings"]
    BY <1>4 DEF WriteChunks, history
  <2>2. /\ db'.rows = db.rows /\ db'.claims = db.claims
        /\ db'.findings = db.findings /\ db'.edges = db.edges /\ db'.globals = db.globals
    BY <2>1 DEF ReplaceChunks, RunInv, Shape, EmptyTables
  <2>3. /\ run'.pc = "findings" /\ run'.todo = run.todo /\ run'.page = run.page
        /\ run'.index = run.index
        /\ run'.list = run.list /\ run'.types = run.types /\ run'.held = run.held
    BY <2>1 DEF RunInv, Shape, Resting
  <2>4. WritesChunks
    BY <2>1, <2>2, <2>3 DEF WritesChunks, Statement, RunKeeps
  <2> QED
    BY <2>4 DEF StepCase
<1>5. CASE WriteFindings
  <2> DEFINE raised == FindingsOf(run.page.page, run.types)
                         \cup RefFindingsOf(run.page.page, PageScope, run.index)
  <2>0. /\ run.pc = "findings" /\ db' = ReplaceFindings(db, uid, raised) /\ cut' = cut \ {uid}
        /\ UNCHANGED <<vault, import, types, served, quiet, fresh, outcome>>
    BY <1>5 DEF WriteFindings
  <2>1. uid \in Uids
    BY <2>0 DEF RunInv, PageInv, Owned, Documents, Writing
  <2> HIDE DEF raised
  <2>2. /\ db'.rows = db.rows /\ db'.claims = db.claims /\ db'.chunks = db.chunks
        /\ db'.edges = db.edges /\ db'.globals = db.globals
        /\ db'.findings[uid] = raised /\ OthersKeep("findings")
    BY <2>0, <2>1 DEF ReplaceFindings, OthersKeep, RunInv, Shape, EmptyTables
  <2>3. /\ run'.pc = "index" /\ run'.todo = run.todo \ {run.page.path}
        /\ run'.index = run.index
        /\ run'.list = run.list /\ run'.types = run.types /\ run'.held = run.held
    BY <1>5 DEF WriteFindings, RunInv, Shape, Resting
  <2>4. WritesFindings
    BY <2>0, <2>2, <2>3 DEF WritesFindings, RunKeeps, raised
  <2> QED
    BY <2>4 DEF StepCase
<1> QED
  BY <1>1, <1>2, <1>3, <1>4, <1>5

LEMMA LastCases ==
  ASSUME RunInv, Prune \/ Embed \/ Fail
  PROVE  StepCase
<1>1. CASE Prune
  <2>1. /\ run.pc = "index" /\ run.todo = {} /\ cut' = cut \cap Documents(db')
        /\ db' = DeleteDocumentsNotIn(db, run.held, run.list)
        /\ run' = [run EXCEPT !.pc = "embed"]
        /\ UNCHANGED <<vault, import, types, served, quiet, fresh, outcome>>
    BY <1>1 DEF Prune
  <2>2. /\ \A uid \in Dead : db'.rows[uid] = NoRow
        /\ \A uid \in Uids \ Dead :
             db'.rows[uid] = db.rows[uid] /\ db'.findings[uid] = db.findings[uid]
        /\ Documents(db') = Documents(db) \ Dead
    BY <2>1, PrunedTables DEF Dead
  <2>3. /\ db'.edges = {e \in db.edges : e.from \notin Dead /\ e.to \notin Dead}
        /\ db'.globals = db.globals
    BY <2>1 DEF DeleteDocumentsNotIn, Dead, RunInv, Shape, EmptyTables
  <2>4. /\ run'.pc = "embed" /\ run'.todo = {} /\ run'.index = run.index
        /\ run'.list = run.list /\ run'.types = run.types /\ run'.held = run.held
    BY <2>1 DEF RunInv, Shape, Resting
  <2>5. Prunes
    BY <2>1, <2>2, <2>3, <2>4 DEF Prunes, RunKeeps
  <2> QED
    BY <2>5 DEF StepCase
<1>2. CASE Embed
  <2>1. SameDocuments /\ db'.globals = db.globals
    BY <1>2 DEF Embed, SameDocuments, RunInv, Shape, EmptyTables
  <2>2. /\ run'.pc = "idle" /\ run'.held = run.held /\ run'.index = EmptyIndex
        /\ outcome' = "done"
    BY <1>2 DEF Embed, Ended, Resting
  <2>3. Finishes
    BY <1>2, <2>1, <2>2 DEF Embed, Finishes
  <2> QED
    BY <2>3 DEF StepCase
<1>3. CASE Fail
  <2>1. Stops
    BY <1>3, EndsStop DEF Fail
  <2> QED
    BY <2>1 DEF StepCase
<1> QED
  BY <1>1, <1>2, <1>3

LEMMA EveryStep == ASSUME RunInv, [Next]_vars PROVE StepCase
<1>1. CASE \/ \E path \in DOMAIN Drafts : Save(path)
           \/ EditTypes \/ ImportReads \/ ImportWrites \/ ImportFails \/ Rescope
           \/ UNCHANGED vars
  BY <1>1, OutsideCases DEF StepCase
<1>2. CASE StartCommand \/ StartAfterAccept
  BY <1>2, BeginCases DEF StepCase
<1>3. CASE RunStep \/ Fail
  BY <1>3, WalkCases, IndexPageCases, StatementCases, LastCases DEF RunStep
<1> QED
  BY <1>1, <1>2, <1>3 DEF Next

-------------------------------------------------------------------------------
(* What a run knows of the vault, and the tables of it. *)

\* The vault holds pages, no uid of which the indexer mints.
VaultInv ==
  /\ DOMAIN vault = DOMAIN Drafts /\ DOMAIN import = DOMAIN NoImport
  /\ \A p \in Listed : IsPage(vault[p]) /\ vault[p].uid \notin Minted
  /\ \A change \in import.todo :
       /\ change.path \in DOMAIN Drafts
       /\ change.page # NoPage => IsPage(change.page) /\ change.page.uid \notin Minted
  /\ types \in Types

UnderWay == {"document"} \cup Writing

\* The paths the second pass is done with.
Passed == IF run.pc = "walk" THEN {} ELSE run.list \ run.todo

\* Where a run stands: while nothing is saved, what it read is what there is.
WayInv ==
  /\ run.pc \in {"idle", "walk", "index", "embed"} \cup UnderWay
  /\ outcome \in {"none", "done", "failed", "stopped"}
  /\ served \subseteq Scopes
  /\ cut \subseteq Documents(db)
  /\ run.pc # "idle" =>
       /\ run.held \subseteq Scopes /\ run.types \in Types
       /\ run.todo \subseteq run.list /\ run.list \subseteq DOMAIN Drafts
       /\ quiet => run.types = types
  /\ run.pc = "embed" => run.todo = {}
  /\ run.pc \in UnderWay =>
       /\ run.page.path \in run.todo
       /\ IsPage(run.page.page) /\ run.page.page.ok
       /\ run.page.page.uid \in {run.page.uid, None}
       /\ quiet => vault[run.page.path] = run.page.page

\* The names of the first pass.
IndexStands(index) ==
  /\ index.slugs \in [Scopes \X Names -> Uids \cup {None}]
  /\ \A a \in index.aliases : a.uid \in Uids

\* The documents that no run has left halfway have findings of their version.
VerdictInv ==
  \A uid \in Documents(db) \ cut :
    (run.pc \in Writing => uid # run.page.uid) => OneVerdict(db, uid)

Record(path) == [path |-> path, scope |-> path.scope]

OnRecord(path) == (vault[path].ok = FALSE) <=> Record(path) \in db.globals

\* A page passed over or written is on record if it does not parse, and only then.
RecordInv ==
  /\ run.pc # "idle" /\ quiet =>
       \A p \in Passed : p.scope \in run.held => OnRecord(p)
  /\ run.pc \in UnderWay =>
       ({run.page.path.scope, PageScope} \subseteq run.held => Record(run.page.path) \notin db.globals)
  /\ Complete => \A p \in Listed : p.scope \in run.held => OnRecord(p)

\* A row of what the page at its path says now was made under the limits of now.
PrintsAre(path, limits) ==
  \A uid \in RowsAt(path) : db.rows[uid].version = vault[path] => db.rows[uid].print = limits

PrintInv ==
  /\ run.pc # "idle" /\ quiet => \A p \in Passed \cap Parsed : PrintsAre(p, run.types)
  /\ Complete => \A p \in Parsed : PrintsAre(p, types)

WalkInv ==
  VaultInv /\ WayInv /\ RowsStand(db) /\ EdgesStand(db) /\ IndexStands(run.index)
    /\ VerdictInv /\ RecordInv /\ PrintInv

\* (scope, slug) of a page.
Slot(path) == <<ScopeOf(path, vault[path]), SlugOf(path, vault[path])>>

NamesOf(p) == {SlugOf(p, vault[p])} \cup vault[p].aliases

\* No page has the content and the slot of a row of another path, as one that was
\* moved with its frontmatter has.
NoneMoved ==
  \A uid \in Documents(db), p \in Parsed :
    LET row == db.rows[uid] IN
    row.version = vault[p] /\ <<row.scope, row.slug>> = Slot(p) => row.path = p

\* No page carries the uid of the row of an earlier page that carries none.
NoneTaken ==
  \A p \in Parsed, q \in Parsed : \A uid \in RowsAt(p) :
    /\ Distinct /\ p # q /\ Walks(p, q)
    /\ vault[p].uid = None /\ db.rows[uid].version = vault[p]
    => vault[q].uid # uid

\* The page has its row.
IsIndexed(path, limits) == \E uid \in RowsAt(path) : db.rows[uid] = RowOf(path, vault[path], limits)

\* The second pass takes the pages in their order.
OrderInv ==
  /\ \A p \in Passed, q \in run.todo : run.pc # "idle" => Walks(p, q)
  /\ run.pc \in UnderWay => IsNext(run.page.path)

\* A run that is not disturbed has indexed the pages it has passed.
IndexedInv ==
  /\ run.pc # "idle" /\ quiet /\ Distinct =>
       \A p \in Passed \cap Parsed : IsIndexed(p, run.types)
  /\ EveryPageIsIndexed

\* What the pass registers of a page.
NamedBy(p) ==
  {[scope |-> ScopeOf(p, vault[p]), name |-> n, uid |-> vault[p].uid] : n \in NamesOf(p)}

\* The pages the first pass has registered.
Registered ==
  {p \in (IF run.pc = "walk" THEN run.list \ run.todo ELSE run.list) :
     vault[p] # NoPage /\ vault[p].ok /\ vault[p].uid # None}

\* Of pages that are distinct the first pass knows those it has seen, whatever
\* their order.
IndexInv ==
  run.pc # "idle" /\ quiet /\ Distinct =>
    /\ \A p \in Registered : NamedBy(p) \subseteq run.index.aliases
    /\ \A a \in run.index.aliases : \E p \in Registered : a \in NamedBy(p)
    /\ \A scope \in Scopes, n \in Names :
         run.index.slugs[<<scope, n>>] =
           Single({vault[p].uid : p \in {q \in Registered : Slot(q) = <<scope, n>>}})

\* A run from no document, over pages that are distinct.
FreshRun == quiet /\ fresh /\ Distinct /\ (run.pc # "idle" \/ Complete)

Done == IF run.pc = "idle" THEN Listed ELSE Passed

\* A page that carries no uid was given a new one.
IsUidOf(uid, p) == vault[p].uid = uid \/ (vault[p].uid = None /\ uid \in Minted)

IsRowOf(uid, p) ==
  p \in Parsed /\ db.rows[uid] = RowOf(p, vault[p], types) /\ IsUidOf(uid, p)

\* The links and the lost references on record, and those the page has.
LinksOf(uid) == {<<e.ref, e.field, e.to>> : e \in {f \in db.edges : f.from = uid}}
LinksIn(p) ==
  {<<l.ref, l.field, Target(l.ref, ScopeOf(p, vault[p]))>> : l \in vault[p].links}

LostOf(uid) == {f.detail : f \in {g \in db.findings[uid] : g.rule = "dangling_ref"}}
LostIn(p) == {l.ref : l \in {k \in vault[p].links : Target(k.ref, ScopeOf(p, vault[p])) = None}}

\* Every document is one of a page the run has passed, or of the page under way.
FreshInv ==
  FreshRun =>
    /\ cut = {}
    /\ \A uid \in Documents(db) :
         LET p == db.rows[uid].path IN
         /\ IsRowOf(uid, p)
         /\ \/ run.pc \in Writing /\ uid = run.page.uid
            \/ p \in Done /\ LinksOf(uid) = LinksIn(p) /\ LostOf(uid) = LostIn(p)
    /\ \A p \in Done \cap Parsed : RowsAt(p) # {}
    /\ run.pc \in UnderWay => IsUidOf(run.page.uid, run.page.path)
    /\ run.pc = "document" => run.page.uid \notin Documents(db)
    /\ run.pc \in {"document", "claims", "edges"} => \A e \in db.edges : e.from # run.page.uid
    /\ run.pc \in {"chunks", "findings"} => LinksOf(run.page.uid) = LinksIn(run.page.path)

-------------------------------------------------------------------------------
(* References, and what they resolve to. *)

LEMMA SingleIsIn ==
  ASSUME NEW S
  PROVE  Single(S) \in S \cup {None}
<1>1. CASE S = {}
  BY <1>1, FS_EmptySet DEF Single
<1>2. CASE S # {}
  BY <1>2 DEF Single
<1> QED
  BY <1>1, <1>2

LEMMA SingleOfOne ==
  /\ Single({}) = None
  /\ \A x : Single({x}) = x
<1>1. Single({}) = None
  BY FS_EmptySet DEF Single
<1>2. \A x : Single({x}) = x
  BY FS_Singleton DEF Single
<1> QED
  BY <1>1, <1>2

\* The first rung that names a page says which.
LEMMA ResolveIsTheFirst ==
  ASSUME NEW ref, NEW scope, NEW index
  PROVE  /\ Resolve(ref, scope, index).uid =
              OrDefault(index.slugs[<<scope, ref>>],
                OrDefault(LookupExact(index, ref, scope),
                  OrDefault(index.slugs[<<scope, Normal[ref]>>],
                    LookupNormalised(index, ref, scope))))
         /\ Resolve(ref, scope, index).rung # None
<1> DEFINE own    == index.slugs[<<scope, ref>>]
           exact  == LookupExact(index, ref, scope)
           folded == index.slugs[<<scope, Normal[ref]>>]
           like   == LookupNormalised(index, ref, scope)
           rungs  == <<[uid |-> own, rung |-> "slug"], [uid |-> exact, rung |-> "alias"],
                       [uid |-> folded, rung |-> "normalised"], [uid |-> like, rung |-> "normalised"]>>
           hits   == {k \in DOMAIN rungs : rungs[k].uid # None}
           first  == CHOOSE k \in hits : \A j \in hits : k <= j
           found  == Resolve(ref, scope, index)
<1>0. found = IF hits = {} THEN [uid |-> None, rung |-> "dangling"] ELSE rungs[first]
  BY DEF Resolve
<1> HIDE DEF own, exact, folded, like, found
<1>1. /\ DOMAIN rungs = 1 .. 4
      /\ rungs[1].uid = own /\ rungs[2].uid = exact
      /\ rungs[3].uid = folded /\ rungs[4].uid = like
      /\ \A k \in 1 .. 4 : rungs[k].rung \in {"slug", "alias", "normalised"}
  OBVIOUS
<1> HIDE DEF rungs
<1>2. ASSUME NEW k \in hits, \A j \in hits : k <= j
      PROVE  first = k
  <2>1. first \in hits /\ \A j \in hits : first <= j
    BY <1>2
  <2>2. first \in 1 .. 4 /\ k \in 1 .. 4 /\ first <= k /\ k <= first
    BY <1>1, <1>2, <2>1
  <2> HIDE DEF first
  <2> QED
    BY <2>2
<1>3. found.rung # None
  <2>1. CASE hits = {}
    BY <1>0, <2>1, NoneIsApart
  <2>2. CASE hits # {}
    <3>1. PICK k \in hits : \A j \in hits : k <= j
      <4>1. CASE 1 \in hits
        BY <1>1, <4>1
      <4>2. CASE 1 \notin hits /\ 2 \in hits
        BY <1>1, <4>2
      <4>3. CASE 1 \notin hits /\ 2 \notin hits /\ 3 \in hits
        BY <1>1, <4>3
      <4>4. CASE 1 \notin hits /\ 2 \notin hits /\ 3 \notin hits
        BY <1>1, <2>2, <4>4
      <4> QED
        BY <4>1, <4>2, <4>3, <4>4
    <3>2. first = k /\ k \in 1 .. 4
      BY <1>1, <1>2, <3>1
    <3> HIDE DEF first
    <3> QED
      BY <1>0, <1>1, <2>2, <3>2, NoneIsApart
  <2> QED
    BY <2>1, <2>2
<1>4. found.uid = OrDefault(own, OrDefault(exact, OrDefault(folded, like)))
  <2>1. CASE own # None
    <3>1. 1 \in hits /\ first = 1
      BY <1>1, <1>2, <2>1
    <3> QED
      BY <1>0, <1>1, <2>1, <3>1 DEF OrDefault
  <2>2. CASE own = None /\ exact # None
    <3>1. 2 \in hits /\ first = 2
      BY <1>1, <1>2, <2>2
    <3> QED
      BY <1>0, <1>1, <2>2, <3>1 DEF OrDefault
  <2>3. CASE own = None /\ exact = None /\ folded # None
    <3>1. 3 \in hits /\ first = 3
      BY <1>1, <1>2, <2>3
    <3> QED
      BY <1>0, <1>1, <2>3, <3>1 DEF OrDefault
  <2>4. CASE own = None /\ exact = None /\ folded = None /\ like # None
    <3>1. 4 \in hits /\ first = 4
      BY <1>1, <1>2, <2>4
    <3> QED
      BY <1>0, <1>1, <2>4, <3>1 DEF OrDefault
  <2>5. CASE own = None /\ exact = None /\ folded = None /\ like = None
    <3>1. hits = {}
      BY <1>1, <2>5
    <3> QED
      BY <1>0, <2>5, <3>1 DEF OrDefault
  <2> QED
    BY <2>1, <2>2, <2>3, <2>4, <2>5
<1> QED
  BY <1>3, <1>4 DEF own, exact, folded, like, found

LEMMA ResolvesToUids ==
  ASSUME NEW index, IndexStands(index), NEW ref \in Names, NEW scope \in Scopes
  PROVE  Resolve(ref, scope, index).uid \in Uids \cup {None}
<1> DEFINE named  == {a.uid : a \in {b \in index.aliases : b.scope = scope /\ b.name = ref}}
           folded == {a.uid : a \in {b \in index.aliases :
                                      b.scope = scope /\ Normal[b.name] = Normal[ref]}}
<1>1. named \subseteq Uids /\ folded \subseteq Uids
  BY DEF IndexStands
<1>2. LookupExact(index, ref, scope) = Single(named)
      /\ LookupNormalised(index, ref, scope) = Single(folded)
  BY DEF LookupExact, LookupNormalised
<1> HIDE DEF named, folded
<1>3. Single(named) \in Uids \cup {None} /\ Single(folded) \in Uids \cup {None}
  BY <1>1, SingleIsIn
<1>4. Normal[ref] \in Names
  BY NormalFolds
<1>5. index.slugs[<<scope, ref>>] \in Uids \cup {None}
      /\ index.slugs[<<scope, Normal[ref]>>] \in Uids \cup {None}
  BY <1>4 DEF IndexStands
<1> QED
  BY <1>2, <1>3, <1>5, ResolveIsTheFirst DEF OrDefault

-------------------------------------------------------------------------------
(* The vault holds pages. *)

LEMMA LastOfIsFound ==
  ASSUME NEW found
  PROVE  LastOf(found) \in found \cup {NoPrior}
BY DEF LastOf

LEMMA ScopeForIsAScope ==
  ASSUME NEW tenants \in TenantSets, NEW facets
  PROVE  ScopeFor(facets, tenants) \in Scopes
<1> DEFINE scopes == {TenantScope[t] : t \in facets \cap tenants}
           Rank(s) == CHOOSE k \in DOMAIN ScopeOrder : ScopeOrder[k] = s
           first == {s \in scopes : \A other \in scopes : Rank(s) <= Rank(other)}
<1>1. ScopeFor(facets, tenants) = IF first = {} THEN WorkScope ELSE CHOOSE s \in first : TRUE
  BY DEF ScopeFor
<1>2. WorkScope \in Scopes /\ \A t \in tenants : TenantScope[t] \in Scopes
  BY CorporaAreSound
<1>3. first \subseteq scopes /\ scopes \subseteq Scopes
  BY <1>2
<1> HIDE DEF first, scopes
<1> QED
  BY <1>1, <1>2, <1>3

\* What a file becomes: a page of the vault, of the uid of the file it was found
\* as or of a new one.
LEMMA PlansStand ==
  ASSUME VaultInv, NEW corpus \in Corpora, NEW tenants \in TenantSets, NEW file \in corpus,
         NEW fresh0 \in Imported,
         NEW plan, plan = Plan(file, tenants, VaultIndex(vault), fresh0)
  PROVE  /\ plan.path \in DOMAIN Drafts
         /\ IsPage(plan.page) /\ plan.page.uid \notin Minted
         /\ plan.page.uid \in Uids /\ plan.page.ok
         /\ plan.page.slug = file.slug /\ plan.page.source = file.name
         /\ plan.path.name = file.slug
         /\ plan.prior = NoPrior \/
              /\ plan.prior.path \in Listed
              /\ plan.prior = Identity(plan.prior.path, vault[plan.prior.path])
         /\ plan.page.uid = IF plan.prior.uid = None THEN fresh0 ELSE plan.prior.uid
<1> DEFINE scope == ScopeFor(file.facets, tenants)
           prior == Find(VaultIndex(vault), file.name, scope, file.slug)
           uid   == IF prior.uid = None THEN fresh0 ELSE prior.uid
<1>1. scope \in Scopes
  BY ScopeForIsAScope
<1>2. prior \in VaultIndex(vault) \cup {NoPrior}
  BY LastOfIsFound DEF Find
<1>3. plan.path = [scope |-> scope, name |-> file.slug] /\ plan.prior = prior
        /\ plan.page = Convert(file, tenants, uid)
  BY DEF Plan
<1>4. /\ plan.page.ok = TRUE /\ plan.page.uid = uid /\ plan.page.slug = file.slug
      /\ plan.page.scope = scope /\ plan.page.source = file.name
      /\ plan.page.aliases = file.aliases /\ plan.page.links = file.links
      /\ plan.page.body = file.body
      /\ plan.page.flags \subseteq {"multi_customer", "missing_classification"}
  BY <1>3 DEF Convert
<1> HIDE DEF scope, prior
<1>5. plan.path \in DOMAIN Drafts /\ file.slug \in Names
        /\ file.aliases \subseteq Names
        /\ file.links \subseteq [ref : Names, kind : {"link", "about"}, field : {"", "about"}]
  <2>1. [scope |-> scope, name |-> file.slug] \in DOMAIN Drafts
    BY <1>1, CorporaAreSound
  <2>2. [scope |-> scope, name |-> file.slug].name \in Names
    BY <2>1, VaultsAreSound
  <2> QED
    BY <1>3, <2>1, <2>2, CorporaAreSound
<1>6. \/ prior = NoPrior
      \/ prior.path \in Listed /\ prior = Identity(prior.path, vault[prior.path])
  BY <1>2 DEF VaultIndex, Listed, Identity
<1>7. uid \in Uids /\ uid \notin Minted
  <2>1. CASE prior.uid = None
    BY <2>1, MintedIsApart, VaultsAreSound
  <2>2. CASE prior.uid # None
    <3>1. prior # NoPrior
      BY <2>2 DEF NoPrior
    <3>2. prior.path \in Listed /\ prior.uid = vault[prior.path].uid
      BY <1>6, <2>2, <3>1 DEF Identity
    <3> QED
      BY <2>2, <3>2 DEF VaultInv, IsPage
  <2> QED
    BY <2>1, <2>2
<1> HIDE DEF uid
<1>8. IsPage(plan.page)
  BY <1>1, <1>4, <1>5, <1>7, CorporaAreSound DEF IsPage
<1>9. plan.path.name = file.slug
  BY <1>3
<1>10. plan.page.uid = IF plan.prior.uid = None THEN fresh0 ELSE plan.prior.uid
  BY <1>3, <1>4 DEF uid
<1> QED
  BY <1>3, <1>4, <1>5, <1>6, <1>7, <1>8, <1>9, <1>10

\* What a reading of the corpus leaves to do.
LEMMA ImportPlans ==
  ASSUME VaultInv, ImportReads
  PROVE  \E corpus \in Corpora, tenants \in TenantSets :
         \E new \in [corpus -> Imported \ ({vault[p].uid : p \in Listed} \cup Documents(db))] :
           LET plans == {Plan(file, tenants, VaultIndex(vault), new[file]) : file \in corpus}
           IN /\ ~ SlugsCollide(corpus)
              /\ import' = [todo |-> StageChanges(plans), edits |-> edits']
<1>1. PICK corpus \in Corpora, tenants \in TenantSets :
        LET news  == Injection(corpus, Imported \ ({vault[p].uid : p \in Listed} \cup Documents(db)))
            new   == CHOOSE f \in news : TRUE
            plans == {Plan(file, tenants, VaultIndex(vault), new[file]) : file \in corpus}
        IN /\ ~ SlugsCollide(corpus) /\ news # {}
           /\ import' = [todo |-> StageChanges(plans), edits |-> edits']
  BY DEF ImportReads
<1> DEFINE news == Injection(corpus, Imported \ ({vault[p].uid : p \in Listed} \cup Documents(db)))
           new  == CHOOSE f \in news : TRUE
<1>2. new \in [corpus -> Imported \ ({vault[p].uid : p \in Listed} \cup Documents(db))]
  <2>1. new \in news
    BY <1>1
  <2> QED
    BY <2>1 DEF Injection
<1> QED
  BY <1>1, <1>2

LEMMA VaultInitially == Init => VaultInv
<1> SUFFICES ASSUME Init PROVE VaultInv
  OBVIOUS
<1>1. \A p \in Listed : vault[p] \in Drafts[p] /\ p \in DOMAIN Drafts
  BY VaultsAreSound DEF Init, Listed
<1> QED
  BY <1>1, VaultsAreSound, MintedIsApart DEF Init, VaultInv, NoImport

LEMMA VaultStands ==
  ASSUME RunInv, VaultInv, [Next]_vars
  PROVE  VaultInv'
<1>1. CASE \E path \in DOMAIN Drafts : Save(path)
  <2>1. PICK path \in DOMAIN Drafts : Save(path)
    BY <1>1
  <2>2. PICK page \in Drafts[path] \cup {NoPage} : vault' = [vault EXCEPT ![path] = page]
    BY <2>1 DEF Save
  <2>3. /\ UNCHANGED <<import, types>> /\ DOMAIN vault' = DOMAIN Drafts
        /\ \A p \in Listed' : (p \in Listed /\ vault'[p] = vault[p]) \/ vault'[p] \in Drafts[p]
    BY <2>1, <2>2 DEF Save, VaultInv, Listed
  <2> QED
    BY <2>3, VaultsAreSound, MintedIsApart DEF VaultInv, Listed
<1>2. CASE ImportReads
  <2>1. PICK corpus \in Corpora, tenants \in TenantSets :
         \E new \in [corpus -> Imported \ ({vault[p].uid : p \in Listed} \cup Documents(db))] :
           import' = [todo |-> StageChanges({Plan(file, tenants, VaultIndex(vault), new[file]) :
                                                file \in corpus}), edits |-> edits']
    BY <1>2, ImportPlans
  <2>2. PICK new \in [corpus -> Imported] :
           import' = [todo |-> StageChanges({Plan(file, tenants, VaultIndex(vault), new[file]) :
                                                file \in corpus}), edits |-> edits']
    BY <2>1
  <2> DEFINE plans == {Plan(file, tenants, VaultIndex(vault), new[file]) : file \in corpus}
  <2>3. ASSUME NEW plan \in plans
        PROVE  /\ plan.path \in DOMAIN Drafts
               /\ IsPage(plan.page) /\ plan.page.uid \notin Minted
               /\ plan.prior = NoPrior \/ plan.prior.path \in Listed
    BY PlansStand
  <2> HIDE DEF plans
  <2>4. ASSUME NEW change \in import'.todo
        PROVE  /\ change.path \in DOMAIN Drafts
               /\ change.page # NoPage => IsPage(change.page) /\ change.page.uid \notin Minted
    <3>1. import'.todo = StageChanges(plans)
      BY <2>2 DEF plans
    <3>2. \/ \E plan \in plans : change = [path |-> plan.path, page |-> plan.page]
          \/ \E plan \in plans : Supersedes(plan) /\ change = [path |-> plan.prior.path, page |-> NoPage]
      BY <3>1 DEF StageChanges
    <3>3. \A plan \in plans : Supersedes(plan) => plan.prior.path \in DOMAIN Drafts
      BY <2>3 DEF Supersedes, NoPrior, Listed, VaultInv
    <3> QED
      BY <2>3, <3>2, <3>3
  <2>5. UNCHANGED <<vault, types>> /\ DOMAIN import' = DOMAIN NoImport
    BY <1>2, <2>2 DEF ImportReads, NoImport
  <2> QED
    BY <2>4, <2>5 DEF VaultInv, Listed
<1>3. CASE ImportWrites
  <2>1. PICK change \in Due(import.todo) :
          /\ vault' = [vault EXCEPT ![change.path] = change.page]
          /\ import' = [import EXCEPT !.todo = @ \ {change}]
    BY <1>3 DEF ImportWrites
  <2>2. change \in import.todo
    BY DEF Due
  <2>3. /\ DOMAIN vault' = DOMAIN Drafts /\ types' = types
        /\ \A p \in Listed' : (p \in Listed /\ vault'[p] = vault[p]) \/ vault'[p] = change.page
    BY <1>3, <2>1, <2>2 DEF ImportWrites, VaultInv, Listed
  <2>4. import'.todo \subseteq import.todo /\ DOMAIN import' = DOMAIN import
    <3>1. "todo" \in DOMAIN import
      BY DEF VaultInv, NoImport
    <3> QED
      BY <2>1, <3>1
  <2> QED
    BY <2>2, <2>3, <2>4 DEF VaultInv, Listed
<1>4. CASE ImportFails
  BY <1>4 DEF ImportFails, VaultInv, NoImport, Listed
<1>5. CASE EditTypes
  BY <1>5 DEF EditTypes, VaultInv, Listed
<1>6. CASE UNCHANGED <<vault, import, types>>
  BY <1>6 DEF VaultInv, Listed
<1> QED
  BY <1>1, <1>2, <1>3, <1>4, <1>5, <1>6
     DEF Next, RunStep, Rescope, StartCommand, StartAfterAccept, Begin, WalkPage, BeginIndexing,
         IndexPage, WriteDocument, WriteClaims, WriteEdges, WriteChunks, WriteFindings, Prune,
         Embed, Fail, vars

-------------------------------------------------------------------------------
(* The rows, the links and the names they are found by. *)

LEMMA PagesHaveAPlace ==
  ASSUME NEW path \in DOMAIN Drafts, NEW page, IsPage(page)
  PROVE  ScopeOf(path, page) \in Scopes /\ SlugOf(path, page) \in Names
BY VaultsAreSound DEF IsPage, ScopeOf, SlugOf, OrDefault

LEMMA ListedArePaths ==
  ASSUME VaultInv
  PROVE  Listed \subseteq DOMAIN Drafts /\ \A p \in Listed : vault[p] # NoPage /\ IsPage(vault[p])
BY DEF VaultInv, Listed

LEMMA OpenedAreScopes ==
  ASSUME VaultInv, RowsStand(db)
  PROVE  ScopesOpened \subseteq Scopes
BY VaultsAreSound DEF VaultInv, RowsStand, ScopesOpened, ScopesFound, Listed

LEMMA WayInitially == Init => WayInv
<1> SUFFICES ASSUME Init PROVE WayInv
  OBVIOUS
<1>1. ScopesOpened \subseteq Scopes
  BY VaultInitially, OpenedAreScopes, TablesAreSound DEF Init
<1>2. run.pc = "idle"
  BY DEF Init, Resting
<1> QED
  BY <1>1, <1>2 DEF Init, WayInv, UnderWay, Writing

LEMMA WayStands ==
  ASSUME RunInv, VaultInv, RowsStand(db), WayInv, StepCase
  PROVE  WayInv'
<1>0. /\ ScopesOpened \subseteq Scopes
      /\ Listed \subseteq DOMAIN Drafts /\ \A p \in Listed : IsPage(vault[p])
      /\ types \in Types
  BY OpenedAreScopes, ListedArePaths DEF VaultInv
<1>1. CASE Outside
  BY <1>0, <1>1 DEF Outside, WayInv, Documents
<1>2. CASE Begins
  <2>1. cut' \subseteq Documents(db')
    BY <1>2 DEF Begins, WayInv
  <2> QED
    BY <1>0, <1>2, <2>1 DEF Begins, WayInv, UnderWay, Writing
<1>3. CASE Stops
  <2>1. cut' \subseteq Documents(db')
    BY <1>3 DEF Stops, WayInv, RunInv, PageInv, Owned, Documents
  <2> QED
    BY <1>3, <2>1 DEF Stops, WayInv, UnderWay, Writing
<1>4. CASE \E path \in run.todo : Walks1(path)
  BY <1>4 DEF Walks1, RunKeeps, WayInv, UnderWay, Writing
<1>5. CASE Turns
  BY <1>5 DEF Turns, RunKeeps, WayInv, UnderWay, Writing
<1>6. CASE \E path \in run.todo : Unparsed(path) \/ PassesOver(path)
  <2>1. Documents(db') = Documents(db)
    BY <1>6 DEF Unparsed, PassesOver, Recovered, Looks, SameDocuments, Documents
  <2> QED
    BY <1>6, <2>1 DEF Unparsed, PassesOver, Recovered, Looks, RunKeeps, WayInv, UnderWay, Writing
<1>7. CASE \E path \in run.todo : TakesUp(path)
  <2>1. PICK path \in run.todo : TakesUp(path)
    BY <1>7
  <2>2. Documents(db') = Documents(db)
    BY <2>1 DEF TakesUp, Recovered, Looks, SameDocuments, Documents
  <2>3. path \in DOMAIN Drafts /\ vault[path] # NoPage /\ run.pc = "index"
    BY <2>1 DEF TakesUp, Recovered, Looks, WayInv
  <2>4. path \in Listed
    BY <2>3 DEF Listed, VaultInv
  <2>5. IsPage(vault[path]) /\ vault[path].ok
    BY <1>0, <2>1, <2>4 DEF TakesUp, Recovered
  <2>6. run'.page.path = path /\ run'.page.page = vault[path] /\ run'.todo = run.todo
        /\ run'.pc = "document" /\ vault' = vault
        /\ run'.page.page.uid \in {run'.page.uid, None}
    BY <2>1 DEF TakesUp, Recovered, Looks, RunKeeps, ResolveUID
  <2> QED
    BY <2>1, <2>2, <2>3, <2>5, <2>6
       DEF TakesUp, Recovered, Looks, RunKeeps, WayInv, UnderWay, Writing
<1>8. CASE WritesRow
  <2>1. cut' \subseteq Documents(db')
    <3>1. \A uid \in Documents(db) : uid \in Documents(db')
      BY <1>8, RowIsNoNoRow DEF WritesRow, OthersKeep, PageRow, Documents
    <3> QED
      BY <1>8, <3>1 DEF WritesRow, Statement, WayInv
  <2> QED
    BY <1>8, <2>1 DEF WritesRow, Statement, RunKeeps, WayInv, UnderWay, Writing
<1>9. CASE WritesClaims \/ WritesEdges \/ WritesChunks
  <2>1. Documents(db') = Documents(db)
    BY <1>9 DEF WritesClaims, WritesEdges, WritesChunks, Documents
  <2> QED
    BY <1>9, <2>1 DEF WritesClaims, WritesEdges, WritesChunks, Statement, RunKeeps, WayInv,
         UnderWay, Writing
<1>10. CASE WritesFindings
  <2>1. Documents(db') = Documents(db)
    BY <1>10 DEF WritesFindings, Documents
  <2> QED
    BY <1>10, <2>1 DEF WritesFindings, RunKeeps, WayInv, UnderWay, Writing
<1>11. CASE Prunes
  BY <1>11 DEF Prunes, RunKeeps, WayInv, UnderWay, Writing
<1>12. CASE Finishes
  <2>1. Documents(db') = Documents(db)
    BY <1>12 DEF Finishes, SameDocuments, Documents
  <2> QED
    BY <1>12, <2>1 DEF Finishes, WayInv, UnderWay, Writing
<1> QED
  BY <1>1, <1>2, <1>3, <1>4, <1>5, <1>6, <1>7, <1>8, <1>9, <1>10, <1>11, <1>12 DEF StepCase

\* Only the first statement of a page and the prune touch a row.
RowsAlone ==
  db'.rows = db.rows \/ WritesRow \/ Prunes

LEMMA RowsAreLeft == ASSUME StepCase PROVE RowsAlone
BY DEF StepCase, RowsAlone, Outside, Begins, Stops, Walks1, Turns, Unparsed, PassesOver, TakesUp,
     Recovered, Looks, SameDocuments, WritesClaims, WritesEdges, WritesChunks, WritesFindings,
     Finishes

\* ... or a link.
LinksAlone == db'.edges = db.edges \/ Stops \/ WritesEdges \/ Prunes

LEMMA LinksAreLeft == ASSUME StepCase PROVE LinksAlone
BY DEF StepCase, LinksAlone, Outside, Begins, Walks1, Turns, Unparsed, PassesOver, TakesUp,
     Recovered, Looks, SameDocuments, WritesRow, WritesClaims, WritesChunks, WritesFindings,
     Finishes

\* ... or a finding.
FindingsAlone == db'.findings = db.findings \/ WritesFindings \/ Prunes

LEMMA FindingsAreLeft == ASSUME StepCase PROVE FindingsAlone
BY DEF StepCase, FindingsAlone, Outside, Begins, Stops, Walks1, Turns, Unparsed, PassesOver,
     TakesUp, Recovered, Looks, SameDocuments, WritesRow, WritesClaims, WritesEdges, WritesChunks,
     Finishes

LEMMA RowsStandOn ==
  ASSUME RunInv, VaultInv, WayInv, RowsStand(db), StepCase
  PROVE  RowsStand(db')
<1>1. CASE db'.rows = db.rows
  BY <1>1 DEF RowsStand, Documents
<1>2. CASE WritesRow
  <2> DEFINE uid == run.page.uid
  <2>1. /\ uid \in Uids /\ UpsertOutcome(db, run.held, uid, PageRow) = "ok"
        /\ db'.rows[uid] = PageRow /\ \A u \in Uids \ {uid} : db'.rows[u] = db.rows[u]
    BY <1>2 DEF WritesRow, Statement, OthersKeep, RunInv, PageInv
  <2>2. \A other \in Documents(db) \ {uid} :
          ~ (db.rows[other].scope = PageRow.scope /\ db.rows[other].slug = PageRow.slug)
    BY <2>1 DEF UpsertOutcome
  <2>3. /\ PageRow.scope \in Scopes /\ PageRow = RowOf(PageRow.path, PageRow.version, PageRow.print)
        /\ PageRow.version.uid \in {uid, None}
    <3>1. run.page.path \in DOMAIN Drafts /\ IsPage(run.page.page) /\ run.page.page.uid \in {uid, None}
      BY <1>2 DEF WritesRow, Statement, WayInv, UnderWay
    <3> QED
      BY <3>1, PagesHaveAPlace DEF PageRow, RowOf
  <2>4. Documents(db') \subseteq Documents(db) \cup {uid}
    BY <2>1 DEF Documents
  <2> HIDE DEF uid
  <2> QED
    BY <2>1, <2>2, <2>3, <2>4 DEF RowsStand, Documents
<1>3. CASE Prunes
  <2>1. Documents(db') \subseteq Documents(db) /\ \A uid \in Documents(db') : db'.rows[uid] = db.rows[uid]
    BY <1>3 DEF Prunes, Documents
  <2> QED
    BY <2>1 DEF RowsStand
<1> QED
  BY <1>1, <1>2, <1>3, RowsAreLeft DEF RowsAlone

LEMMA PageEdgesStand ==
  ASSUME RunInv, WayInv, IndexStands(run.index), run.pc \in Writing
  PROVE  PageEdges \subseteq [from : Uids, to : Uids \cup {None}, ref : Names,
                              kind : {"dangling", "link", "about"}, field : {"", "about"}]
<1>1. /\ run.page.uid \in Uids /\ IsPage(run.page.page) /\ run.page.path \in DOMAIN Drafts
  BY DEF RunInv, PageInv, Owned, Documents, WayInv, UnderWay, Writing
<1>2. PageScope \in Scopes
  BY <1>1, PagesHaveAPlace DEF PageScope
<1>3. \A link \in run.page.page.links :
        /\ link.ref \in Names /\ link.kind \in {"link", "about"} /\ link.field \in {"", "about"}
        /\ Resolve(link.ref, PageScope, run.index).uid \in Uids \cup {None}
  BY <1>1, <1>2, ResolvesToUids DEF IsPage
<1> DEFINE Edge(link) ==
             LET found == Resolve(link.ref, PageScope, run.index).uid IN
             [from |-> run.page.uid, to |-> found, ref |-> link.ref,
              kind |-> IF found = None THEN "dangling" ELSE link.kind, field |-> link.field]
<1>4. PageEdges = {Edge(link) : link \in run.page.page.links}
  BY DEF PageEdges, EdgesOf
<1>5. \A link \in run.page.page.links :
        Edge(link) \in [from : Uids, to : Uids \cup {None}, ref : Names,
                        kind : {"dangling", "link", "about"}, field : {"", "about"}]
  <2> SUFFICES ASSUME NEW link \in run.page.page.links
               PROVE  Edge(link) \in [from : Uids, to : Uids \cup {None}, ref : Names,
                                      kind : {"dangling", "link", "about"}, field : {"", "about"}]
    OBVIOUS
  <2> DEFINE found == Resolve(link.ref, PageScope, run.index).uid
             kind  == IF found = None THEN "dangling" ELSE link.kind
             edge  == Edge(link)
  <2>1. edge = [from |-> run.page.uid, to |-> found, ref |-> link.ref,
                kind |-> kind, field |-> link.field]
    OBVIOUS
  <2>2. found \in Uids \cup {None} /\ kind \in {"dangling", "link", "about"}
    BY <1>3
  <2> HIDE DEF found, kind, edge
  <2>3. edge \in [from : Uids, to : Uids \cup {None}, ref : Names,
                  kind : {"dangling", "link", "about"}, field : {"", "about"}]
    BY <1>1, <1>3, <2>1, <2>2
  <2> QED
    BY <2>3 DEF edge
<1> HIDE DEF Edge
<1> QED
  BY <1>4, <1>5

LEMMA EdgesStandOn ==
  ASSUME RunInv, WayInv, IndexStands(run.index), EdgesStand(db), StepCase
  PROVE  EdgesStand(db')
<1>1. CASE db'.edges \subseteq db.edges
  BY <1>1 DEF EdgesStand
<1>2. CASE run.pc \in Writing /\ db'.edges \subseteq db.edges \cup PageEdges
  BY <1>2, PageEdgesStand DEF EdgesStand
<1> QED
  BY <1>1, <1>2, LinksAreLeft DEF LinksAlone, Stops, WritesEdges, Statement, Prunes, PageEdges, Writing

LEMMA EmptyIndexStands == IndexStands(EmptyIndex)
BY DEF IndexStands, EmptyIndex

LEMMA IndexStandsOn ==
  ASSUME VaultInv, WayInv, IndexStands(run.index), StepCase
  PROVE  IndexStands(run'.index)
<1>1. CASE run'.index = run.index \/ run'.index = EmptyIndex
  BY <1>1, EmptyIndexStands
<1>2. CASE \E path \in run.todo : Walks1(path)
  <2>1. PICK path \in run.todo : Walks1(path)
    BY <1>2
  <2> DEFINE page == vault[path]
  <2>2. path \in DOMAIN Drafts /\ page # NoPage /\ run'.index = Walked(run.index, path, page)
    BY <2>1 DEF Walks1, WayInv
  <2>3. IsPage(page)
    BY <2>2 DEF VaultInv, Listed
  <2>4. CASE page.ok /\ page.uid # None
    <3>1. ScopeOf(path, page) \in Scopes /\ SlugOf(path, page) \in Names /\ page.uid \in Uids
      BY <2>2, <2>3, <2>4, PagesHaveAPlace DEF IsPage
    <3> QED
      BY <2>2, <2>4, <3>1 DEF Walked, Register, IndexStands
  <2>5. CASE ~ (page.ok /\ page.uid # None)
    BY <2>2, <2>5 DEF Walked
  <2> QED
    BY <2>4, <2>5
<1> QED
  BY <1>1, <1>2 DEF StepCase, Outside, Begins, Stops, Turns, Unparsed, PassesOver, TakesUp,
     Recovered, Looks, WritesRow, WritesClaims, WritesEdges, WritesChunks, WritesFindings,
     Statement, Prunes, Finishes

-------------------------------------------------------------------------------
(* What is on record of a document, and of a file that does not parse. *)

LEMMA FindingsOfAreOwn ==
  ASSUME NEW page, NEW limits
  PROVE  \A f \in FindingsOf(page, limits) : f.via = None /\ f.detail = None
BY DEF FindingsOf, Finding

LEMMA RefFindingsAreNot ==
  ASSUME NEW page, NEW scope, NEW index
  PROVE  \A f \in RefFindingsOf(page, scope, index) : f.via # None
<1>1. \A f \in RefFindingsOf(page, scope, index) :
        \E ref : f.via = Resolve(ref, scope, index).rung
  BY DEF RefFindingsOf
<1> QED
  BY <1>1, ResolveIsTheFirst

LEMMA VerdictStandsOn ==
  ASSUME RunInv, WayInv, VerdictInv, StepCase
  PROVE  VerdictInv'
<1>1. CASE WritesFindings
  <2> DEFINE uid == run.page.uid
  <2>1. /\ run.pc = "findings" /\ run.pc \in Writing /\ run'.pc = "index"
        /\ cut' = cut \ {uid} /\ db'.rows = db.rows
        /\ \A u \in Uids \ {uid} : db'.findings[u] = db.findings[u]
        /\ db'.findings[uid] = FindingsOf(run.page.page, run.types)
                                 \cup RefFindingsOf(run.page.page, PageScope, run.index)
    BY <1>1 DEF WritesFindings, OthersKeep, Writing
  <2>2. /\ db.rows[uid].version = run.page.page /\ db.rows[uid].print = run.types
    BY <2>1, RowIsNoNoRow DEF RunInv, PageInv
  <2>3. {f \in db'.findings[uid] : f.via = None} = FindingsOf(run.page.page, run.types)
    BY <2>1, FindingsOfAreOwn, RefFindingsAreNot
  <2>4. OneVerdict(db', uid)
    BY <2>1, <2>2, <2>3 DEF OneVerdict
  <2>5. ASSUME NEW u \in Documents(db) \ cut, u # uid PROVE OneVerdict(db', u)
    <3>1. OneVerdict(db, u) /\ u \in Uids
      BY <2>5 DEF VerdictInv, Documents
    <3> QED
      BY <2>1, <2>5, <3>1 DEF OneVerdict
  <2>6. Documents(db') = Documents(db)
    BY <2>1 DEF Documents
  <2> HIDE DEF uid
  <2> QED
    BY <2>1, <2>4, <2>5, <2>6 DEF VerdictInv, Writing
<1>2. CASE Prunes
  <2>1. /\ run'.pc = "embed" /\ run.pc = "index" /\ Documents(db') = Documents(db) \ Dead
        /\ cut' = cut \cap Documents(db')
        /\ \A u \in Uids \ Dead : db'.rows[u] = db.rows[u] /\ db'.findings[u] = db.findings[u]
    BY <1>2 DEF Prunes
  <2> SUFFICES ASSUME NEW u \in Documents(db') \ cut' PROVE OneVerdict(db', u)
    BY DEF VerdictInv
  <2>2. u \in Documents(db) \ cut /\ u \in Uids \ Dead
    BY <2>1 DEF Documents
  <2>3. OneVerdict(db, u)
    BY <2>1, <2>2 DEF VerdictInv, Writing
  <2> QED
    BY <2>1, <2>2, <2>3 DEF OneVerdict
<1>3. CASE WritesRow
  <2>1. /\ run.pc = "document" /\ run'.pc = "claims" /\ run'.page = run.page /\ cut' = cut
        /\ db'.findings = db.findings
        /\ \A u \in Uids \ {run.page.uid} : db'.rows[u] = db.rows[u]
    BY <1>3 DEF WritesRow, Statement, OthersKeep
  <2> SUFFICES ASSUME NEW u \in Documents(db') \ cut', u # run.page.uid PROVE OneVerdict(db', u)
    BY <2>1 DEF VerdictInv, Writing
  <2>2. u \in Documents(db) \ cut /\ u \in Uids
    BY <2>1 DEF Documents
  <2>3. OneVerdict(db, u)
    BY <2>1, <2>2 DEF VerdictInv, Writing
  <2> QED
    BY <2>1, <2>2, <2>3 DEF OneVerdict
<1>4. CASE Stops
  BY <1>4 DEF Stops, VerdictInv, OneVerdict, Documents, Writing
<1>5. CASE WritesClaims \/ WritesEdges \/ WritesChunks
  BY <1>5 DEF WritesClaims, WritesEdges, WritesChunks, Statement, VerdictInv, OneVerdict, Documents,
       Writing
<1>6. CASE Outside
  BY <1>6 DEF Outside, VerdictInv, OneVerdict, Documents
<1>7. CASE /\ db'.rows = db.rows /\ db'.findings = db.findings /\ cut' = cut
           /\ run.pc \notin Writing /\ run'.pc \notin Writing
  BY <1>7 DEF VerdictInv, OneVerdict, Documents
<1> QED
  BY <1>1, <1>2, <1>3, <1>4, <1>5, <1>6, <1>7
     DEF StepCase, Begins, Walks1, Turns, Unparsed, PassesOver, TakesUp, Recovered, Looks,
         SameDocuments, Finishes, Writing

\* The page looked up is the one of the slot.
LEMMA FoundIsOfTheSlot ==
  ASSUME NEW path, Found(path) # None
  PROVE  /\ Found(path) \in Documents(db) /\ Found(path) \in Owned(db, run.held)
         /\ db.rows[Found(path)].scope = ScopeOf(path, vault[path])
         /\ db.rows[Found(path)].slug = SlugOf(path, vault[path])
         /\ ScopeOf(path, vault[path]) \in run.held
BY DEF Found, GetPage, Owned

LEMMA NextIsPassed ==
  ASSUME WayInv, run.pc = "index", NEW path \in run.todo, run'.pc = "index",
         run'.todo = run.todo \ {path}, run'.list = run.list
  PROVE  Passed' = Passed \cup {path}
BY DEF WayInv, Passed

LEMMA PassedStays ==
  ASSUME run.pc \notin {"idle", "walk"}, run'.pc \notin {"idle", "walk"},
         run'.todo = run.todo, run'.list = run.list
  PROVE  Passed' = Passed
BY DEF Passed

\* Where the page under way stands before the statements end.
LEMMA UnderWayIsNotPassed ==
  ASSUME WayInv, run.pc \in UnderWay
  PROVE  run.page.path \notin Passed /\ run.page.path \in run.list /\ run.page.path \in run.todo
BY DEF WayInv, Passed, UnderWay, Writing

LEMMA PassedArePaths ==
  ASSUME RunInv, VaultInv, WayInv, run.pc # "idle", quiet
  PROVE  /\ Passed \subseteq Listed /\ run.list = Listed /\ run.todo \subseteq Listed
         /\ \A p \in Listed : IsPage(vault[p]) /\ vault[p] # NoPage
BY ListedArePaths DEF Passed, RunInv, PruneInv, WayInv

LEMMA RecordStandsOn ==
  ASSUME RunInv, VaultInv, WayInv, RecordInv, StepCase
  PROVE  RecordInv'
<1>1. CASE Outside
  <2>1. CASE quiet' = FALSE
    BY <1>1, <2>1 DEF Outside, RecordInv, Complete, PageScope
  <2>2. CASE UNCHANGED <<vault, types, quiet>>
    <3>1. Passed' = Passed /\ Complete' = Complete /\ Listed' = Listed
      BY <1>1, <2>2 DEF Outside, Passed, Complete, Listed
    <3> QED
      BY <1>1, <2>2, <3>1 DEF Outside, RecordInv, OnRecord, PageScope
  <2> QED
    BY <1>1, <2>1, <2>2 DEF Outside
<1>2. CASE Begins
  BY <1>2 DEF Begins, RecordInv, Complete, Passed, UnderWay, Writing
<1>3. CASE Stops
  BY <1>3 DEF Stops, RecordInv, Complete, UnderWay, Writing
<1>4. CASE (\E path \in run.todo : Walks1(path)) \/ Turns
  <2>1. /\ run'.pc \in {"walk", "index"} /\ UNCHANGED <<vault, db, quiet>>
        /\ run'.pc = "index" => run'.todo = run'.list
    BY <1>4 DEF Walks1, Turns, RunKeeps
  <2>2. Passed' = {}
    BY <2>1 DEF Passed
  <2> QED
    BY <2>1, <2>2 DEF RecordInv, Complete, UnderWay, Writing
<1>5. CASE \E path \in run.todo : Unparsed(path)
  <2>1. PICK path \in run.todo : Unparsed(path)
    BY <1>5
  <2>2. /\ run.pc = "index" /\ run'.pc = "index" /\ run'.held = run.held
        /\ UNCHANGED <<vault, quiet>> /\ vault[path] # NoPage /\ ~ vault[path].ok
        /\ db'.globals = IF path.scope \in run.held THEN db.globals \cup {Record(path)} ELSE db.globals
        /\ Passed' = Passed \cup {path}
    BY <2>1, NextIsPassed DEF Unparsed, Looks, RunKeeps, Record
  <2>3. ASSUME quiet, NEW p \in Passed', p.scope \in run.held PROVE OnRecord(p)'
    <3>1. CASE p = path
      <4>1. vault[path].ok \in BOOLEAN
        BY <2>2, <2>3, PassedArePaths DEF IsPage
      <4> QED
        BY <2>2, <2>3, <3>1, <4>1 DEF OnRecord
    <3>2. CASE p # path
      <4>1. OnRecord(p)
        BY <2>2, <2>3, <3>2 DEF RecordInv
      <4>2. Record(p) # Record(path)
        BY <3>2 DEF Record
      <4> QED
        BY <2>2, <4>1, <4>2 DEF OnRecord, Record
    <3> QED
      BY <3>1, <3>2
  <2> QED
    BY <2>2, <2>3 DEF RecordInv, Complete, UnderWay, Writing
<1>6. CASE \E path \in run.todo : PassesOver(path) \/ TakesUp(path)
  <2>1. PICK path \in run.todo : PassesOver(path) \/ TakesUp(path)
    BY <1>6
  <2>2. /\ run.pc = "index" /\ run'.held = run.held
        /\ UNCHANGED <<vault, quiet>> /\ vault[path] # NoPage /\ vault[path].ok
        /\ db'.globals = IF ScopeOf(path, vault[path]) \in run.held
                         THEN {f \in db.globals : f.path # path \/ f.scope \notin run.held}
                         ELSE db.globals
    BY <2>1 DEF PassesOver, TakesUp, Recovered, Looks, RunKeeps
  <2>3. ASSUME quiet, NEW p \in Passed, p.scope \in run.held, p # path PROVE OnRecord(p)'
    <3>1. OnRecord(p)
      BY <2>2, <2>3 DEF RecordInv
    <3>2. Record(p).path = p
      BY DEF Record
    <3> QED
      BY <2>2, <2>3, <3>1, <3>2 DEF OnRecord, Record
  <2>4. {path.scope, ScopeOf(path, vault[path])} \subseteq run.held => Record(path) \notin db'.globals
    BY <2>2 DEF Record
  <2>5. CASE PassesOver(path)
    <3>1. Passed' = Passed \cup {path} /\ run'.pc = "index"
      BY <2>2, <2>5, NextIsPassed DEF PassesOver, Recovered, Looks, RunKeeps
    <3>2. ScopeOf(path, vault[path]) \in run.held
      BY <2>5, FoundIsOfTheSlot DEF PassesOver
    <3>3. ASSUME quiet, path.scope \in run.held PROVE OnRecord(path)'
      <4>1. vault[path].ok \in BOOLEAN
        BY <2>2, <3>3, PassedArePaths DEF IsPage
      <4>2. Record(path) \notin db'.globals
        BY <2>4, <3>2, <3>3
      <4> QED
        BY <2>2, <4>1, <4>2 DEF OnRecord, Record
    <3>4. \A p \in Passed' : quiet /\ p.scope \in run.held => OnRecord(p)'
      BY <2>3, <3>1, <3>3
    <3> QED
      BY <2>2, <3>1, <3>4 DEF RecordInv, Complete, UnderWay, Writing
  <2>6. CASE TakesUp(path)
    <3>1. /\ run'.pc = "document" /\ run'.todo = run.todo /\ run'.list = run.list
          /\ run'.page.path = path /\ run'.page.page = vault[path]
      BY <2>6 DEF TakesUp, Recovered, Looks, RunKeeps
    <3>2. Passed' = Passed /\ path \notin Passed
      BY <2>2, <3>1 DEF Passed
    <3>3. PageScope' = ScopeOf(path, vault[path])
      BY <3>1 DEF PageScope
    <3> QED
      BY <2>2, <2>3, <2>4, <3>1, <3>2, <3>3 DEF RecordInv, Complete
  <2> QED
    BY <2>1, <2>5, <2>6
<1>7. CASE WritesRow \/ WritesClaims \/ WritesEdges \/ WritesChunks
  <2>1. /\ run.pc \in UnderWay /\ run'.pc \in UnderWay /\ run'.pc # "idle" /\ run'.page = run.page
        /\ run'.held = run.held /\ run'.todo = run.todo /\ run'.list = run.list
        /\ db'.globals = db.globals /\ UNCHANGED <<vault, quiet>>
    BY <1>7 DEF WritesRow, WritesClaims, WritesEdges, WritesChunks, Statement, RunKeeps, UnderWay,
         Writing
  <2>2. Passed' = Passed
    BY <2>1, PassedStays DEF UnderWay, Writing
  <2> QED
    BY <2>1, <2>2 DEF RecordInv, OnRecord, Record, PageScope, Complete, UnderWay, Writing
<1>8. CASE WritesFindings
  <2>1. /\ run.pc = "findings" /\ run'.pc = "index" /\ run.pc \in UnderWay /\ run.pc \in Writing
        /\ run'.held = run.held /\ run'.todo = run.todo \ {run.page.path} /\ run'.list = run.list
        /\ db'.globals = db.globals /\ UNCHANGED <<vault, quiet>>
    BY <1>8 DEF WritesFindings, RunKeeps, UnderWay, Writing
  <2>0. PICK path : path = run.page.path
    OBVIOUS
  <2>2. Passed' = Passed \cup {path}
    BY <2>0, <2>1, UnderWayIsNotPassed DEF Passed
  <2>3. ASSUME quiet, path.scope \in run.held PROVE OnRecord(path)'
    <3>1. PageScope \in run.held
      BY <2>1, RowIsNoNoRow DEF RunInv, PageInv, Owned, PageScope
    <3>2. Record(path) \notin db.globals
      BY <2>0, <2>1, <2>3, <3>1 DEF RecordInv
    <3>3. vault[path] = run.page.page /\ run.page.page.ok = TRUE
      BY <2>0, <2>1, <2>3 DEF WayInv, IsPage
    <3> QED
      BY <2>1, <3>2, <3>3 DEF OnRecord, Record
  <2>4. \A p \in Passed' : quiet /\ p.scope \in run.held => OnRecord(p)'
    <3>1. \A p \in Passed : quiet /\ p.scope \in run.held => OnRecord(p)'
      BY <2>1 DEF RecordInv, OnRecord, Record
    <3> QED
      BY <2>2, <2>3, <3>1
  <2> QED
    BY <2>1, <2>4 DEF RecordInv, Complete, UnderWay, Writing
<1>9. CASE Prunes
  <2>1. /\ run.pc = "index" /\ run'.pc = "embed" /\ run'.todo = run.todo /\ run'.list = run.list
        /\ run'.held = run.held /\ db'.globals = db.globals /\ UNCHANGED <<vault, quiet>>
    BY <1>9 DEF Prunes, RunKeeps
  <2>2. Passed' = Passed
    BY <2>1, PassedStays
  <2> QED
    BY <2>1, <2>2 DEF RecordInv, OnRecord, Record, Complete, UnderWay, Writing
<1>10. CASE Finishes
  <2>1. /\ run.pc = "embed" /\ run'.pc = "idle" /\ run.todo = {} /\ run'.held = run.held
        /\ db'.globals = db.globals /\ UNCHANGED <<vault, quiet>>
    BY <1>10 DEF Finishes, WayInv
  <2>2. quiet => Passed = Listed /\ Listed' = Listed
    BY <2>1, PassedArePaths DEF Passed, Listed
  <2> QED
    BY <2>1, <2>2 DEF RecordInv, OnRecord, Record, Complete, UnderWay, Writing
<1> QED
  BY <1>1, <1>2, <1>3, <1>4, <1>5, <1>6, <1>7, <1>8, <1>9, <1>10 DEF StepCase

LEMMA RowsAreOfPages ==
  ASSUME NEW tables, RowsStand(tables), NEW uid \in Documents(tables)
  PROVE  LET row == tables.rows[uid] IN
         row.scope = ScopeOf(row.path, row.version) /\ row.slug = SlugOf(row.path, row.version)
<1> DEFINE row == tables.rows[uid]
<1>1. row = RowOf(row.path, row.version, row.print)
  BY DEF RowsStand
<1>2. PICK path, page, limits : row = RowOf(path, page, limits) /\ path = row.path /\ page = row.version
  BY <1>1
<1>3. RowOf(path, page, limits).scope = ScopeOf(path, page)
      /\ RowOf(path, page, limits).slug = SlugOf(path, page)
  BY DEF RowOf
<1> HIDE DEF row
<1>4. row.scope = ScopeOf(row.path, row.version) /\ row.slug = SlugOf(row.path, row.version)
  BY <1>2, <1>3
<1> QED
  BY <1>4 DEF row

\* Two rows of one content at one path are one.
LEMMA OneRowOfAPage ==
  ASSUME RowsStand(db), NEW uid \in Documents(db), NEW other \in Documents(db),
         db.rows[uid].path = db.rows[other].path,
         db.rows[uid].version = db.rows[other].version
  PROVE  uid = other
<1>1. /\ db.rows[uid].scope = ScopeOf(db.rows[uid].path, db.rows[uid].version)
      /\ db.rows[uid].slug = SlugOf(db.rows[uid].path, db.rows[uid].version)
      /\ db.rows[other].scope = ScopeOf(db.rows[other].path, db.rows[other].version)
      /\ db.rows[other].slug = SlugOf(db.rows[other].path, db.rows[other].version)
  BY RowsAreOfPages
<1> QED
  BY <1>1 DEF RowsStand

\* A row of the content a page has is the row found for the page.
LEMMA FoundIsTheRow ==
  ASSUME RowsStand(db), NEW path, Found(path) # None, NEW uid \in RowsAt(path),
         db.rows[uid].version = vault[path]
  PROVE  uid = Found(path)
<1>1. /\ uid \in Documents(db) /\ db.rows[uid].path = path
  BY DEF RowsAt
<1>2. /\ db.rows[uid].scope = ScopeOf(path, vault[path])
      /\ db.rows[uid].slug = SlugOf(path, vault[path])
  BY <1>1, RowsAreOfPages
<1> QED
  BY <1>1, <1>2, FoundIsOfTheSlot DEF RowsStand

LEMMA PrintStandsOn ==
  ASSUME RunInv, VaultInv, WayInv, RowsStand(db), RowsStand(db'), PrintInv, StepCase
  PROVE  PrintInv'
<1>1. CASE Outside
  <2>1. CASE quiet' = FALSE
    BY <2>1 DEF PrintInv, Complete
  <2>2. CASE UNCHANGED <<vault, types, quiet>>
    <3>1. Passed' = Passed /\ Complete' = Complete /\ Parsed' = Parsed
      BY <1>1, <2>2 DEF Outside, Passed, Complete, Parsed, Listed
    <3>2. \A p : RowsAt(p)' = RowsAt(p)
      BY <1>1 DEF Outside, RowsAt, Documents
    <3> QED
      BY <1>1, <2>2, <3>1, <3>2 DEF Outside, PrintInv, PrintsAre
  <2> QED
    BY <1>1, <2>1, <2>2 DEF Outside
<1>2. CASE Begins
  BY <1>2 DEF Begins, PrintInv, Complete, Passed
<1>3. CASE Stops
  BY <1>3 DEF Stops, PrintInv, Complete
<1>4. CASE (\E path \in run.todo : Walks1(path)) \/ Turns
  <2>1. /\ run'.pc \in {"walk", "index"}
        /\ run'.pc = "index" => run'.todo = run'.list
        /\ UNCHANGED <<vault, quiet>>
    BY <1>4 DEF Walks1, Turns, RunKeeps
  <2>2. Passed' = {}
    BY <2>1 DEF Passed
  <2> QED
    BY <2>1, <2>2 DEF PrintInv, Complete
<1>5. ASSUME \A p \in Passed' \cap Parsed :
               quiet => \A uid \in RowsAt(p)' : db'.rows[uid].version = vault[p] =>
                                                  db'.rows[uid].print = run.types,
             run'.pc # "idle", run'.types = run.types, UNCHANGED <<vault, quiet>>
      PROVE  PrintInv'
  <2>1. Parsed' = Parsed
    BY <1>5 DEF Parsed, Listed
  <2> QED
    BY <1>5, <2>1 DEF PrintInv, PrintsAre, Complete
<1>6. CASE \E path \in run.todo : Unparsed(path) \/ PassesOver(path)
  <2>1. PICK path \in run.todo : Unparsed(path) \/ PassesOver(path)
    BY <1>6
  <2>2. /\ run.pc = "index" /\ run'.pc = "index" /\ run'.types = run.types
        /\ db'.rows = db.rows /\ UNCHANGED <<vault, quiet>>
        /\ Passed' = Passed \cup {path}
    BY <2>1, NextIsPassed DEF Unparsed, PassesOver, Recovered, Looks, RunKeeps, SameDocuments
  <2>3. ASSUME path \in Parsed, NEW uid \in RowsAt(path), db.rows[uid].version = vault[path]
        PROVE  db.rows[uid].print = run.types
    <3>1. PassesOver(path)
      BY <2>1, <2>3 DEF Unparsed, Parsed
    <3> QED
      BY <2>3, <3>1, FoundIsTheRow DEF PassesOver
  <2>4. \A p : RowsAt(p)' = RowsAt(p)
    BY <2>2 DEF RowsAt, Documents
  <2>5. \A p \in Passed' \cap Parsed :
               quiet => \A uid \in RowsAt(p)' : db'.rows[uid].version = vault[p] =>
                                                  db'.rows[uid].print = run.types
    BY <2>2, <2>3, <2>4 DEF PrintInv, PrintsAre
  <2> QED
    BY <1>5, <2>2, <2>5
<1>7. CASE \E path \in run.todo : TakesUp(path)
  <2>1. /\ run.pc = "index" /\ run'.pc = "document" /\ run'.types = run.types
        /\ run'.todo = run.todo /\ run'.list = run.list
        /\ db'.rows = db.rows /\ UNCHANGED <<vault, quiet>>
    BY <1>7 DEF TakesUp, Recovered, Looks, RunKeeps, SameDocuments
  <2>2. Passed' = Passed /\ \A p : RowsAt(p)' = RowsAt(p)
    BY <2>1, PassedStays DEF RowsAt, Documents
  <2>3. \A p \in Passed' \cap Parsed :
               quiet => \A uid \in RowsAt(p)' : db'.rows[uid].version = vault[p] =>
                                                  db'.rows[uid].print = run.types
    BY <2>1, <2>2 DEF PrintInv, PrintsAre
  <2> QED
    BY <1>5, <2>1, <2>3
<1>8. CASE WritesRow
  <2>1. /\ run.pc = "document" /\ run'.pc = "claims" /\ run'.types = run.types
        /\ run'.todo = run.todo /\ run'.list = run.list /\ UNCHANGED <<vault, quiet>>
        /\ db'.rows[run.page.uid] = PageRow
        /\ \A u \in Uids \ {run.page.uid} : db'.rows[u] = db.rows[u]
    BY <1>8 DEF WritesRow, Statement, RunKeeps, OthersKeep
  <2>2. Passed' = Passed /\ run.page.path \notin Passed /\ PageRow.path = run.page.path
    BY <2>1, PassedStays, UnderWayIsNotPassed DEF UnderWay, PageRow, RowOf
  <2>3. ASSUME NEW p \in Passed, NEW uid \in RowsAt(p)'
        PROVE  uid \in RowsAt(p) /\ db'.rows[uid] = db.rows[uid]
    <3>1. uid \in Uids /\ db'.rows[uid] # NoRow /\ db'.rows[uid].path = p
      BY DEF RowsAt, Documents
    <3>2. uid # run.page.uid
      BY <2>1, <2>2, <3>1
    <3> QED
      BY <2>1, <3>1, <3>2 DEF RowsAt, Documents
  <2>4. \A p \in Passed' \cap Parsed :
               quiet => \A uid \in RowsAt(p)' : db'.rows[uid].version = vault[p] =>
                                                  db'.rows[uid].print = run.types
    BY <2>1, <2>2, <2>3 DEF PrintInv, PrintsAre
  <2> QED
    BY <1>5, <2>1, <2>4
<1>9. CASE WritesClaims \/ WritesEdges \/ WritesChunks
  <2>1. /\ run.pc \notin {"idle", "walk"} /\ run'.pc \notin {"idle", "walk"}
        /\ run'.types = run.types
        /\ run'.todo = run.todo /\ run'.list = run.list
        /\ db'.rows = db.rows /\ UNCHANGED <<vault, quiet>>
    BY <1>9 DEF WritesClaims, WritesEdges, WritesChunks, Statement, RunKeeps
  <2>2. Passed' = Passed /\ \A p : RowsAt(p)' = RowsAt(p)
    BY <2>1, PassedStays DEF RowsAt, Documents
  <2>3. \A p \in Passed' \cap Parsed :
               quiet => \A uid \in RowsAt(p)' : db'.rows[uid].version = vault[p] =>
                                                  db'.rows[uid].print = run.types
    BY <2>1, <2>2 DEF PrintInv, PrintsAre
  <2> QED
    BY <1>5, <2>1, <2>3
<1>10. CASE WritesFindings
  <2>0. PICK path : path = run.page.path
    OBVIOUS
  <2>1. /\ run.pc = "findings" /\ run.pc \in UnderWay /\ run.pc \in Writing
        /\ run'.pc = "index" /\ run'.types = run.types
        /\ run'.todo = run.todo \ {path} /\ run'.list = run.list
        /\ db'.rows = db.rows /\ UNCHANGED <<vault, quiet>>
    BY <1>10, <2>0 DEF WritesFindings, RunKeeps, UnderWay, Writing
  <2>2. Passed' = Passed \cup {path} /\ \A p : RowsAt(p)' = RowsAt(p)
    BY <2>0, <2>1, UnderWayIsNotPassed DEF Passed, RowsAt, Documents
  <2>3. ASSUME quiet, NEW uid \in RowsAt(path), db.rows[uid].version = vault[path]
        PROVE  db.rows[uid].print = run.types
    <3>1. /\ vault[path] = run.page.page /\ run.page.uid \in Documents(db)
          /\ db.rows[run.page.uid] = RowOf(path, run.page.page, run.types)
      BY <2>0, <2>1, <2>3 DEF WayInv, RunInv, PageInv, Owned
    <3>2. /\ db.rows[run.page.uid].path = path /\ db.rows[run.page.uid].version = vault[path]
          /\ db.rows[run.page.uid].print = run.types
      BY <3>1 DEF RowOf
    <3>3. uid \in Documents(db) /\ db.rows[uid].path = path
      BY DEF RowsAt
    <3>4. uid = run.page.uid
      BY <2>3, <3>1, <3>2, <3>3, OneRowOfAPage
    <3> QED
      BY <3>2, <3>4
  <2>4. \A p \in Passed' \cap Parsed :
               quiet => \A uid \in RowsAt(p)' : db'.rows[uid].version = vault[p] =>
                                                  db'.rows[uid].print = run.types
    BY <2>1, <2>2, <2>3 DEF PrintInv, PrintsAre
  <2> QED
    BY <1>5, <2>1, <2>4
<1>11. CASE Prunes
  <2>1. /\ run.pc = "index" /\ run'.pc = "embed" /\ run'.types = run.types
        /\ run'.todo = run.todo /\ run'.list = run.list /\ UNCHANGED <<vault, quiet>>
        /\ Documents(db') = Documents(db) \ Dead
        /\ \A u \in Uids \ Dead : db'.rows[u] = db.rows[u]
    BY <1>11 DEF Prunes, RunKeeps
  <2>2. Passed' = Passed
    BY <2>1, PassedStays
  <2>3. ASSUME NEW p, NEW uid \in RowsAt(p)'
        PROVE  uid \in RowsAt(p) /\ db'.rows[uid] = db.rows[uid]
    BY <2>1 DEF RowsAt, Documents
  <2>4. \A p \in Passed' \cap Parsed :
               quiet => \A uid \in RowsAt(p)' : db'.rows[uid].version = vault[p] =>
                                                  db'.rows[uid].print = run.types
    BY <2>1, <2>2, <2>3 DEF PrintInv, PrintsAre
  <2> QED
    BY <1>5, <2>1, <2>4
<1>12. CASE Finishes
  <2>1. /\ run.pc = "embed" /\ run'.pc = "idle" /\ run.todo = {}
        /\ db'.rows = db.rows /\ UNCHANGED <<vault, types, quiet>>
    BY <1>12 DEF Finishes, SameDocuments, WayInv
  <2>2. quiet => Passed = Listed /\ run.types = types /\ Parsed' = Parsed /\ Parsed \subseteq Listed
    BY <2>1, PassedArePaths DEF Passed, Parsed, Listed, WayInv
  <2>3. \A p : RowsAt(p)' = RowsAt(p)
    BY <2>1 DEF RowsAt, Documents
  <2> QED
    BY <2>1, <2>2, <2>3 DEF PrintInv, PrintsAre, Complete
<1> QED
  BY <1>1, <1>2, <1>3, <1>4, <1>6, <1>7, <1>8, <1>9, <1>10, <1>11, <1>12 DEF StepCase

-------------------------------------------------------------------------------

LEMMA WalkInitially == Init => WalkInv
<1> SUFFICES ASSUME Init PROVE WalkInv
  OBVIOUS
<1>1. db = Tables /\ run.pc = "idle" /\ run.index = EmptyIndex /\ outcome = "none"
  BY DEF Init, Resting
<1>2. RowsStand(db) /\ EdgesStand(db) /\ VerdictInv
  BY <1>1, TablesAreSound DEF VerdictInv
<1>3. RecordInv /\ PrintInv
  BY <1>1 DEF RecordInv, PrintInv, Complete, UnderWay, Writing
<1> QED
  BY <1>1, <1>2, <1>3, VaultInitially, WayInitially, EmptyIndexStands DEF WalkInv

LEMMA StepsKeepWalk == RunInv /\ WalkInv /\ [Next]_vars => WalkInv'
<1> SUFFICES ASSUME RunInv, WalkInv, [Next]_vars PROVE WalkInv'
  OBVIOUS
<1>1. StepCase /\ VaultInv' /\ RowsStand(db')
  BY EveryStep, VaultStands, RowsStandOn DEF WalkInv
<1>2. WayInv' /\ EdgesStand(db') /\ IndexStands(run'.index) /\ VerdictInv' /\ RecordInv' /\ PrintInv'
  BY <1>1, WayStands, EdgesStandOn, IndexStandsOn, VerdictStandsOn, RecordStandsOn, PrintStandsOn
     DEF WalkInv
<1> QED
  BY <1>1, <1>2 DEF WalkInv

\* What a run has read is what there is, and the tables hang together.
THEOREM WalkHolds == Spec => []WalkInv
<1> QED
  BY RunHolds, WalkInitially, StepsKeepWalk, PTL DEF Spec

-------------------------------------------------------------------------------
(* What a page is cut into. *)

\* Every document is of a body that can be cut.
BodyInv == \A uid \in Documents(db) : db.rows[uid].version.body \in Bodies

LEMMA BodiesInitially == Init => BodyInv
BY TablesAreSound DEF Init, BodyInv

\* A row is written of a page that was read; the others are left or removed.
LEMMA StepsKeepBodies == RunInv /\ WalkInv /\ BodyInv /\ [Next]_vars => BodyInv'
<1> SUFFICES ASSUME RunInv, WalkInv, BodyInv, [Next]_vars PROVE BodyInv'
  OBVIOUS
<1>1. CASE db'.rows = db.rows
  BY <1>1 DEF BodyInv, Documents
<1>2. CASE WritesRow
  <2> DEFINE uid == run.page.uid
  <2>1. uid \in Uids /\ db'.rows[uid] = PageRow /\ \A u \in Uids \ {uid} : db'.rows[u] = db.rows[u]
    BY <1>2 DEF WritesRow, Statement, OthersKeep, RunInv, PageInv
  <2>2. PageRow.version.body \in Bodies
    BY <1>2 DEF WritesRow, Statement, WalkInv, WayInv, UnderWay, PageRow, RowOf, IsPage
  <2> HIDE DEF uid
  <2> QED
    BY <2>1, <2>2 DEF BodyInv, Documents
<1>3. CASE Prunes
  <2>1. Documents(db') \subseteq Documents(db) /\ \A uid \in Documents(db') : db'.rows[uid] = db.rows[uid]
    BY <1>3 DEF Prunes, Documents
  <2> QED
    BY <2>1 DEF BodyInv
<1> QED
  BY <1>1, <1>2, <1>3, EveryStep, RowsAreLeft DEF RowsAlone, WalkInv

\* chunk.go: no word of a page is lost in the chunks the tables keep of it, and no
\* listing is cut, whatever is saved or fails while they are written.
THEOREM ChunksAreRight == Spec => []ChunksHoldThePage
<1>1. RunInv /\ BodyInv => ChunksHoldThePage
  <2> SUFFICES ASSUME RunInv, BodyInv, run.pc = "idle", NEW uid \in Documents(db), uid \notin cut,
                      WordsOf(Untitled(db.rows[uid].version.body)) # << >>
               PROVE  Hold(db.chunks[uid], db.rows[uid].version.body)
    BY DEF ChunksHoldThePage
  <2>1. db.chunks[uid] = ChunkBody(db.rows[uid].version.body)
    BY DEF RunInv, TextInv, Writing, OneVersion
  <2>2. db.rows[uid].version.body \in Seq(Lines)
    BY DEF BodyInv, Bodies
  <2> QED
    BY <2>1, <2>2, ChunksHold
<1> QED
  BY <1>1, RunHolds, WalkHolds, BodiesInitially, StepsKeepBodies, PTL DEF Spec

-------------------------------------------------------------------------------

\* pipeline.go: the types of the run, the tables and the vault.
THEOREM TypesHold == Spec => []TypeOK
<1>1. RunInv /\ WalkInv => TypeOK
  <2> SUFFICES ASSUME RunInv, WalkInv PROVE TypeOK
    OBVIOUS
  <2>1. /\ DOMAIN vault = DOMAIN Drafts /\ types \in Types
        /\ \A change \in import.todo : change.path \in DOMAIN vault
    BY DEF WalkInv, VaultInv
  <2>2. \A p \in Parsed : vault[p].uid \in Uids \cup {None} /\ ScopeOf(p, vault[p]) \in Scopes
    BY ListedArePaths, PagesHaveAPlace DEF WalkInv, Parsed, IsPage
  <2>3. run.pc \in UnderWay => run.page.uid \in Uids
    BY DEF RunInv, PageInv, Owned, Documents, UnderWay
  <2>4. cut \subseteq Uids
    BY DEF WalkInv, WayInv, Documents
  <2> QED
    BY <2>1, <2>2, <2>3, <2>4 DEF WalkInv, WayInv, TypeOK, UnderWay, Writing
<1> QED
  BY <1>1, RunHolds, WalkHolds, PTL

\* pipeline.go (IndexPage), queries.go (ResolveGlobalFindingsForPath): in the
\* scopes a complete run held, a file is on record if and only if it does not
\* parse.
THEOREM RecordIsCurrent == Spec => []UnparseableIsReported
<1>1. WalkInv => UnparseableIsReported
  BY DEF WalkInv, RecordInv, OnRecord, Record, UnparseableIsReported
<1> QED
  BY <1>1, WalkHolds, PTL

\* pipeline.go (isNoop, ReplaceFindings): after a complete run what is on record of
\* a page is what its content and the limits of now say, also where only the
\* limits had changed; but for a page a failure cut short.
THEOREM VerdictsAreCurrent == Spec => []FindingsAreCurrent
<1>1. WalkInv => FindingsAreCurrent
  <2> SUFFICES ASSUME WalkInv, Complete, NEW p \in Parsed, NEW uid \in Uids \ cut,
                      uid \in RowsAt(p), db.rows[uid].version = vault[p]
               PROVE  {f \in db.findings[uid] : f.via = None} = FindingsOf(vault[p], types)
    BY DEF FindingsAreCurrent
  <2>1. uid \in Documents(db) /\ run.pc \notin Writing
    BY DEF RowsAt, Complete, Writing
  <2>2. OneVerdict(db, uid)
    BY <2>1 DEF WalkInv, VerdictInv
  <2>3. db.rows[uid].print = types
    BY DEF WalkInv, PrintInv, PrintsAre
  <2> QED
    BY <2>2, <2>3 DEF OneVerdict
<1> QED
  BY <1>1, WalkHolds, PTL

-------------------------------------------------------------------------------
(* The names of the first pass, once it has seen every page. *)

LEMMA DistinctPages ==
  ASSUME Distinct, NEW p \in Parsed, NEW q \in Parsed
  PROVE  /\ Slot(p) = Slot(q) => p = q
         /\ vault[p].uid = vault[q].uid /\ vault[p].uid # None => p = q
BY DEF Distinct, Slot

LEMMA DistinctStays ==
  ASSUME vault' = vault
  PROVE  /\ Listed' = Listed /\ Parsed' = Parsed /\ Distinct' = Distinct
         /\ \A ref, scope : Target(ref, scope)' = Target(ref, scope)
<1>1. Listed' = Listed /\ Parsed' = Parsed
  BY DEF Listed, Parsed
<1> QED
  BY <1>1 DEF Distinct, Target

LEMMA RegisteredAreParsed ==
  ASSUME RunInv, VaultInv, WayInv, run.pc # "idle", quiet
  PROVE  /\ Registered \subseteq Parsed
         /\ run.pc # "walk" => Registered = {p \in Parsed : vault[p].uid # None}
BY PassedArePaths DEF Registered, Parsed

\* The pass takes in one more page.
LEMMA WalkKeepsNames ==
  ASSUME RunInv, VaultInv, WayInv, IndexStands(run.index), IndexInv,
         NEW path \in run.todo, Walks1(path)
  PROVE  IndexInv'
<1> SUFFICES ASSUME quiet', Distinct' PROVE IndexInv'
  BY DEF IndexInv
<1>0. /\ run.pc = "walk" /\ run'.pc = "walk" /\ quiet /\ vault' = vault /\ vault[path] # NoPage
      /\ run'.todo = run.todo \ {path} /\ run'.list = run.list
      /\ run'.index = Walked(run.index, path, vault[path])
  BY DEF Walks1, RunKeeps
<1>1. Distinct /\ path \in Listed /\ Listed \subseteq DOMAIN Drafts /\ IsPage(vault[path])
      /\ path \in run.list
  BY <1>0, DistinctStays, PassedArePaths, ListedArePaths DEF WayInv
<1>2. /\ \A p \in Registered : NamedBy(p) \subseteq run.index.aliases
      /\ \A a \in run.index.aliases : \E p \in Registered : a \in NamedBy(p)
      /\ \A scope \in Scopes, n \in Names :
           run.index.slugs[<<scope, n>>] =
             Single({vault[p].uid : p \in {q \in Registered : Slot(q) = <<scope, n>>}})
  BY <1>0, <1>1 DEF IndexInv
<1>3. \A p : Slot(p)' = Slot(p) /\ NamedBy(p)' = NamedBy(p)
  BY <1>0 DEF Slot, NamesOf, NamedBy
<1>4. CASE vault[path].ok /\ vault[path].uid # None
  <2> DEFINE uid == vault[path].uid
             scope0 == ScopeOf(path, vault[path])
             slug == SlugOf(path, vault[path])
  <2>1. Registered' = Registered \cup {path} /\ path \in Parsed
    BY <1>0, <1>1, <1>4 DEF Registered, Parsed
  <2>2. scope0 \in Scopes /\ slug \in Names /\ Slot(path) = <<scope0, slug>>
    BY <1>1, PagesHaveAPlace DEF Slot
  <2>3. /\ run'.index.slugs = [run.index.slugs EXCEPT ![<<scope0, slug>>] = uid]
        /\ run'.index.aliases = run.index.aliases
             \cup NamedBy(path)
    BY <1>0, <1>4 DEF Walked, Register, NamesOf, NamedBy
  <2>4. /\ \A p \in Registered' : NamedBy(p) \subseteq run'.index.aliases
        /\ \A a \in run'.index.aliases : \E p \in Registered' : a \in NamedBy(p)
    BY <1>2, <2>1, <2>3
  <2>5. ASSUME NEW scope \in Scopes, NEW n \in Names
        PROVE  run'.index.slugs[<<scope, n>>] =
                 Single({vault[p].uid : p \in {q \in Registered' : Slot(q) = <<scope, n>>}})
    <3>1. run.index.slugs[<<scope, n>>] =
             Single({vault[p].uid : p \in {q \in Registered : Slot(q) = <<scope, n>>}})
      BY <1>2
    <3>2. DOMAIN run.index.slugs = Scopes \X Names
      BY DEF IndexStands
    <3>3. CASE Slot(path) = <<scope, n>>
      <4>1. run'.index.slugs[<<scope, n>>] = uid
        BY <2>2, <2>3, <3>2, <3>3
      <4>2. {q \in Registered' : Slot(q) = <<scope, n>>} = {path}
        BY <1>0, <1>1, <2>1, <3>3, RegisteredAreParsed, DistinctPages
      <4> QED
        BY <4>1, <4>2, SingleOfOne
    <3>4. CASE Slot(path) # <<scope, n>>
      <4>1. run'.index.slugs[<<scope, n>>] = run.index.slugs[<<scope, n>>]
        BY <2>2, <2>3, <3>2, <3>4
      <4>2. {q \in Registered' : Slot(q) = <<scope, n>>} = {q \in Registered : Slot(q) = <<scope, n>>}
        BY <2>1, <3>4
      <4> QED
        BY <3>1, <4>1, <4>2
    <3> QED
      BY <3>3, <3>4
  <2> QED
    BY <1>0, <1>3, <2>4, <2>5 DEF IndexInv
<1>5. CASE ~ (vault[path].ok /\ vault[path].uid # None)
  <2>1. Registered' = Registered /\ run'.index = run.index
    BY <1>0, <1>1, <1>5 DEF Registered, Walked
  <2> QED
    BY <1>0, <1>2, <1>3, <2>1 DEF IndexInv
<1> QED
  BY <1>4, <1>5

LEMMA NamesStandOn ==
  ASSUME RunInv, VaultInv, WayInv, IndexStands(run.index), IndexInv, StepCase
  PROVE  IndexInv'
<1>1. CASE \E path \in run.todo : Walks1(path)
  BY <1>1, WalkKeepsNames
<1>2. CASE run'.pc = "idle" \/ quiet' = FALSE
  BY <1>2 DEF IndexInv
<1>3. CASE Begins
  <2>1. Registered' = {} /\ run'.index = EmptyIndex
    BY <1>3 DEF Begins, Registered
  <2>2. run'.index.aliases = {} /\ \A scope \in Scopes, n \in Names : run'.index.slugs[<<scope, n>>] = None
    BY <2>1 DEF EmptyIndex
  <2>3. \A scope, n :
          {vault'[p].uid : p \in {q \in Registered' : Slot(q)' = <<scope, n>>}} = {}
    BY <2>1
  <2> QED
    BY <2>1, <2>2, <2>3, SingleOfOne DEF IndexInv
<1>4. CASE /\ run.pc # "idle" /\ run'.index = run.index /\ run'.list = run.list
           /\ \/ run'.pc = run.pc /\ run'.todo = run.todo
              \/ run.pc = "walk" /\ run.todo = {} /\ run'.pc # "walk"
              \/ run.pc # "walk" /\ run'.pc # "walk"
           /\ UNCHANGED <<vault, quiet>>
  <2>1. Registered' = Registered /\ Distinct' = Distinct
    BY <1>4, DistinctStays DEF Registered
  <2>2. \A p : Slot(p)' = Slot(p) /\ NamedBy(p)' = NamedBy(p)
    BY <1>4 DEF Slot, NamesOf, NamedBy
  <2> QED
    BY <1>4, <2>1, <2>2 DEF IndexInv
<1>5. CASE Outside
  BY <1>2, <1>4, <1>5 DEF Outside
<1>6. CASE Turns
  BY <1>4, <1>6 DEF Turns, RunKeeps
<1>7. CASE Stops \/ Finishes
  BY <1>2, <1>7 DEF Stops, Finishes
<1>8. CASE \E path \in run.todo : Unparsed(path) \/ PassesOver(path) \/ TakesUp(path)
  <2>1. /\ run.pc = "index" /\ run'.pc \in {"index", "document"} /\ run'.index = run.index
        /\ run'.list = run.list /\ UNCHANGED <<vault, quiet>>
    BY <1>8 DEF Unparsed, PassesOver, TakesUp, Recovered, Looks, RunKeeps
  <2> QED
    BY <1>4, <2>1
<1>9. CASE WritesRow \/ WritesClaims \/ WritesEdges \/ WritesChunks \/ WritesFindings \/ Prunes
  <2>1. /\ run.pc \notin {"idle", "walk"} /\ run'.pc # "walk" /\ run'.index = run.index
        /\ run'.list = run.list /\ UNCHANGED <<vault, quiet>>
    BY <1>9 DEF WritesRow, WritesClaims, WritesEdges, WritesChunks, WritesFindings, Prunes, Statement,
         RunKeeps
  <2> QED
    BY <1>4, <2>1
<1> QED
  BY <1>1, <1>3, <1>5, <1>6, <1>7, <1>8, <1>9 DEF StepCase

\* In the second pass a reference resolves to the page it names, told from the
\* vault as a whole.
LEMMA ResolvesToTarget ==
  ASSUME RunInv, VaultInv, WayInv, IndexInv, run.pc \notin {"idle", "walk"}, quiet, Distinct,
         NEW ref \in Names, NEW scope \in Scopes
  PROVE  Resolve(ref, scope, run.index).uid = Target(ref, scope)
<1> DEFINE pages == {p \in Parsed : vault[p].uid # None /\ ScopeOf(p, vault[p]) = scope}
           Slugged(n) == Single({vault[p].uid : p \in {q \in pages : SlugOf(q, vault[q]) = n}})
           called == {vault[p].uid : p \in {q \in pages : ref \in NamesOf(q)}}
           folded == {vault[p].uid :
                        p \in {q \in pages : \E n \in NamesOf(q) : Normal[n] = Normal[ref]}}
           index == run.index
<1>1. Target(ref, scope) =
        OrDefault(Slugged(ref), OrDefault(Single(called),
          OrDefault(Slugged(Normal[ref]), Single(folded))))
  BY DEF Target, NamesOf
<1>2. Registered = {p \in Parsed : vault[p].uid # None}
  BY RegisteredAreParsed
<1>3. ASSUME NEW n \in Names PROVE index.slugs[<<scope, n>>] = Slugged(n)
  <2>1. {q \in Registered : Slot(q) = <<scope, n>>} = {q \in pages : SlugOf(q, vault[q]) = n}
    BY <1>2 DEF Slot
  <2> QED
    BY <2>1 DEF IndexInv
<1>4. /\ \A p \in Registered : NamedBy(p) \subseteq index.aliases
      /\ \A a \in index.aliases : \E p \in Registered : a \in NamedBy(p)
  BY DEF IndexInv
<1>5. ASSUME NEW p, NEW n \in NamesOf(p)
      PROVE  \E a \in NamedBy(p) : /\ a.scope = ScopeOf(p, vault[p]) /\ a.name = n
                                   /\ a.uid = vault[p].uid
  <2> DEFINE a == [scope |-> ScopeOf(p, vault[p]), name |-> n, uid |-> vault[p].uid]
  <2>1. a \in NamedBy(p)
    BY DEF NamedBy
  <2>2. a.scope = ScopeOf(p, vault[p]) /\ a.name = n /\ a.uid = vault[p].uid
    OBVIOUS
  <2> HIDE DEF a
  <2> QED
    BY <2>1, <2>2
<1>6. \A p \in Registered : \A n \in NamesOf(p) :
        \E a \in index.aliases : /\ a.scope = ScopeOf(p, vault[p]) /\ a.name = n
                                 /\ a.uid = vault[p].uid
  BY <1>4, <1>5
<1>7. \A a \in index.aliases :
        \E p \in Registered : /\ a.scope = ScopeOf(p, vault[p]) /\ a.name \in NamesOf(p)
                              /\ a.uid = vault[p].uid
  BY <1>4 DEF NamedBy
<1> HIDE DEF index
<1>8. {a.uid : a \in {b \in index.aliases : b.scope = scope /\ b.name = ref}} = called
  BY <1>2, <1>6, <1>7
<1>9. {a.uid : a \in {b \in index.aliases : b.scope = scope /\ Normal[b.name] = Normal[ref]}} = folded
  BY <1>2, <1>6, <1>7
<1>10. LookupExact(index, ref, scope) = Single(called)
       /\ LookupNormalised(index, ref, scope) = Single(folded)
  BY <1>8, <1>9 DEF LookupExact, LookupNormalised
<1>11. index.slugs[<<scope, ref>>] = Slugged(ref)
       /\ index.slugs[<<scope, Normal[ref]>>] = Slugged(Normal[ref])
  BY <1>3, NormalFolds
<1> HIDE DEF Slugged, called, folded
<1> QED
  BY <1>1, <1>10, <1>11, ResolveIsTheFirst DEF index

-------------------------------------------------------------------------------
(* A run from no document. *)

LEMMA FreshStays ==
  ASSUME FreshRun', UNCHANGED <<vault, quiet, fresh>>, run.pc # "idle"
  PROVE  /\ FreshRun /\ Parsed' = Parsed /\ Listed' = Listed
         /\ \A p : LinksIn(p)' = LinksIn(p) /\ LostIn(p)' = LostIn(p)
BY DistinctStays DEF FreshRun, LinksIn, LostIn

\* The next page of such a run has no row yet, nor has anything its uid.
LEMMA NoRowYet ==
  ASSUME RunInv, VaultInv, WayInv, FreshRun, FreshInv, run.pc = "index",
         NEW path \in run.todo, vault[path].ok
  PROVE  /\ Found(path) = None /\ path \in Parsed
         /\ vault[path].uid # None => vault[path].uid \notin Documents(db)
<1>1. path \in Parsed /\ path \notin Passed /\ Passed \subseteq Listed /\ Distinct
  BY PassedArePaths DEF FreshRun, Parsed, Passed
<1>2. ASSUME NEW uid \in Documents(db)
      PROVE  LET p == db.rows[uid].path IN
             p # path /\ p \in Parsed /\ db.rows[uid] = RowOf(p, vault[p], types) /\ IsUidOf(uid, p)
  <2>1. LET p == db.rows[uid].path IN IsRowOf(uid, p) /\ p \in Passed
    BY <1>2 DEF FreshInv, Done, Writing
  <2> QED
    BY <1>1, <2>1 DEF IsRowOf
<1>3. ASSUME Found(path) # None PROVE FALSE
  <2> DEFINE uid == Found(path)
             p   == db.rows[uid].path
  <2>1. /\ uid \in Documents(db) /\ db.rows[uid].scope = ScopeOf(path, vault[path])
        /\ db.rows[uid].slug = SlugOf(path, vault[path])
    BY <1>3, FoundIsOfTheSlot
  <2>2. p # path /\ p \in Parsed /\ db.rows[uid] = RowOf(p, vault[p], types)
    BY <1>2, <2>1
  <2>3. PICK q \in Parsed : q # path /\ db.rows[uid] = RowOf(q, vault[q], types)
    BY <2>2
  <2>4. db.rows[uid].scope = ScopeOf(q, vault[q]) /\ db.rows[uid].slug = SlugOf(q, vault[q])
    BY <2>3 DEF RowOf
  <2>5. Slot(q) = Slot(path)
    BY <2>1, <2>4 DEF Slot
  <2> QED
    BY <1>1, <2>3, <2>5, DistinctPages
<1>4. ASSUME vault[path].uid # None, vault[path].uid \in Documents(db) PROVE FALSE
  <2> DEFINE uid == vault[path].uid
             p   == db.rows[uid].path
  <2>1. p # path /\ p \in Parsed /\ IsUidOf(uid, p)
    BY <1>2, <1>4
  <2>2. vault[path].uid \notin Minted
    BY <1>1 DEF VaultInv, Parsed
  <2>3. vault[p].uid = uid
    BY <2>1, <2>2 DEF IsUidOf
  <2> QED
    BY <1>1, <1>4, <2>1, <2>3, DistinctPages
<1> QED
  BY <1>1, <1>3, <1>4

\* What the pages are is what they were, while a run takes its steps.
Still ==
  /\ FreshRun /\ FreshRun' /\ Parsed' = Parsed
  /\ \A p : LinksIn(p)' = LinksIn(p) /\ LostIn(p)' = LostIn(p)
  /\ vault' = vault /\ types' = types

SameOf(uid) ==
  db'.rows[uid] = db.rows[uid] /\ LinksOf(uid)' = LinksOf(uid) /\ LostOf(uid)' = LostOf(uid)

LEMMA RowsStay ==
  ASSUME Still, NEW uid, NEW p, IsRowOf(uid, p), db'.rows[uid] = db.rows[uid]
  PROVE  IsRowOf(uid, p)'
BY DEF Still, IsRowOf, IsUidOf

\* Between two pages no document changes.
LEMMA BetweenPages ==
  ASSUME FreshInv, Still, run.pc \notin Writing, run'.pc \notin Writing,
         cut' \subseteq cut, Documents(db') = Documents(db),
         \A uid \in Documents(db) : SameOf(uid),
         Done \subseteq Done', Done' \cap Parsed \subseteq Done,
         run'.pc = "document" =>
           /\ IsUidOf(run.page.uid, run.page.path)'
           /\ run'.page.uid \notin Documents(db')
           /\ \A e \in db'.edges : e.from # run'.page.uid
  PROVE  FreshInv'
<1>1. cut' = {}
  BY DEF FreshInv, Still
<1>2. ASSUME NEW uid \in Documents(db'), NEW p, p = db'.rows[uid].path
      PROVE  /\ IsRowOf(uid, p)'
             /\ p \in Done' /\ LinksOf(uid)' = LinksIn(p)' /\ LostOf(uid)' = LostIn(p)'
  <2>1. p = db.rows[uid].path /\ SameOf(uid) /\ uid \in Documents(db)
    BY <1>2 DEF SameOf
  <2>2. IsRowOf(uid, p) /\ p \in Done /\ LinksOf(uid) = LinksIn(p) /\ LostOf(uid) = LostIn(p)
    BY <2>1 DEF FreshInv, Still
  <2> QED
    BY <2>1, <2>2, RowsStay DEF SameOf, Still
<1>3. ASSUME NEW p \in Done' \cap Parsed' PROVE RowsAt(p)' # {}
  <2>1. RowsAt(p) # {}
    BY <1>3 DEF FreshInv, Still
  <2> QED
    BY <2>1 DEF RowsAt, SameOf
<1>4. run'.pc \in UnderWay => run'.pc = "document"
  BY DEF UnderWay
<1> QED
  BY <1>1, <1>2, <1>3, <1>4 DEF FreshInv, Writing

\* Between two statements of a page no other document changes.
LEMMA BetweenStatements ==
  ASSUME FreshInv, Still, run.pc \in Writing, run'.pc \in Writing, cut' = cut,
         run'.page = run.page, run'.todo = run.todo, run'.list = run.list,
         db'.rows = db.rows, db'.findings = db.findings,
         \A uid \in Documents(db) : uid # run.page.uid => LinksOf(uid)' = LinksOf(uid),
         run'.pc \in {"claims", "edges"} => \A e \in db'.edges : e.from # run.page.uid,
         run'.pc \in {"chunks", "findings"} => LinksOf(run.page.uid)' = LinksIn(run.page.path)'
  PROVE  FreshInv'
<1>0. Done' = Done /\ Documents(db') = Documents(db) /\ run.pc # "idle" /\ run'.pc # "idle"
  BY DEF Done, Passed, Documents, Writing
<1>1. cut' = {}
  BY DEF FreshInv, Still
<1>2. ASSUME NEW uid \in Documents(db'), NEW p, p = db'.rows[uid].path
      PROVE  /\ IsRowOf(uid, p)'
             /\ uid # run.page.uid =>
                  p \in Done' /\ LinksOf(uid)' = LinksIn(p)' /\ LostOf(uid)' = LostIn(p)'
  <2>1. IsRowOf(uid, p) /\ uid \in Documents(db)
    BY <1>0, <1>2 DEF FreshInv, Still
  <2>2. uid # run.page.uid => p \in Done /\ LinksOf(uid) = LinksIn(p) /\ LostOf(uid) = LostIn(p)
    BY <1>0, <1>2 DEF FreshInv, Still
  <2>3. LostOf(uid)' = LostOf(uid)
    BY DEF LostOf
  <2> QED
    BY <1>0, <2>1, <2>2, <2>3, RowsStay DEF Still
<1>3. ASSUME NEW p \in Done' \cap Parsed' PROVE RowsAt(p)' # {}
  <2>1. RowsAt(p) # {}
    BY <1>0, <1>3 DEF FreshInv, Still
  <2> QED
    BY <1>0, <2>1 DEF RowsAt
<1>4. IsUidOf(run.page.uid, run.page.path)'
  BY DEF FreshInv, Still, IsUidOf, UnderWay
<1> QED
  BY <1>0, <1>1, <1>2, <1>3, <1>4 DEF FreshInv, UnderWay, Writing

\* The page under way is a page of the vault.
LEMMA PageIsListed ==
  ASSUME RunInv, VaultInv, WayInv, FreshRun, run.pc \in UnderWay
  PROVE  /\ run.page.path \in Parsed /\ vault[run.page.path] = run.page.page
         /\ run.types = types /\ IsPage(run.page.page)
         /\ run.pc \notin {"idle", "walk"}
<1>1. run.pc \notin {"idle", "walk"} /\ quiet
  BY DEF FreshRun, UnderWay, Writing
<1>2. run.page.path \in Listed /\ vault[run.page.path] = run.page.page /\ run.page.page.ok
        /\ run.types = types /\ IsPage(run.page.page)
  BY <1>1, PassedArePaths DEF WayInv
<1> QED
  BY <1>1, <1>2 DEF Parsed

LEMMA LinksAreNames ==
  ASSUME NEW page, IsPage(page)
  PROVE  \A l \in page.links : l.ref \in Names
BY DEF IsPage

LEMMA FirstStatement ==
  ASSUME RunInv, VaultInv, WayInv, FreshInv, Still, WritesRow
  PROVE  FreshInv'
<1>0. PICK uid, path : uid = run.page.uid /\ path = run.page.path
  OBVIOUS
<1>1. /\ run.pc = "document" /\ run'.pc = "claims" /\ run'.page = run.page /\ cut' = cut
      /\ run'.todo = run.todo /\ run'.list = run.list
      /\ db'.rows[uid] = PageRow /\ \A u \in Uids \ {uid} : db'.rows[u] = db.rows[u]
      /\ db'.findings = db.findings /\ db'.edges = db.edges
  BY <1>0 DEF WritesRow, Statement, RunKeeps, OthersKeep
<1>2. /\ path \in Parsed /\ PageRow = RowOf(path, vault[path], types) /\ PageRow.path = path
      /\ uid \in Uids
  BY <1>0, <1>1, PageIsListed DEF PageRow, Still, UnderWay, RowOf, RunInv, PageInv
<1>3. uid \notin Documents(db) /\ IsUidOf(uid, path) /\ cut = {}
        /\ \A e \in db.edges : e.from # uid
  BY <1>0, <1>1 DEF FreshInv, Still, UnderWay
<1>4. Done' = Done /\ Documents(db') \subseteq Documents(db) \cup {uid} /\ Documents(db) \subseteq Documents(db')
  BY <1>1, <1>3 DEF Done, Passed, Documents
<1>5. IsRowOf(uid, path)' /\ IsUidOf(uid, path)'
  BY <1>1, <1>2, <1>3 DEF IsRowOf, IsUidOf, Still
<1>6. ASSUME NEW u \in Documents(db'), NEW p, p = db'.rows[u].path
      PROVE  /\ IsRowOf(u, p)'
             /\ u # uid => p \in Done' /\ LinksOf(u)' = LinksIn(p)' /\ LostOf(u)' = LostIn(p)'
  <2>1. CASE u = uid
    BY <1>1, <1>2, <1>5, <1>6, <2>1
  <2>2. CASE u # uid
    <3>1. u \in Documents(db) /\ db'.rows[u] = db.rows[u] /\ p = db.rows[u].path
      BY <1>1, <1>4, <1>6, <2>2 DEF Documents
    <3>2. IsRowOf(u, p) /\ p \in Done /\ LinksOf(u) = LinksIn(p) /\ LostOf(u) = LostIn(p)
      BY <1>1, <3>1 DEF FreshInv, Still, Writing
    <3>3. LinksOf(u)' = LinksOf(u) /\ LostOf(u)' = LostOf(u)
      BY <1>1 DEF LinksOf, LostOf
    <3> QED
      BY <1>4, <3>1, <3>2, <3>3, RowsStay DEF Still
  <2> QED
    BY <2>1, <2>2
<1>7. ASSUME NEW p \in Done' \cap Parsed' PROVE RowsAt(p)' # {}
  <2>1. RowsAt(p) # {}
    BY <1>4, <1>7 DEF FreshInv, Still
  <2>2. \A u \in RowsAt(p) : u \in RowsAt(p)'
    BY <1>1, <1>3, <1>4 DEF RowsAt, Documents
  <2> QED
    BY <2>1, <2>2
<1> QED
  BY <1>0, <1>1, <1>3, <1>5, <1>6, <1>7 DEF FreshInv, Writing, UnderWay

\* The links written are those of the page.
LEMMA LinkStatement ==
  ASSUME RunInv, VaultInv, WayInv, IndexInv, FreshInv, Still, WritesEdges
  PROVE  FreshInv'
<1>0. PICK uid, path : uid = run.page.uid /\ path = run.page.path
  OBVIOUS
<1>1. /\ run.pc = "edges" /\ run'.pc = "chunks" /\ run'.page = run.page /\ cut' = cut
      /\ run'.todo = run.todo /\ run'.list = run.list
      /\ db'.rows = db.rows /\ db'.findings = db.findings
      /\ PageEdges \subseteq db'.edges /\ db'.edges \subseteq db.edges \cup PageEdges
      /\ \A e \in db.edges : e.from # uid => e \in db'.edges
  BY <1>0 DEF WritesEdges, Statement, RunKeeps
<1>2. /\ path \in Parsed /\ vault[path] = run.page.page /\ IsPage(run.page.page)
      /\ quiet /\ Distinct /\ run.pc \notin {"idle", "walk"}
  BY <1>0, <1>1, PageIsListed DEF Still, FreshRun, UnderWay, Writing
<1>3. PageScope \in Scopes /\ PageScope = ScopeOf(path, vault[path])
  BY <1>0, <1>1, <1>2, PagesHaveAPlace DEF PageScope, WayInv, UnderWay, Writing
<1>4. \A e \in db.edges : e.from # uid
  BY <1>0, <1>1 DEF FreshInv, Still
<1>5. \A l \in vault[path].links :
        Resolve(l.ref, PageScope, run.index).uid = Target(l.ref, PageScope)
  <2>1. \A l \in vault[path].links : l.ref \in Names
    BY <1>2, LinksAreNames
  <2> QED
    BY <1>2, <1>3, <2>1, ResolvesToTarget
<1>6. /\ \A e \in PageEdges : e.from = uid
                 /\ \E l \in vault[path].links :
                      e.ref = l.ref /\ e.field = l.field /\ e.to = Target(l.ref, PageScope)
      /\ \A l \in vault[path].links : \E e \in PageEdges :
           e.ref = l.ref /\ e.field = l.field /\ e.to = Target(l.ref, PageScope)
  <2> DEFINE Edge(link) ==
               LET found == Resolve(link.ref, PageScope, run.index).uid IN
               [from |-> uid, to |-> found, ref |-> link.ref,
                kind |-> IF found = None THEN "dangling" ELSE link.kind, field |-> link.field]
  <2>1. PageEdges = {Edge(link) : link \in vault[path].links}
    BY <1>0, <1>2 DEF PageEdges, EdgesOf
  <2>2. \A l \in vault[path].links :
          /\ Edge(l).from = uid /\ Edge(l).ref = l.ref /\ Edge(l).field = l.field
          /\ Edge(l).to = Target(l.ref, PageScope)
    BY <1>5
  <2> HIDE DEF Edge
  <2> QED
    BY <2>1, <2>2
<1>7. LinksOf(uid)' = LinksIn(path)'
  <2>1. {f \in db'.edges : f.from = uid} = PageEdges
    BY <1>1, <1>4, <1>6
  <2>2. LinksOf(uid)' = {<<e.ref, e.field, e.to>> : e \in PageEdges}
    BY <2>1 DEF LinksOf
  <2>3. LinksIn(path) = {<<l.ref, l.field, Target(l.ref, PageScope)>> : l \in vault[path].links}
    BY <1>3 DEF LinksIn
  <2>4. {<<e.ref, e.field, e.to>> : e \in PageEdges}
          = {<<l.ref, l.field, Target(l.ref, PageScope)>> : l \in vault[path].links}
    BY <1>6
  <2> QED
    BY <2>2, <2>3, <2>4 DEF Still
<1>8. \A u \in Documents(db) : u # uid => LinksOf(u)' = LinksOf(u)
  <2>1. \A u : u # uid => {f \in db'.edges : f.from = u} = {f \in db.edges : f.from = u}
    BY <1>1, <1>6
  <2> QED
    BY <2>1 DEF LinksOf
<1> QED
  BY <1>0, <1>1, <1>7, <1>8, BetweenStatements DEF Writing

\* The last statement of a page: what it refers to in vain is what names no page.
LEMMA LastStatement ==
  ASSUME RunInv, VaultInv, WayInv, IndexInv, FreshInv, Still, WritesFindings
  PROVE  FreshInv'
<1>0. PICK uid, path : uid = run.page.uid /\ path = run.page.path
  OBVIOUS
<1>1. /\ run.pc = "findings" /\ run'.pc = "index" /\ cut' = cut \ {uid}
      /\ run'.todo = run.todo \ {path} /\ run'.list = run.list
      /\ db'.rows = db.rows /\ db'.edges = db.edges
      /\ \A u \in Uids \ {uid} : db'.findings[u] = db.findings[u]
      /\ db'.findings[uid] = FindingsOf(run.page.page, run.types)
                               \cup RefFindingsOf(run.page.page, PageScope, run.index)
  BY <1>0 DEF WritesFindings, RunKeeps, OthersKeep
<1>2. /\ path \in Parsed /\ vault[path] = run.page.page /\ IsPage(run.page.page)
      /\ quiet /\ Distinct /\ run.pc \notin {"idle", "walk"}
  BY <1>0, <1>1, PageIsListed DEF Still, FreshRun, UnderWay, Writing
<1>3. PageScope \in Scopes /\ PageScope = ScopeOf(path, vault[path])
  BY <1>0, <1>1, <1>2, PagesHaveAPlace DEF PageScope, WayInv, UnderWay, Writing
<1>4. \A l \in vault[path].links :
        Resolve(l.ref, PageScope, run.index).uid = Target(l.ref, PageScope)
  <2>1. \A l \in vault[path].links : l.ref \in Names
    BY <1>2, LinksAreNames
  <2> QED
    BY <1>2, <1>3, <2>1, ResolvesToTarget
<1>5. \A f \in FindingsOf(run.page.page, run.types) : f.rule # "dangling_ref"
  <2>1. \A f \in FindingsOf(run.page.page, run.types) :
          \E rule \in run.page.page.flags \cup {"oversize", "too_many_claims", "missing_claims"} :
            f = Finding(rule)
    BY DEF FindingsOf
  <2>2. \A rule : Finding(rule).rule = rule
    BY DEF Finding
  <2>3. "dangling_ref" \notin run.page.page.flags
    BY <1>2 DEF IsPage
  <2> QED
    BY <2>1, <2>2, <2>3
<1>6. LostOf(uid)' = LostIn(path)'
  <2> DEFINE Raised(ref) ==
               LET found == Resolve(ref, PageScope, run.index) IN
               [rule |-> IF found.uid = None THEN "dangling_ref" ELSE "resolved_ref",
                detail |-> ref, via |-> found.rung]
             refs == {l.ref : l \in vault[path].links}
  <2>1. RefFindingsOf(run.page.page, PageScope, run.index) = {Raised(ref) : ref \in refs}
    BY <1>2 DEF RefFindingsOf
  <2>2. \A ref : /\ Raised(ref).detail = ref
                 /\ Raised(ref).rule = "dangling_ref" <=> Resolve(ref, PageScope, run.index).uid = None
    OBVIOUS
  <2> HIDE DEF Raised
  <2>3. {f.detail : f \in {g \in db'.findings[uid] : g.rule = "dangling_ref"}}
          = {ref \in refs : Resolve(ref, PageScope, run.index).uid = None}
    BY <1>1, <1>5, <2>1, <2>2
  <2>4. {ref \in refs : Resolve(ref, PageScope, run.index).uid = None}
          = {l.ref : l \in {k \in vault[path].links : Target(k.ref, PageScope) = None}}
    BY <1>4
  <2> QED
    BY <1>3, <2>3, <2>4, SMTT(30) DEF LostOf, LostIn, Still
<1>7. /\ uid \in Documents(db) /\ db.rows[uid].path = path /\ IsRowOf(uid, path)
      /\ LinksOf(uid) = LinksIn(path)
  <2>1. uid \in Documents(db) /\ db.rows[uid].path = path
    BY <1>0, <1>1 DEF RunInv, PageInv, Owned, Writing, RowOf
  <2> QED
    BY <1>0, <1>1, <2>1 DEF FreshInv, Still
<1>8. Done' = Done \cup {path} /\ Documents(db') = Documents(db)
  BY <1>0, <1>1, UnderWayIsNotPassed DEF Done, Passed, Documents, UnderWay, Writing
<1>9. ASSUME NEW u \in Documents(db'), NEW p, p = db'.rows[u].path
      PROVE  /\ IsRowOf(u, p)'
             /\ p \in Done' /\ LinksOf(u)' = LinksIn(p)' /\ LostOf(u)' = LostIn(p)'
  <2>0. LinksOf(u)' = LinksOf(u) /\ u \in Documents(db) /\ p = db.rows[u].path
    BY <1>1, <1>8, <1>9 DEF LinksOf
  <2>1. CASE u = uid
    BY <1>1, <1>6, <1>7, <1>8, <2>0, <2>1, RowsStay DEF Still
  <2>2. CASE u # uid
    <3>1. IsRowOf(u, p) /\ p \in Done /\ LinksOf(u) = LinksIn(p) /\ LostOf(u) = LostIn(p)
      BY <1>0, <1>1, <2>0, <2>2 DEF FreshInv, Still
    <3>2. LostOf(u)' = LostOf(u)
      BY <1>1, <2>0, <2>2 DEF LostOf, Documents
    <3> QED
      BY <1>1, <1>8, <2>0, <3>1, <3>2, RowsStay DEF Still
  <2> QED
    BY <2>1, <2>2
<1>10. ASSUME NEW p \in Done' \cap Parsed' PROVE RowsAt(p)' # {}
  <2>1. RowsAt(p)' = RowsAt(p)
    BY <1>1, <1>8 DEF RowsAt
  <2>2. CASE p = path
    BY <1>7, <2>1, <2>2 DEF RowsAt
  <2>3. CASE p # path
    BY <1>8, <1>10, <2>1, <2>3 DEF FreshInv, Still
  <2> QED
    BY <2>2, <2>3
<1>11. cut' = {}
  BY <1>1 DEF FreshInv, Still
<1> QED
  BY <1>1, <1>9, <1>10, <1>11 DEF FreshInv, Writing, UnderWay

LEMMA FreshStandsOn ==
  ASSUME RunInv, WalkInv, IndexInv, FreshInv, StepCase
  PROVE  FreshInv'
<1> SUFFICES ASSUME FreshRun' PROVE FreshInv'
  BY DEF FreshInv
<1>0. VaultInv /\ WayInv /\ RowsStand(db)
  BY DEF WalkInv
<1>1. CASE Outside
  <2>1. UNCHANGED <<vault, types, quiet, db, run, outcome, cut, fresh>>
    BY <1>1 DEF Outside, FreshRun
  <2>a. Parsed' = Parsed /\ Listed' = Listed /\ (Distinct' => Distinct)
        /\ \A ref, scope : Target(ref, scope)' = Target(ref, scope)
    BY <2>1, DistinctStays
  <2>b. FreshRun
    BY <2>1, <2>a DEF FreshRun, Complete
  <2>c. Done' = Done
    BY <2>1, <2>a DEF Done, Passed
  <2>d. \A p : LinksIn(p)' = LinksIn(p) /\ LostIn(p)' = LostIn(p)
    BY <2>1, <2>a DEF LinksIn, LostIn
  <2>e. \A p : RowsAt(p)' = RowsAt(p)
    BY <2>1 DEF RowsAt, Documents
  <2>2. /\ FreshRun /\ Parsed' = Parsed /\ Done' = Done
        /\ \A p : LinksIn(p)' = LinksIn(p) /\ LostIn(p)' = LostIn(p) /\ RowsAt(p)' = RowsAt(p)
    BY <2>a, <2>b, <2>c, <2>d, <2>e
  <2>3. \A uid : LinksOf(uid)' = LinksOf(uid) /\ LostOf(uid)' = LostOf(uid)
    BY <2>1 DEF LinksOf, LostOf
  <2>4. \A uid, p : IsUidOf(uid, p)' = IsUidOf(uid, p) /\ IsRowOf(uid, p)' = IsRowOf(uid, p)
    BY <2>1, <2>2 DEF IsUidOf, IsRowOf
  <2> QED
    BY <2>1, <2>2, <2>3, <2>4 DEF FreshInv, Documents
<1>2. CASE Begins
  <2>1. /\ run'.pc = "walk" /\ cut' = {} /\ Documents(db') = {}
    BY <1>0, <1>2 DEF Begins, FreshRun, WayInv
  <2>2. Done' = {}
    BY <2>1 DEF Done, Passed
  <2> QED
    BY <2>1, <2>2 DEF FreshInv, UnderWay, Writing
<1>3. CASE Stops
  BY <1>3 DEF Stops, FreshRun, Complete
<1>4. ASSUME UNCHANGED <<vault, types, quiet, fresh>>, run.pc # "idle" PROVE Still
  BY <1>4, FreshStays DEF Still
<1>5. ASSUME db'.rows = db.rows, db'.edges = db.edges, db'.findings = db.findings
      PROVE  Documents(db') = Documents(db) /\ \A uid : SameOf(uid)
  BY <1>5 DEF Documents, SameOf, LinksOf, LostOf
<1>6. CASE (\E path \in run.todo : Walks1(path)) \/ Turns
  <2>2. UNCHANGED <<vault, types, quiet, fresh, db, cut>>
    BY <1>6 DEF Walks1, Turns, RunKeeps
  <2>3. Done = {} /\ Done' = {}
    BY <1>6 DEF Walks1, Turns, RunKeeps, Done, Passed
  <2>4. Still /\ Documents(db') = Documents(db) /\ \A uid : SameOf(uid)
    BY <1>4, <1>5, <2>2, <1>6 DEF Walks1, Turns
  <2> QED
    BY <1>6, <2>2, <2>3, <2>4, BetweenPages DEF Walks1, Turns, Writing
<1>7. CASE \E path \in run.todo : Unparsed(path) \/ PassesOver(path) \/ TakesUp(path)
  <2>1. PICK path \in run.todo : Unparsed(path) \/ PassesOver(path) \/ TakesUp(path)
    BY <1>7
  <2>2. /\ run.pc = "index" /\ UNCHANGED <<vault, types, quiet, fresh, cut>>
        /\ db'.rows = db.rows /\ db'.edges = db.edges /\ db'.findings = db.findings
        /\ run'.list = run.list /\ vault[path] # NoPage
    BY <2>1 DEF Unparsed, PassesOver, TakesUp, Recovered, Looks, RunKeeps, SameDocuments
  <2>3. Still /\ FreshRun /\ quiet /\ Documents(db') = Documents(db) /\ \A uid : SameOf(uid)
    BY <1>4, <1>5, <2>2 DEF Still, FreshRun
  <2>4. CASE Unparsed(path)
    <3>1. run'.pc = "index" /\ Done = Passed /\ Done' = Passed \cup {path} /\ path \notin Parsed
      BY <1>0, <2>2, <2>4, NextIsPassed DEF Unparsed, Done, Parsed
    <3> QED
      BY <2>2, <2>3, <3>1, BetweenPages DEF Writing
  <2>5. CASE PassesOver(path)
    BY <1>0, <2>2, <2>3, <2>5, NoRowYet DEF PassesOver, Recovered
  <2>6. CASE TakesUp(path)
    <3> DEFINE uid == ResolveUID(vault[path], Found(path), db)
    <3>1. /\ run'.pc = "document" /\ run'.todo = run.todo /\ vault[path].ok
          /\ uid \in Uids /\ run'.page.path = path /\ run'.page.uid = uid
      BY <2>6 DEF TakesUp, Recovered
    <3>2. /\ Found(path) = None
          /\ vault[path].uid # None => vault[path].uid \notin Documents(db)
      BY <1>0, <2>2, <2>3, <3>1, NoRowYet
    <3>3. uid = IF vault[path].uid # None THEN vault[path].uid ELSE NewUID(db)
      BY <3>2 DEF ResolveUID
    <3> HIDE DEF uid
    <3>4. NewUID(db) # None => NewUID(db) \in Minted \ Documents(db)
      BY DEF NewUID
    <3>5. /\ vault[path].uid = uid \/ (vault[path].uid = None /\ uid \in Minted)
          /\ uid \notin Documents(db)
      BY <3>1, <3>2, <3>3, <3>4, NoneIsApart
    <3>6. \A e \in db'.edges : e.from # uid
      BY <2>2, <3>5 DEF RunInv, NothingLeft
    <3>7. Done' = Done
      BY <2>2, <3>1 DEF Done, Passed
    <3>8. IsUidOf(run.page.uid, run.page.path)' /\ run'.page.uid \notin Documents(db')
            /\ \A e \in db'.edges : e.from # run'.page.uid
      BY <2>2, <2>3, <3>1, <3>5, <3>6 DEF IsUidOf
    <3> QED
      BY <2>2, <2>3, <3>1, <3>7, <3>8, BetweenPages DEF Writing
  <2> QED
    BY <2>1, <2>4, <2>5, <2>6
<1>8. ASSUME WritesRow \/ WritesClaims \/ WritesEdges \/ WritesChunks \/ WritesFindings
             \/ Prunes
      PROVE  Still
  <2>1. /\ run.pc \notin {"idle", "walk"} /\ UNCHANGED <<vault, types, quiet, fresh>>
    BY <1>8 DEF WritesRow, WritesClaims, WritesEdges, WritesChunks, WritesFindings, Prunes,
         Statement, RunKeeps
  <2> QED
    BY <1>4, <2>1
<1>9. CASE WritesRow
  BY <1>0, <1>8, <1>9, FirstStatement
<1>10. CASE WritesEdges
  BY <1>0, <1>8, <1>10, LinkStatement
<1>11. CASE WritesFindings
  BY <1>0, <1>8, <1>11, LastStatement
<1>12. CASE WritesClaims \/ WritesChunks
  <2>1. /\ run.pc \in Writing /\ run'.pc \in Writing /\ cut' = cut
        /\ run'.page = run.page /\ run'.todo = run.todo /\ run'.list = run.list
        /\ db'.rows = db.rows /\ db'.findings = db.findings /\ db'.edges = db.edges
        /\ \/ run.pc = "claims" /\ run'.pc = "edges"
           \/ run.pc = "chunks" /\ run'.pc = "findings"
    BY <1>12 DEF WritesClaims, WritesChunks, Statement, RunKeeps, Writing
  <2>2. Still
    BY <1>8, <1>12
  <2>3. \A uid : LinksOf(uid)' = LinksOf(uid)
    BY <2>1 DEF LinksOf
  <2>4. run.pc = "claims" => \A e \in db'.edges : e.from # run.page.uid
    BY <2>1, <2>2 DEF FreshInv, Still
  <2>5. run.pc = "chunks" => LinksOf(run.page.uid)' = LinksIn(run.page.path)'
    <3>1. PICK uid, path : uid = run.page.uid /\ path = run.page.path
      OBVIOUS
    <3>2. run.pc = "chunks" => LinksOf(uid) = LinksIn(path)
      BY <2>2, <3>1 DEF FreshInv, Still
    <3>3. run.pc = "chunks" => LinksOf(uid)' = LinksIn(path)'
      BY <2>2, <2>3, <3>2 DEF Still
    <3>4. uid = run'.page.uid /\ path = run'.page.path
      BY <2>1, <3>1
    <3> QED
      BY <3>3, <3>4
  <2> QED
    BY <2>1, <2>2, <2>3, <2>4, <2>5, BetweenStatements
<1>13. CASE Prunes
  <2>1. /\ run.pc = "index" /\ run'.pc = "embed" /\ run'.todo = run.todo /\ run'.list = run.list
        /\ cut' = cut \cap Documents(db') /\ Documents(db') = Documents(db) \ Dead
        /\ \A uid \in Uids \ Dead :
             db'.rows[uid] = db.rows[uid] /\ db'.findings[uid] = db.findings[uid]
        /\ db'.edges = {e \in db.edges : e.from \notin Dead /\ e.to \notin Dead}
    BY <1>13 DEF Prunes, RunKeeps
  <2>2. Still /\ quiet
    BY <1>8, <1>13 DEF Still, FreshRun
  <2>3. Dead = {}
    <3>1. ASSUME NEW uid \in Dead PROVE FALSE
      <4>1. uid \in Documents(db) /\ db.rows[uid].path \notin run.list
        BY <3>1 DEF Dead, Owned
      <4>2. db.rows[uid].path \in Parsed
        BY <4>1, <2>2 DEF FreshInv, Still, IsRowOf
      <4>3. run.list = Listed
        BY <2>1, <2>2 DEF RunInv, PruneInv
      <4> QED
        BY <4>1, <4>2, <4>3 DEF Parsed
    <3> QED
      BY <3>1
  <2>4. Documents(db') = Documents(db) /\ db'.edges = db.edges /\ cut' \subseteq cut
    BY <2>1, <2>3
  <2>5. \A uid \in Documents(db) : SameOf(uid)
    BY <2>1, <2>3, <2>4 DEF SameOf, LinksOf, LostOf, Documents
  <2>6. Done' = Done
    BY <2>1 DEF Done, Passed
  <2> QED
    BY <2>1, <2>2, <2>4, <2>5, <2>6, BetweenPages DEF Writing
<1>14. CASE Finishes
  <2>1. /\ run.pc = "embed" /\ run'.pc = "idle" /\ run.todo = {}
        /\ UNCHANGED <<vault, types, quiet, fresh, cut>>
        /\ db'.rows = db.rows /\ db'.edges = db.edges /\ db'.findings = db.findings
    BY <1>0, <1>14 DEF Finishes, SameDocuments, WayInv
  <2>2. Still /\ quiet /\ Documents(db') = Documents(db) /\ \A uid : SameOf(uid)
    BY <1>4, <1>5, <2>1 DEF Still, FreshRun
  <2>3. Listed' = Listed /\ run.list = Listed
    BY <2>1, <2>2 DEF Listed, RunInv, PruneInv
  <2>4. Done = Done'
    BY <2>1, <2>3 DEF Done, Passed
  <2> QED
    BY <2>1, <2>2, <2>4, BetweenPages DEF Writing
<1> QED
  BY <1>1, <1>2, <1>3, <1>6, <1>7, <1>9, <1>10, <1>11, <1>12, <1>13, <1>14 DEF StepCase

LEMMA FreshInitially == Init => IndexInv /\ FreshInv
<1>1. Init => run.pc = "idle" /\ ~ fresh
  BY DEF Init, Resting
<1> QED
  BY <1>1 DEF IndexInv, FreshInv, FreshRun

LEMMA StepsKeepFresh == RunInv /\ WalkInv /\ IndexInv /\ FreshInv /\ [Next]_vars
                          => IndexInv' /\ FreshInv'
<1> SUFFICES ASSUME RunInv, WalkInv, IndexInv, FreshInv, [Next]_vars
             PROVE  IndexInv' /\ FreshInv'
  OBVIOUS
<1>1. StepCase
  BY EveryStep
<1>2. IndexInv'
  BY <1>1, NamesStandOn DEF WalkInv
<1>3. FreshInv'
  BY <1>1, FreshStandsOn
<1> QED
  BY <1>2, <1>3

\* A run that began with no document knows what it has registered, and what it
\* has written is what the pages it passed say.
THEOREM FreshHolds == Spec => [](IndexInv /\ FreshInv)
<1> QED
  BY RunHolds, WalkHolds, FreshInitially, StepsKeepFresh, PTL DEF Spec

\* pipeline.go (Run): a run over tables without a document derives all of them
\* from the vault, whatever the order the pages are walked in: rows, claims,
\* chunks, links, also to pages further on, and lost references.
THEOREM RebuildsAreExact == Spec => []RebuildIsExact
<1>1. RunInv /\ WalkInv /\ FreshInv => RebuildIsExact
  <2> SUFFICES ASSUME RunInv, WalkInv, FreshInv, Complete, Distinct, fresh
               PROVE  RebuildIsExact
    BY DEF RebuildIsExact
  <2>1. FreshRun /\ run.pc = "idle" /\ Done = Listed /\ run.pc \notin Writing /\ cut = {}
    BY DEF FreshRun, Complete, Done, Writing, FreshInv
  <2>2. ASSUME NEW uid \in Documents(db), NEW p, p = db.rows[uid].path
        PROVE  /\ IsRowOf(uid, p) /\ LinksOf(uid) = LinksIn(p) /\ LostOf(uid) = LostIn(p)
               /\ OneVersion(db, uid)
    BY <2>1, <2>2 DEF FreshInv, RunInv, TextInv
  <2>3. ASSUME NEW p \in Parsed
        PROVE  \E uid \in Uids :
                 /\ RowsAt(p) = {uid} /\ vault[p].uid \in {uid, None}
                 /\ db.rows[uid] = RowOf(p, vault[p], types)
                 /\ db.claims[uid] = ClaimsOf(vault[p], types)
                 /\ db.chunks[uid] = ChunkBody(vault[p].body)
                 /\ LinksOf(uid) = LinksIn(p) /\ LostOf(uid) = LostIn(p)
    <3>1. RowsAt(p) # {}
      BY <2>1, <2>3 DEF FreshInv, Parsed
    <3>2. PICK uid \in Documents(db) : db.rows[uid].path = p
      BY <3>1 DEF RowsAt
    <3>3. /\ IsRowOf(uid, p) /\ LinksOf(uid) = LinksIn(p) /\ LostOf(uid) = LostIn(p)
          /\ OneVersion(db, uid)
      BY <2>2, <3>2
    <3>4. db.rows[uid] = RowOf(p, vault[p], types) /\ vault[p].uid \in {uid, None}
      BY <3>3 DEF IsRowOf, IsUidOf
    <3>5. db.rows[uid].version = vault[p] /\ db.rows[uid].print = types
      BY <3>4, RowIsNoNoRow
    <3>6. ASSUME NEW other \in RowsAt(p) PROVE other = uid
      <4>1. other \in Documents(db) /\ db.rows[other].path = p
        BY DEF RowsAt
      <4>2. db.rows[other] = RowOf(p, vault[p], types)
        BY <2>2, <4>1 DEF IsRowOf
      <4>3. db.rows[other].version = vault[p]
        BY <4>2, RowIsNoNoRow
      <4> QED
        BY <3>2, <3>5, <4>1, <4>3, OneRowOfAPage DEF WalkInv
    <3>7. RowsAt(p) = {uid} /\ uid \in Uids
      BY <3>2, <3>6 DEF RowsAt, Documents
    <3> QED
      BY <3>3, <3>4, <3>5, <3>7 DEF OneVersion
  <2>4. {db.rows[uid].path : uid \in Documents(db)} = Parsed
    <3>1. \A uid \in Documents(db) : db.rows[uid].path \in Parsed
      BY <2>2 DEF IsRowOf
    <3>2. \A p \in Parsed : \E uid \in Documents(db) : db.rows[uid].path = p
      BY <2>3 DEF RowsAt
    <3> QED
      BY <3>1, <3>2
  <2> QED
    BY <2>3, <2>4 DEF RebuildIsExact, LinksOf, LinksIn, LostOf, LostIn
<1> QED
  BY <1>1, RunHolds, WalkHolds, FreshHolds, PTL

-------------------------------------------------------------------------------
(* Every page has its row. *)

LEMMA OrderStandsOn ==
  ASSUME WayInv, OrderInv, StepCase
  PROVE  OrderInv'
<1>1. CASE Outside
  BY <1>1 DEF Outside, OrderInv, Passed, IsNext, UnderWay, Writing
<1>2. CASE Begins \/ Stops
  BY <1>2 DEF Begins, Stops, OrderInv, Passed, UnderWay, Writing
<1>3. CASE (\E path \in run.todo : Walks1(path)) \/ Turns
  BY <1>3 DEF Walks1, Turns, RunKeeps, OrderInv, Passed, UnderWay, Writing
<1>4. CASE \E path \in run.todo : Unparsed(path) \/ PassesOver(path)
  <2>1. PICK path \in run.todo : Unparsed(path) \/ PassesOver(path)
    BY <1>4
  <2>2. /\ run.pc = "index" /\ run'.pc = "index" /\ IsNext(path)
        /\ run'.todo = run.todo \ {path} /\ run'.list = run.list
    BY <2>1 DEF Unparsed, PassesOver, Recovered, Looks, RunKeeps
  <2>3. Passed' = Passed \cup {path}
    BY <2>2, NextIsPassed
  <2> QED
    BY <2>2, <2>3 DEF OrderInv, IsNext, UnderWay, Writing
<1>5. CASE \E path \in run.todo : TakesUp(path)
  <2>1. PICK path \in run.todo : TakesUp(path)
    BY <1>5
  <2>2. /\ run.pc = "index" /\ run'.pc = "document" /\ IsNext(path)
        /\ run'.todo = run.todo /\ run'.list = run.list /\ run'.page.path = path
    BY <2>1 DEF TakesUp, Recovered, Looks, RunKeeps
  <2>3. Passed' = Passed
    BY <2>2, PassedStays
  <2> QED
    BY <2>2, <2>3 DEF OrderInv, IsNext
<1>6. CASE WritesRow \/ WritesClaims \/ WritesEdges \/ WritesChunks
  <2>1. /\ run.pc \in UnderWay /\ run'.pc \in UnderWay /\ run'.page = run.page
        /\ run'.todo = run.todo /\ run'.list = run.list
    BY <1>6 DEF WritesRow, WritesClaims, WritesEdges, WritesChunks, Statement, RunKeeps, UnderWay,
         Writing
  <2>2. Passed' = Passed
    BY <2>1, PassedStays DEF UnderWay, Writing
  <2> QED
    BY <2>1, <2>2 DEF OrderInv, IsNext, UnderWay, Writing
<1>7. CASE WritesFindings
  <2>0. PICK path : path = run.page.path
    OBVIOUS
  <2>1. /\ run.pc = "findings" /\ run.pc \in UnderWay /\ run'.pc = "index"
        /\ run'.todo = run.todo \ {path} /\ run'.list = run.list
    BY <1>7, <2>0 DEF WritesFindings, RunKeeps, UnderWay, Writing
  <2>2. Passed' = Passed \cup {path} /\ IsNext(path)
    BY <2>0, <2>1, UnderWayIsNotPassed DEF Passed, OrderInv
  <2> QED
    BY <2>1, <2>2 DEF OrderInv, IsNext, UnderWay, Writing
<1>8. CASE Prunes \/ Finishes
  BY <1>8 DEF Prunes, Finishes, OrderInv, UnderWay, Writing
<1> QED
  BY <1>1, <1>2, <1>3, <1>4, <1>5, <1>6, <1>7, <1>8 DEF StepCase

\* The uid of a page that carries none is a new one, or that of its slot.
TakenInv ==
  run.pc = "document" /\ run.page.page.uid = None /\ run.page.uid \in Documents(db) =>
    LET row == db.rows[run.page.uid] IN
    row.scope = PageScope /\ row.slug = SlugOf(run.page.path, run.page.page)

LEMMA TakenStandsOn ==
  ASSUME RunInv, TakenInv, StepCase
  PROVE  TakenInv'
<1>1. CASE Outside
  BY <1>1 DEF Outside, TakenInv, PageScope, Documents
<1>2. CASE \E path \in run.todo : TakesUp(path)
  <2>1. PICK path \in run.todo : TakesUp(path)
    BY <1>2
  <2>2. /\ run'.pc = "document" /\ db'.rows = db.rows
        /\ run'.page = [path |-> path, page |-> vault[path],
                        uid |-> ResolveUID(vault[path], Found(path), db)]
    BY <2>1 DEF TakesUp, Recovered, Looks, SameDocuments
  <2>3. SUFFICES ASSUME vault[path].uid = None, run'.page.uid \in Documents(db)
        PROVE  LET row == db.rows[run'.page.uid] IN
               row.scope = ScopeOf(path, vault[path]) /\ row.slug = SlugOf(path, vault[path])
    BY <2>2 DEF TakenInv, PageScope, Documents
  <2>4. CASE Found(path) # None
    BY <2>2, <2>3, <2>4, FoundIsOfTheSlot DEF ResolveUID
  <2>5. CASE Found(path) = None
    <3>1. run'.page.uid = NewUID(db)
      BY <2>2, <2>3, <2>5 DEF ResolveUID
    <3>2. NewUID(db) \notin Documents(db)
      BY NoneIsApart DEF NewUID, Documents
    <3> QED
      BY <2>3, <3>1, <3>2
  <2> QED
    BY <2>4, <2>5
<1>3. CASE run'.pc # "document"
  BY <1>3 DEF TakenInv
<1> QED
  BY <1>1, <1>2, <1>3
     DEF StepCase, Begins, Stops, Walks1, Turns, Unparsed, PassesOver, WritesRow, WritesClaims,
         WritesEdges, WritesChunks, WritesFindings, Prunes, Finishes, Statement

\* A page that has its row keeps it while the row is not written.
LEMMA RowIsKept ==
  ASSUME vault' = vault, NEW p, NEW limits, NEW uid \in RowsAt(p),
         db.rows[uid] = RowOf(p, vault[p], limits), db'.rows[uid] = db.rows[uid]
  PROVE  IsIndexed(p, limits)'
<1>1. uid \in RowsAt(p)'
  BY DEF RowsAt, Documents
<1> QED
  BY <1>1 DEF IsIndexed

\* The row the page under way writes is none of a page that has been passed.
LEMMA OtherRow ==
  ASSUME RunInv, WalkInv, OrderInv, TakenInv, NoneTaken, run.pc = "document", quiet, Distinct,
         NEW p \in Passed \cap Parsed, NEW uid \in RowsAt(p), db.rows[uid].version = vault[p]
  PROVE  uid # run.page.uid
<1> SUFFICES ASSUME uid = run.page.uid PROVE FALSE
  OBVIOUS
<1>0. PICK path : path = run.page.path
  OBVIOUS
<1>1. /\ path \in Parsed /\ vault[path] = run.page.page /\ p # path /\ Walks(p, path)
      /\ run.page.page.uid \in {uid, None}
  <2>1. path \in run.todo /\ path \notin Passed /\ vault[path] = run.page.page
          /\ run.page.page.ok /\ run.page.page.uid \in {uid, None}
    BY <1>0, UnderWayIsNotPassed DEF WalkInv, WayInv, UnderWay
  <2>2. path \in Parsed
    BY <2>1, PassedArePaths DEF WalkInv, Parsed
  <2> QED
    BY <2>1, <2>2 DEF OrderInv
<1>2. /\ uid \in Documents(db) /\ uid \in Uids /\ uid # None /\ db.rows[uid].path = p
      /\ vault[p].uid \in {uid, None}
      /\ db.rows[uid].scope = ScopeOf(p, vault[p]) /\ db.rows[uid].slug = SlugOf(p, vault[p])
  BY RowsAreOfPages, NoneIsApart DEF RowsAt, Documents, WalkInv, RowsStand
<1>3. CASE run.page.page.uid = uid
  BY <1>1, <1>2, <1>3, DistinctPages DEF NoneTaken
<1>4. CASE run.page.page.uid = None
  <2>1. Slot(p) = Slot(path)
    BY <1>0, <1>1, <1>2, <1>4 DEF TakenInv, Slot, PageScope
  <2> QED
    BY <1>1, <2>1, DistinctPages
<1> QED
  BY <1>1, <1>3, <1>4

LEMMA IndexedStandsOn ==
  ASSUME RunInv, WalkInv, OrderInv, TakenInv, IndexedInv, NoneMoved, NoneTaken, StepCase
  PROVE  IndexedInv'
<1>0. VaultInv /\ WayInv /\ RowsStand(db)
  BY DEF WalkInv
<1>1. CASE Outside
  <2>1. CASE quiet' = FALSE
    BY <2>1 DEF IndexedInv, EveryPageIsIndexed, Complete
  <2>2. CASE UNCHANGED <<vault, types, quiet>>
    BY <1>1, <2>2, DistinctStays DEF Outside, IndexedInv, EveryPageIsIndexed, Complete, Passed,
       IsIndexed, RowsAt, Documents
  <2> QED
    BY <1>1, <2>1, <2>2 DEF Outside
<1>2. CASE Begins \/ Stops
  BY <1>2 DEF Begins, Stops, IndexedInv, EveryPageIsIndexed, Complete, Passed
<1>3. ASSUME UNCHANGED <<vault, quiet>>, run'.types = run.types, run.pc # "idle", run'.pc # "idle",
             quiet /\ Distinct => \A p \in Passed' \cap Parsed : IsIndexed(p, run.types)'
      PROVE  IndexedInv'
  BY <1>3, DistinctStays DEF IndexedInv, EveryPageIsIndexed, Complete, IsIndexed
<1>4. ASSUME vault' = vault, db'.rows = db.rows
      PROVE  \A p, limits : IsIndexed(p, limits) => IsIndexed(p, limits)'
  BY <1>4 DEF IsIndexed, RowsAt, Documents
<1>5. CASE (\E path \in run.todo : Walks1(path)) \/ Turns
  <2>1. Passed' = {} /\ UNCHANGED <<vault, quiet>> /\ run'.types = run.types
          /\ run.pc # "idle" /\ run'.pc # "idle"
    BY <1>5 DEF Walks1, Turns, RunKeeps, Passed
  <2> QED
    BY <1>3, <2>1
<1>6. CASE \E path \in run.todo : Unparsed(path) \/ PassesOver(path)
  <2>1. PICK path \in run.todo : Unparsed(path) \/ PassesOver(path)
    BY <1>6
  <2>2. /\ run.pc = "index" /\ run'.pc = "index" /\ run'.types = run.types
        /\ db'.rows = db.rows /\ UNCHANGED <<vault, quiet>>
        /\ Passed' = Passed \cup {path}
    BY <1>0, <2>1, NextIsPassed DEF Unparsed, PassesOver, Recovered, Looks, RunKeeps, SameDocuments
  <2>3. ASSUME path \in Parsed PROVE IsIndexed(path, run.types)
    <3> DEFINE uid == Found(path)
    <3>1. /\ uid # None /\ db.rows[uid].version = vault[path] /\ db.rows[uid].print = run.types
      BY <2>1, <2>3 DEF Unparsed, PassesOver, Parsed
    <3>2. /\ uid \in Documents(db) /\ db.rows[uid].path = path
      BY <2>3, <3>1, FoundIsOfTheSlot DEF NoneMoved, Slot
    <3>3. db.rows[uid] = RowOf(path, vault[path], run.types)
      BY <1>0, <3>1, <3>2 DEF RowsStand
    <3> QED
      BY <3>2, <3>3 DEF IsIndexed, RowsAt
  <2> QED
    BY <1>3, <1>4, <2>2, <2>3 DEF IndexedInv
<1>7. CASE \/ \E path \in run.todo : TakesUp(path)
           \/ WritesClaims \/ WritesEdges \/ WritesChunks
  <2>1. /\ run.pc \notin {"idle", "walk"} /\ run'.pc \notin {"idle", "walk"}
        /\ run'.types = run.types /\ run'.todo = run.todo /\ run'.list = run.list
        /\ db'.rows = db.rows /\ UNCHANGED <<vault, quiet>>
    BY <1>7 DEF TakesUp, Recovered, Looks, SameDocuments, WritesClaims, WritesEdges, WritesChunks,
         Statement, RunKeeps
  <2>2. Passed' = Passed
    BY <2>1, PassedStays
  <2> QED
    BY <1>3, <1>4, <2>1, <2>2 DEF IndexedInv
<1>8. CASE WritesRow
  <2>1. /\ run.pc = "document" /\ run'.pc = "claims" /\ run'.types = run.types
        /\ run'.todo = run.todo /\ run'.list = run.list /\ UNCHANGED <<vault, quiet>>
        /\ \A u \in Uids \ {run.page.uid} : db'.rows[u] = db.rows[u]
    BY <1>8 DEF WritesRow, Statement, RunKeeps, OthersKeep
  <2>2. Passed' = Passed
    BY <2>1, PassedStays
  <2>3. ASSUME quiet, Distinct, NEW p \in Passed \cap Parsed
        PROVE  IsIndexed(p, run.types)'
    <3>1. PICK uid \in RowsAt(p) : db.rows[uid] = RowOf(p, vault[p], run.types)
      BY <2>1, <2>3 DEF IndexedInv, IsIndexed
    <3>2. db.rows[uid].version = vault[p] /\ uid \in Uids
      BY <3>1, RowIsNoNoRow DEF RowsAt, Documents
    <3>3. uid # run.page.uid
      BY <2>1, <2>3, <3>1, <3>2, OtherRow
    <3>4. IsIndexed(p, run.types)' = \E u \in RowsAt(p)' : db'.rows[u] = RowOf(p, vault[p], run.types)
      BY <2>1 DEF IsIndexed
    <3>5. uid \in RowsAt(p)' /\ db'.rows[uid] = db.rows[uid]
      BY <2>1, <3>1, <3>2, <3>3 DEF RowsAt, Documents
    <3> QED
      BY <3>1, <3>4, <3>5
  <2> QED
    BY <1>3, <2>1, <2>2, <2>3
<1>9. CASE WritesFindings
  <2>0. PICK path : path = run.page.path
    OBVIOUS
  <2>1. /\ run.pc = "findings" /\ run.pc \in UnderWay /\ run.pc \in Writing
        /\ run'.pc = "index" /\ run'.types = run.types
        /\ run'.todo = run.todo \ {path} /\ run'.list = run.list
        /\ db'.rows = db.rows /\ UNCHANGED <<vault, quiet>>
    BY <1>9, <2>0 DEF WritesFindings, RunKeeps, UnderWay, Writing
  <2>2. Passed' = Passed \cup {path}
    BY <1>0, <2>0, <2>1, UnderWayIsNotPassed DEF Passed
  <2>3. ASSUME quiet PROVE IsIndexed(path, run.types)
    <3>1. /\ vault[path] = run.page.page /\ run.page.uid \in Documents(db)
          /\ db.rows[run.page.uid] = RowOf(path, run.page.page, run.types)
      BY <1>0, <2>0, <2>1, <2>3 DEF WayInv, RunInv, PageInv, Owned
    <3>2. db.rows[run.page.uid].path = path
      BY <3>1 DEF RowOf
    <3> QED
      BY <3>1, <3>2 DEF IsIndexed, RowsAt
  <2> QED
    BY <1>3, <1>4, <2>1, <2>2, <2>3 DEF IndexedInv
<1>10. CASE Prunes
  <2>1. /\ run.pc = "index" /\ run'.pc = "embed" /\ run'.types = run.types
        /\ run'.todo = run.todo /\ run'.list = run.list /\ UNCHANGED <<vault, quiet>>
        /\ \A u \in Uids \ Dead : db'.rows[u] = db.rows[u]
    BY <1>10 DEF Prunes, RunKeeps
  <2>2. Passed' = Passed /\ Passed \subseteq run.list
    BY <2>1, PassedStays DEF Passed
  <2>3. ASSUME quiet, Distinct, NEW p \in Passed \cap Parsed
        PROVE  IsIndexed(p, run.types)'
    <3>1. PICK uid \in RowsAt(p) : db.rows[uid] = RowOf(p, vault[p], run.types)
      BY <2>1, <2>3 DEF IndexedInv, IsIndexed
    <3>2. uid \notin Dead /\ uid \in Uids
      BY <2>2, <2>3, <3>1 DEF RowsAt, Documents, Dead
    <3>4. IsIndexed(p, run.types)' = \E u \in RowsAt(p)' : db'.rows[u] = RowOf(p, vault[p], run.types)
      BY <2>1 DEF IsIndexed
    <3>5. uid \in RowsAt(p)' /\ db'.rows[uid] = db.rows[uid]
      BY <2>1, <3>1, <3>2 DEF RowsAt, Documents
    <3> QED
      BY <3>1, <3>4, <3>5
  <2> QED
    BY <1>3, <2>1, <2>2, <2>3
<1>11. CASE Finishes
  <2>1. /\ run.pc = "embed" /\ run'.pc = "idle" /\ run.todo = {}
        /\ db'.rows = db.rows /\ UNCHANGED <<vault, types, quiet>>
    BY <1>0, <1>11 DEF Finishes, SameDocuments, WayInv
  <2>2. quiet => Passed = Listed /\ run.types = types /\ Parsed \subseteq Listed
    BY <1>0, <2>1, PassedArePaths DEF Passed, Parsed, WayInv
  <2>3. quiet /\ Distinct => \A p \in Parsed : IsIndexed(p, types)
    BY <2>1, <2>2 DEF IndexedInv
  <2>4. \A p : RowsAt(p)' = RowsAt(p)
    BY <2>1 DEF RowsAt, Documents
  <2> QED
    BY <2>1, <2>3, <2>4, DistinctStays DEF IndexedInv, EveryPageIsIndexed, IsIndexed, Complete
<1> QED
  BY <1>1, <1>2, <1>5, <1>6, <1>7, <1>8, <1>9, <1>10, <1>11 DEF StepCase

LEMMA OrderHolds == Spec => [](OrderInv /\ TakenInv)
<1>1. Init => OrderInv /\ TakenInv
  BY DEF Init, Resting, OrderInv, TakenInv, UnderWay, Writing
<1>2. RunInv /\ WalkInv /\ OrderInv /\ TakenInv /\ [Next]_vars => OrderInv' /\ TakenInv'
  BY EveryStep, OrderStandsOn, TakenStandsOn DEF WalkInv
<1> QED
  BY <1>1, <1>2, RunHolds, WalkHolds, PTL DEF Spec

\* pipeline.go (IndexPage): after a complete run over pages that are distinct every
\* page that parses has its row, of its content and the limits of now -- where no
\* page was moved with its frontmatter, and none carries the uid another took.
THEOREM PagesAreIndexed == Spec /\ []NoneMoved /\ []NoneTaken => []EveryPageIsIndexed
<1>1. Init => IndexedInv
  BY DEF Init, Resting, IndexedInv, EveryPageIsIndexed, Complete
<1>2. RunInv /\ WalkInv /\ OrderInv /\ TakenInv /\ IndexedInv /\ NoneMoved /\ NoneTaken
        /\ [Next]_vars => IndexedInv'
  BY EveryStep, IndexedStandsOn
<1>3. IndexedInv => EveryPageIsIndexed
  BY DEF IndexedInv
<1> QED
  BY <1>1, <1>2, <1>3, RunHolds, WalkHolds, OrderHolds, PTL DEF Spec

-------------------------------------------------------------------------------
(* A run after a complete one. *)

\* Of pages that are distinct, a complete run has seen the vault as it is.
Repeats == since \in {"nothing", "types"} /\ Distinct

\* RepeatIsNoop is of a run that begins when each page has its row, and stays
\* so while the run goes on: what the row lacks are the limits of now, at most.
SinceInv ==
  Repeats =>
    /\ \A p \in Parsed : \E uid \in RowsAt(p) :
         db.rows[uid].version = vault[p] /\ (since = "nothing" => db.rows[uid].print = types)
    /\ run.pc # "idle" =>
         /\ run.list = Listed
         /\ since = "nothing" => run.types = types
         /\ run.pc \in UnderWay => vault[run.page.path] = run.page.page
    /\ run.pc = "document" /\ PageScope \in run.held =>
         /\ run.page.uid \in RowsAt(run.page.path)
         /\ db.rows[run.page.uid].version = run.page.page

\* The run holds the scopes of the pages.
Covered == \A p \in Parsed : ScopeOf(p, vault[p]) \in run.held

RepeatInv ==
  /\ run.pc # "idle" => outcome = "none" /\ (quiet => again = since)
  /\ quiet /\ again \in {"nothing", "types"} => since \in {"nothing", "types"}
  /\ quiet /\ again \in {"nothing", "types"} /\ Distinct /\ Covered =>
       /\ cut = {} => outcome # "failed"
       /\ again = "nothing" => run.changed = {} /\ run.pc \notin UnderWay

\* What a step leaves of the histories.
SinceCase ==
  \/ since' = "pages" /\ quiet' = FALSE /\ Outside
  \/ vault' = vault /\ since' = since /\ (since = "nothing" => types' = types)
  \/ vault' = vault /\ since = "nothing" /\ since' = "types" /\ quiet' = FALSE /\ Outside
  \/ vault' = vault /\ quiet /\ since' = "nothing" /\ Finishes

ChangedCase ==
  /\ again' = again \/ (again' = since /\ since' = since /\ Begins)
  /\ Begins => again' = since /\ since' = since /\ run'.changed = {}
  /\ run'.changed = run.changed \/ run.pc = "findings" \/ Begins

\* The reasons a run fails.
Fails ==
  \/ run.pc \in {"walk", "index"} /\ \E path \in run.todo : vault[path] = NoPage
  \/ run.pc = "document" /\ UpsertOutcome(db, run.held, run.page.uid, PageRow) # "ok"
  \/ run.pc = "claims" /\ run.page.uid \in cut'

\* A page that is looked up is none that has been changed yet.
LEMMA LookingChangesNone ==
  ASSUME RunInv, IndexPage
  PROVE  /\ run.pc = "index" /\ run'.changed = run.changed /\ run'.tally = run.tally
         /\ run'.scopeOf = run.scopeOf \/ run'.pc = "idle"
<1>0. run.pc = "index"
  BY DEF IndexPage
<1>1. PICK path \in run.todo :
        LET page     == vault[path]
            scope    == ScopeOf(path, page)
            existing == GetPage(db, run.held, scope, SlugOf(path, page))
            uid      == ResolveUID(page, existing, db)
            row      == IF existing = None THEN NoRow ELSE db.rows[existing]
        IN /\ IsNext(path)
           /\ \/ page = NoPage /\ Ended("failed") /\ UNCHANGED db
              \/ /\ page # NoPage /\ ~ page.ok
                 /\ db' = UpsertGlobalFinding(db, run.held, [path |-> path, scope |-> path.scope])
                 /\ run' = [run EXCEPT !.todo = @ \ {path}]
                 /\ UNCHANGED outcome
              \/ /\ page # NoPage /\ page.ok
                 /\ db' = ResolveGlobalFindings(db, run.held, scope, path)
                 /\ IF IsNoop(row, page, run.types)
                    THEN run' = [run EXCEPT !.todo = @ \ {path}]
                    ELSE /\ uid \in Uids
                         /\ run' = [run EXCEPT !.pc = "document",
                                         !.page = [path |-> path, page |-> page, uid |-> uid]]
                 /\ UNCHANGED outcome
  BY DEF IndexPage
<1>2. DOMAIN run = DOMAIN Resting
  BY DEF RunInv, Shape
<1>3. CASE Ended("failed")
  BY <1>0, <1>3 DEF Ended, Resting
<1>4. CASE run' = [run EXCEPT !.todo = @ \ {path}]
  BY <1>0, <1>2, <1>4 DEF Resting
<1>5. CASE ~ Ended("failed") /\ run' # [run EXCEPT !.todo = @ \ {path}]
  <2>1. PICK page : run' = [run EXCEPT !.pc = "document", !.page = page]
    BY <1>1, <1>5
  <2> QED
    BY <1>0, <1>2, <2>1 DEF Resting
<1> QED
  BY <1>3, <1>4, <1>5

\* Other steps are a run's.
LEMMA EveryStepRuns == ASSUME StepCase, ~ Begins, ~ Outside PROVE run.pc # "idle"
BY DEF StepCase, Stops, Walks1, Turns, Unparsed, PassesOver, TakesUp, Recovered, Looks, WritesRow,
   WritesClaims, WritesEdges, WritesChunks, WritesFindings, Prunes, Finishes, Statement

LEMMA HistorySteps ==
  ASSUME RunInv, [Next]_vars
  PROVE  SinceCase /\ ChangedCase
<1>1. CASE \/ \E path \in DOMAIN Drafts : Save(path)
           \/ EditTypes \/ ImportReads \/ ImportWrites \/ ImportFails \/ Rescope
           \/ UNCHANGED vars
  <2>1. Outside /\ run' = run /\ again' = again
    BY <1>1, OutsideCases
       DEF Save, Edit, EditTypes, ImportReads, ImportWrites, ImportFails, Rescope, vars, history
  <2>2. ~ Begins
    BY <2>1 DEF Begins
  <2>3. SinceCase
    BY <1>1, <2>1
       DEF SinceCase, Save, Edit, EditTypes, ImportReads, ImportWrites, ImportFails, Rescope, vars,
           history
  <2> QED
    BY <2>1, <2>2, <2>3 DEF ChangedCase
<1>2. CASE StartCommand \/ StartAfterAccept
  <2>1. Begins
    BY <1>2, BeginCases
  <2>2. /\ UNCHANGED <<vault, types, since>> /\ again' = since /\ run'.changed = {}
    BY <1>2 DEF StartCommand, StartAfterAccept, Begin, Resting
  <2> QED
    BY <2>1, <2>2 DEF SinceCase, ChangedCase
<1>3. CASE RunStep \/ Fail
  <2> DEFINE Told == /\ again' = again /\ UNCHANGED <<vault, types>> /\ run.pc # "idle"
                     /\ run'.changed = run.changed \/ run.pc = "findings"
                     /\ since' = since \/ (quiet /\ since' = "nothing" /\ Finishes)
  <2>1. \A how : Ended(how) => run'.changed = run.changed
    BY DEF Ended, Resting
  <2>2. DOMAIN run = DOMAIN Resting
    BY DEF RunInv, Shape
  <2>3. ASSUME WalkPage PROVE Told
    BY <2>1, <2>2, <2>3 DEF WalkPage, history, Resting
  <2>4. ASSUME BeginIndexing PROVE Told
    BY <2>2, <2>4 DEF BeginIndexing, history, Resting
  <2>5. ASSUME IndexPage PROVE Told
    <3>1. run.pc = "index" /\ UNCHANGED <<vault, types, again, since>>
      BY <2>5 DEF IndexPage, history
    <3> QED
      BY <2>5, <3>1, LookingChangesNone
  <2>6. ASSUME WriteDocument PROVE Told
    BY <2>1, <2>2, <2>6 DEF WriteDocument, history, Resting
  <2>7. ASSUME WriteClaims PROVE Told
    <3>1. run.pc = "claims" /\ UNCHANGED <<vault, types, again, since>>
      BY <2>7 DEF WriteClaims
    <3>2. Ended("failed") \/ run' = [run EXCEPT !.pc = "edges"]
      BY <2>7 DEF WriteClaims
    <3> QED
      BY <2>1, <2>2, <3>1, <3>2 DEF Resting
  <2>8. ASSUME WriteEdges \/ WriteChunks PROVE Told
    BY <2>2, <2>8 DEF WriteEdges, WriteChunks, history, Resting
  <2>9. ASSUME WriteFindings PROVE Told
    BY <2>9 DEF WriteFindings
  <2>10. ASSUME Prune PROVE Told
    BY <2>2, <2>10 DEF Prune, Resting
  <2>11. ASSUME Embed PROVE Told
    <3>1. SameDocuments /\ db'.globals = db.globals
      BY <2>11 DEF Embed, SameDocuments, RunInv, Shape, EmptyTables
    <3>2. /\ run'.pc = "idle" /\ run'.held = run.held /\ run'.index = EmptyIndex
          /\ outcome' = "done"
      BY <2>11 DEF Embed, Ended, Resting
    <3>3. Finishes
      BY <2>11, <3>1, <3>2 DEF Embed, Finishes
    <3>4. /\ run.pc = "embed" /\ UNCHANGED <<vault, types, again>> /\ Ended("done")
          /\ since' = IF quiet THEN "nothing" ELSE since
      BY <2>11 DEF Embed
    <3> QED
      BY <2>1, <3>3, <3>4
  <2>12. ASSUME Fail PROVE Told
    <3>1. run.pc # "idle" /\ UNCHANGED <<vault, types, again, since>> /\ Ended("stopped")
      BY <2>12 DEF Fail
    <3> QED
      BY <2>1, <3>1
  <2>13. Told
    BY <1>3, <2>3, <2>4, <2>5, <2>6, <2>7, <2>8, <2>9, <2>10, <2>11, <2>12 DEF RunStep
  <2> QED
    BY <2>13 DEF SinceCase, ChangedCase, Begins
<1> QED
  BY <1>1, <1>2, <1>3 DEF Next

LEMMA FailingSteps ==
  ASSUME RunInv, [Next]_vars, outcome' = "failed"
  PROVE  Fails \/ UNCHANGED outcome
<1>1. \A how : Ended(how) => outcome' = how
  BY DEF Ended
<1>2. CASE WalkPage
  <2>1. /\ run.pc = "walk"
        /\ UNCHANGED outcome \/ \E path \in run.todo : vault[path] = NoPage
    BY <1>2 DEF WalkPage
  <2> QED
    BY <2>1 DEF Fails
<1>9. CASE BeginIndexing
  BY <1>9 DEF BeginIndexing
<1>3. CASE IndexPage
  <2>1. /\ run.pc = "index"
        /\ UNCHANGED outcome \/ \E path \in run.todo : vault[path] = NoPage
    BY <1>3 DEF IndexPage
  <2> QED
    BY <2>1 DEF Fails
<1>4. CASE WriteDocument
  BY <1>4 DEF WriteDocument, Fails, PageRow
<1>5. CASE WriteClaims
  BY <1>5 DEF WriteClaims, Fails
<1>6. CASE WriteEdges \/ WriteChunks \/ WriteFindings \/ Prune \/ Embed \/ Fail
  BY <1>1, <1>6 DEF WriteEdges, WriteChunks, WriteFindings, Prune, Embed, Fail
<1>7. CASE StartCommand \/ StartAfterAccept
  BY <1>7 DEF StartCommand, StartAfterAccept, Begin
<1>8. CASE \/ \E path \in DOMAIN Drafts : Save(path)
           \/ EditTypes \/ ImportReads \/ ImportWrites \/ ImportFails \/ Rescope
           \/ UNCHANGED vars
  BY <1>8 DEF Save, Edit, EditTypes, ImportReads, ImportWrites, ImportFails, Rescope, vars
<1> QED
  BY <1>2, <1>3, <1>4, <1>5, <1>6, <1>7, <1>8, <1>9 DEF Next, RunStep

\* The row a page has is the one found for it, in a scope that is held.
LEMMA OwnRowIsFound ==
  ASSUME RowsStand(db), NEW path, NEW uid \in RowsAt(path), db.rows[uid].version = vault[path],
         ScopeOf(path, vault[path]) \in run.held
  PROVE  Found(path) = uid /\ ResolveUID(vault[path], Found(path), db) = uid
<1>1. /\ uid \in Documents(db) /\ db.rows[uid].path = path
      /\ db.rows[uid].scope = ScopeOf(path, vault[path])
      /\ db.rows[uid].slug = SlugOf(path, vault[path])
  BY RowsAreOfPages DEF RowsAt
<1>2. Found(path) # None
  BY <1>1, NoneIsApart DEF Found, GetPage, Owned, Documents
<1>3. Found(path) = uid /\ uid # None
  BY <1>2, FoundIsTheRow
<1>4. vault[path].uid \in {uid, None}
  BY <1>1 DEF RowsStand
<1> QED
  BY <1>3, <1>4 DEF ResolveUID

\* The row is written where it is: nothing is refused.
LEMMA OwnRowIsWritten ==
  ASSUME RowsStand(db), run.page.uid \in RowsAt(run.page.path),
         db.rows[run.page.uid].version = run.page.page, PageScope \in run.held
  PROVE  UpsertOutcome(db, run.held, run.page.uid, PageRow) = "ok"
<1> DEFINE uid == run.page.uid
<1>1. /\ uid \in Documents(db) /\ db.rows[uid].scope = PageScope
      /\ db.rows[uid].slug = SlugOf(run.page.path, run.page.page)
  BY RowsAreOfPages DEF RowsAt, PageScope
<1>2. PageRow.scope = PageScope /\ PageRow.slug = SlugOf(run.page.path, run.page.page)
  BY DEF PageRow, RowOf, PageScope
<1> HIDE DEF uid
<1>3. \A other \in Documents(db) \ {uid} :
        ~ (db.rows[other].scope = PageRow.scope /\ db.rows[other].slug = PageRow.slug)
  BY <1>1, <1>2 DEF RowsStand
<1>4. uid \in Owned(db, run.held)
  BY <1>1 DEF Owned
<1>5. UpsertOutcome(db, run.held, uid, PageRow) = "ok"
  BY <1>2, <1>3, <1>4 DEF UpsertOutcome
<1> QED
  BY <1>5 DEF uid

LEMMA SinceStandsOn ==
  ASSUME RunInv, WalkInv, SinceInv, IndexedInv', StepCase, SinceCase
  PROVE  SinceInv'
<1> SUFFICES ASSUME Repeats' PROVE SinceInv'
  BY DEF SinceInv
<1>0. VaultInv /\ WayInv /\ RowsStand(db)
  BY DEF WalkInv
<1>1. since' # "pages" /\ vault' = vault /\ Distinct /\ Parsed' = Parsed /\ Listed' = Listed
  BY DistinctStays DEF SinceCase, Repeats
<1>2. CASE quiet /\ since' = "nothing" /\ Finishes
  <2>1. Complete' /\ run'.pc = "idle"
    BY <1>2 DEF Complete, Finishes
  <2>2. \A p \in Parsed' : IsIndexed(p, types)'
    BY <2>1 DEF IndexedInv, EveryPageIsIndexed, IsIndexed, Repeats
  <2>3. ASSUME NEW p \in Parsed'
        PROVE  \E uid \in RowsAt(p)' : db'.rows[uid].version = vault'[p] /\ db'.rows[uid].print = types'
    BY <2>2, <2>3, RowIsNoNoRow DEF IsIndexed
  <2> QED
    BY <2>1, <2>3 DEF SinceInv
<1>3. CASE ~ (quiet /\ since' = "nothing" /\ Finishes)
  <2>1. /\ Repeats /\ (since' = "nothing" => since = "nothing" /\ types' = types)
    BY <1>1, <1>3 DEF SinceCase, Repeats
  <2>2. ASSUME NEW p \in Parsed
        PROVE  \E uid \in RowsAt(p)' :
                 /\ db'.rows[uid].version = vault[p]
                 /\ since' = "nothing" => db'.rows[uid].print = types
    <3>1. PICK uid \in RowsAt(p) :
            db.rows[uid].version = vault[p] /\ (since = "nothing" => db.rows[uid].print = types)
      BY <2>1, <2>2 DEF SinceInv
    <3>2. uid \in Uids /\ db.rows[uid] # NoRow /\ db.rows[uid].path = p
      BY <3>1 DEF RowsAt, Documents
    <3>3. CASE db'.rows[uid] = db.rows[uid]
      BY <2>1, <3>1, <3>2, <3>3 DEF RowsAt, Documents
    <3>4. CASE WritesRow /\ uid = run.page.uid
      <4>1. /\ run.pc = "document" /\ db'.rows[uid] = PageRow
            /\ UpsertOutcome(db, run.held, run.page.uid, PageRow) = "ok"
        BY <3>4 DEF WritesRow, Statement
      <4>2. PageRow.scope = PageScope
        BY DEF PageRow, RowOf, PageScope
      <4>3. PageScope \in run.held
        BY <4>1, <4>2 DEF UpsertOutcome
      <4>4. /\ run.page.uid \in RowsAt(run.page.path)
            /\ db.rows[run.page.uid].version = run.page.page
        BY <2>1, <4>1, <4>3 DEF SinceInv
      <4>5. run.page.path = p /\ run.page.page = vault[p]
        BY <3>1, <3>2, <3>4, <4>4 DEF RowsAt
      <4>6. db'.rows[uid] # NoRow /\ db'.rows[uid].path = p /\ db'.rows[uid].version = vault[p]
              /\ db'.rows[uid].print = run.types
        BY <4>1, <4>5, RowIsNoNoRow DEF PageRow, RowOf
      <4>7. since = "nothing" => run.types = types
        BY <2>1, <4>1 DEF SinceInv
      <4> QED
        BY <2>1, <3>2, <4>6, <4>7 DEF RowsAt, Documents
    <3>5. CASE Prunes
      <4>1. run.list = Listed
        BY <2>1, <3>5 DEF SinceInv, Prunes
      <4>2. uid \notin Dead
        BY <3>2, <4>1, <2>2 DEF Dead, Parsed
      <4> QED
        BY <3>2, <3>3, <3>5, <4>2 DEF Prunes
    <3>6. db'.rows = db.rows \/ WritesRow \/ Prunes
      BY RowsAreLeft DEF RowsAlone
    <3> QED
      BY <3>2, <3>3, <3>4, <3>5, <3>6 DEF WritesRow, OthersKeep
  <2>3. ASSUME run'.pc # "idle"
        PROVE  /\ run'.list = Listed
               /\ since' = "nothing" => run'.types = types
               /\ run'.pc \in UnderWay => vault[run'.page.path] = run'.page.page
    <3>1. CASE Begins
      BY <3>1 DEF Begins, UnderWay, Writing
    <3>2. CASE Outside
      BY <2>1, <2>3, <3>2 DEF Outside, SinceInv
    <3>3. CASE ~ Begins /\ ~ Outside
      <4> DEFINE Goes == /\ run.pc # "idle" /\ run'.list = run.list /\ run'.types = run.types
                         /\ run'.pc \in UnderWay =>
                              \/ run.pc \in UnderWay /\ run'.page = run.page
                              \/ vault[run'.page.path] = run'.page.page
      <4>1. ASSUME NEW path \in run.todo,
                   Walks1(path) \/ Unparsed(path) \/ PassesOver(path) \/ TakesUp(path)
            PROVE  Goes
        BY <4>1 DEF Walks1, Unparsed, PassesOver, TakesUp, Recovered, Looks, RunKeeps, UnderWay, Writing
      <4>2. ASSUME Turns \/ WritesFindings \/ Prunes PROVE Goes
        BY <4>2 DEF Turns, WritesFindings, Prunes, RunKeeps, UnderWay, Writing
      <4>3. ASSUME WritesRow \/ WritesClaims \/ WritesEdges \/ WritesChunks PROVE Goes
        BY <4>3 DEF WritesRow, WritesClaims, WritesEdges, WritesChunks, Statement, RunKeeps,
           UnderWay, Writing
      <4>4. ~ Stops /\ ~ Finishes
        BY <2>3 DEF Stops, Finishes
      <4>5. Goes
        BY <3>3, <4>1, <4>2, <4>3, <4>4 DEF StepCase
      <4> QED
        BY <2>1, <4>5 DEF SinceInv
    <3> QED
      BY <3>1, <3>2, <3>3
  <2>4. ASSUME run'.pc = "document", PageScope' \in run'.held
        PROVE  /\ run'.page.uid \in RowsAt(run.page.path)'
               /\ db'.rows[run'.page.uid].version = run'.page.page
    <3>1. CASE Outside
      <4>1. run' = run /\ db' = db
        BY <3>1 DEF Outside
      <4> QED
        BY <2>1, <2>4, <4>1 DEF SinceInv, PageScope, RowsAt, Documents
    <3>2. CASE \E path \in run.todo : TakesUp(path)
      <4>1. PICK path \in run.todo : TakesUp(path)
        BY <3>2
      <4>2. /\ vault[path] # NoPage /\ vault[path].ok /\ db'.rows = db.rows
            /\ run'.held = run.held
            /\ run'.page = [path |-> path, page |-> vault[path],
                            uid |-> ResolveUID(vault[path], Found(path), db)]
        BY <4>1 DEF TakesUp, Recovered, Looks, RunKeeps, SameDocuments
      <4>3. path \in Parsed /\ PageScope' = ScopeOf(path, vault[path])
        BY <1>0, <4>1, <4>2 DEF Parsed, Listed, WayInv, VaultInv, PageScope, TakesUp, Recovered,
           Looks
      <4>4. PICK uid \in RowsAt(path) : db.rows[uid].version = vault[path]
        BY <2>1, <4>3 DEF SinceInv
      <4>5. run'.page.uid = uid /\ run'.page.path = path /\ run'.page.page = vault[path]
        BY <1>0, <2>4, <4>2, <4>3, <4>4, OwnRowIsFound
      <4> QED
        BY <4>2, <4>4, <4>5 DEF RowsAt, Documents
    <3> QED
      BY <2>4, <3>1, <3>2
         DEF StepCase, Begins, Stops, Walks1, Turns, Unparsed, PassesOver, WritesRow, WritesClaims,
             WritesEdges, WritesChunks, WritesFindings, Prunes, Finishes, Statement
  <2>5. \A p \in Parsed' : \E uid \in RowsAt(p)' :
          /\ db'.rows[uid].version = vault'[p]
          /\ since' = "nothing" => db'.rows[uid].print = types'
    BY <1>1, <2>1, <2>2
  <2>6. run'.pc # "idle" =>
          /\ run'.list = Listed'
          /\ since' = "nothing" => run'.types = types'
          /\ run'.pc \in UnderWay => vault'[run'.page.path] = run'.page.page
    BY <1>1, <2>1, <2>3
  <2> QED
    BY <2>4, <2>5, <2>6 DEF SinceInv
<1> QED
  BY <1>2, <1>3

LEMMA RepeatStandsOn ==
  ASSUME RunInv, WalkInv, SinceInv, RepeatInv, StepCase, SinceCase, ChangedCase,
         outcome' = "failed" => Fails \/ UNCHANGED outcome
  PROVE  RepeatInv'
<1>0. VaultInv /\ WayInv /\ RowsStand(db)
  BY DEF WalkInv
<1>1. CASE Begins
  <2>1. /\ again' = since /\ since' = since /\ run'.changed = {} /\ outcome' = "none"
        /\ run'.pc = "walk"
    BY <1>1 DEF ChangedCase, Begins
  <2> QED
    BY <2>1 DEF RepeatInv, UnderWay, Writing
<1>2. CASE Outside
  <2>1. UNCHANGED <<db, run, outcome, cut, again>> /\ ~ Finishes
    BY <1>2 DEF Outside, ChangedCase, Begins, Finishes
  <2>2. quiet' => UNCHANGED <<quiet, since, vault>>
    BY <1>2, <2>1 DEF Outside, SinceCase
  <2>3. quiet' => Distinct' = Distinct /\ Covered' = Covered
    BY <2>1, <2>2, DistinctStays DEF Covered
  <2> QED
    BY <2>1, <2>2, <2>3 DEF RepeatInv
<1>3. CASE ~ Begins /\ ~ Outside
  <2>1. /\ run.pc # "idle" /\ UNCHANGED <<vault, quiet>> /\ run'.held = run.held
        /\ run'.pc # "idle" => UNCHANGED outcome
    <3>1. run.pc # "idle"
      BY <1>3, EveryStepRuns
    <3>2. CASE Stops \/ Finishes \/ Turns \/ WritesFindings \/ Prunes
      BY <3>1, <3>2 DEF Stops, Finishes, Turns, WritesFindings, Prunes, RunKeeps
    <3>3. CASE WritesRow \/ WritesClaims \/ WritesEdges \/ WritesChunks
      BY <3>1, <3>3 DEF WritesRow, WritesClaims, WritesEdges, WritesChunks, Statement, RunKeeps
    <3>4. CASE \E path \in run.todo :
                 Walks1(path) \/ Unparsed(path) \/ PassesOver(path) \/ TakesUp(path)
      BY <3>1, <3>4 DEF Walks1, Unparsed, PassesOver, TakesUp, Recovered, Looks, RunKeeps
    <3> QED
      BY <1>3, <3>2, <3>3, <3>4 DEF StepCase
  <2>2. /\ again' = again /\ Distinct' = Distinct /\ Parsed' = Parsed
        /\ since' \in {since, "nothing"} /\ (run'.pc # "idle" => since' = since)
        /\ run'.changed = run.changed \/ run.pc = "findings"
    BY <1>3, <2>1, DistinctStays DEF ChangedCase, SinceCase, Finishes
  <2>3. Covered' = Covered
    BY <2>1, <2>2 DEF Covered
  <2>4. ASSUME quiet, again \in {"nothing", "types"}, Distinct, Covered
        PROVE  /\ Repeats /\ again = since /\ run.list = Listed
               /\ again = "nothing" => run.changed = {} /\ run.pc \notin UnderWay
    BY <2>1, <2>4 DEF RepeatInv, SinceInv, Repeats
  <2>5. ASSUME quiet, again \in {"nothing", "types"}, Distinct, Covered, cut' = {}, outcome' = "failed"
        PROVE  FALSE
    <3>1. Fails /\ run.pc # "claims"
      BY <2>1, <2>5 DEF RepeatInv, Fails
    <3>2. run.pc = "document"
      <4>1. run.todo \subseteq Listed
        BY <1>0, <2>1, <2>4, <2>5 DEF WayInv
      <4> QED
        BY <3>1, <4>1 DEF Fails, Listed
    <3>3. /\ run.page.path \in Parsed /\ vault[run.page.path] = run.page.page
      BY <1>0, <2>1, <2>4, <2>5, <3>2 DEF SinceInv, WayInv, UnderWay, Parsed
    <3>4. PageScope \in run.held
      BY <2>5, <3>3 DEF Covered, PageScope
    <3>5. UpsertOutcome(db, run.held, run.page.uid, PageRow) = "ok"
      BY <1>0, <2>4, <2>5, <3>2, <3>4, OwnRowIsWritten DEF SinceInv
    <3> QED
      BY <3>1, <3>2, <3>5 DEF Fails
  <2>6. ASSUME quiet, again = "nothing", Distinct, Covered
        PROVE  run'.changed = {} /\ run'.pc \notin UnderWay
    <3>1. run.changed = {} /\ run.pc \notin UnderWay
      BY <2>4, <2>6
    <3>2. run'.changed = {}
      BY <2>2, <3>1 DEF UnderWay, Writing
    <3>3. ASSUME NEW path \in run.todo, TakesUp(path) PROVE FALSE
      <4>1. /\ vault[path] # NoPage /\ vault[path].ok
            /\ ~ IsNoop(IF Found(path) = None THEN NoRow ELSE db.rows[Found(path)], vault[path],
                        run.types)
        BY <3>3 DEF TakesUp, Recovered, Looks
      <4>2. path \in Parsed
        BY <1>0, <2>1, <2>4, <2>6, <4>1 DEF WayInv, Parsed
      <4>3. PICK uid \in RowsAt(path) :
              db.rows[uid].version = vault[path] /\ db.rows[uid].print = run.types
        BY <2>1, <2>4, <2>6, <4>2 DEF SinceInv
      <4>4. Found(path) = uid /\ uid # None /\ db.rows[uid] # NoRow
        BY <1>0, <2>6, <4>2, <4>3, OwnRowIsFound, NoneIsApart DEF Covered, RowsAt, Documents
      <4> QED
        BY <4>1, <4>3, <4>4 DEF IsNoop
    <3>4. run'.pc \notin UnderWay
      BY <1>3, <3>1, <3>3
         DEF StepCase, Stops, Walks1, Turns, Unparsed, PassesOver, WritesRow, WritesClaims,
             WritesEdges, WritesChunks, WritesFindings, Prunes, Finishes, Statement, UnderWay, Writing
    <3> QED
      BY <3>2, <3>4
  <2> QED
    BY <2>1, <2>2, <2>3, <2>5, <2>6 DEF RepeatInv
<1> QED
  BY <1>1, <1>2, <1>3

\* cli.go (reindexCmd) and pipeline.go (isNoop): on a vault that a complete run has
\* seen a run over all its scopes does not fail, and without new limits changes
\* nothing -- where no page was moved or took another's uid, as above.
THEOREM RepeatsChangeNothing == Spec /\ []NoneMoved /\ []NoneTaken => []RepeatIsNoop
<1>1. Init => IndexedInv /\ SinceInv /\ RepeatInv
  BY DEF Init, Resting, IndexedInv, EveryPageIsIndexed, Complete, SinceInv, Repeats, RepeatInv
<1>2. ASSUME RunInv, WalkInv, OrderInv, TakenInv, IndexedInv, NoneMoved, NoneTaken,
             SinceInv, RepeatInv, [Next]_vars
      PROVE  IndexedInv' /\ SinceInv' /\ RepeatInv'
  <2>1. StepCase /\ SinceCase /\ ChangedCase /\ (outcome' = "failed" => Fails \/ UNCHANGED outcome)
    BY <1>2, EveryStep, HistorySteps, FailingSteps
  <2>2. IndexedInv'
    BY <1>2, <2>1, IndexedStandsOn
  <2> QED
    BY <1>2, <2>1, <2>2, SinceStandsOn, RepeatStandsOn
<1>3. ASSUME WalkInv, SinceInv, RepeatInv PROVE RepeatIsNoop
  <2> SUFFICES ASSUME quiet, again \in {"nothing", "types"}, cut = {}, Distinct,
                      ScopesFound \subseteq run.held
               PROVE  outcome # "failed" /\ (again = "nothing" => run.changed = {})
    BY DEF RepeatIsNoop
  <2>1. Repeats
    BY <1>3 DEF RepeatInv, Repeats
  <2>2. ASSUME NEW p \in Parsed PROVE ScopeOf(p, vault[p]) \in run.held
    <3>1. PICK uid \in RowsAt(p) : db.rows[uid].version = vault[p]
      BY <1>3, <2>1, <2>2 DEF SinceInv
    <3>2. uid \in Documents(db) /\ db.rows[uid].scope = ScopeOf(p, vault[p])
      BY <1>3, <3>1, RowsAreOfPages DEF RowsAt, WalkInv
    <3> QED
      BY <3>2 DEF ScopesFound
  <2> QED
    BY <1>3, <2>2 DEF RepeatInv, Covered
<1> QED
  BY <1>1, <1>2, <1>3, RunHolds, WalkHolds, OrderHolds, PTL DEF Spec

-------------------------------------------------------------------------------
(* What a run counts, and what the tables say. *)

\* The pages the first pass has read.
Seen == IF run.pc = "walk" THEN run.list \ run.todo ELSE run.list

\* The scope of every page read is on record.
ScopeInv ==
  run.pc # "idle" =>
    /\ DOMAIN run.scopeOf = Seen
    /\ quiet => \A p \in Seen : run.scopeOf[p] = WalkedScope(p, vault[p])

\* The scope index knows the names of the aliases.
KnownInv == run.index.known = {<<Normal[a.name], a.scope>> : a \in run.index.aliases}

\* The documents whose last statement is behind them.
Settled == {uid \in Documents(db) : run.pc \in Writing => uid # run.page.uid}

ReferencesOf(findings, uid) ==
  {[uid |-> uid, rule |-> f.rule, ref |-> f.detail] :
     f \in {g \in findings[uid] : g.rule \in {"resolved_ref", "dangling_ref"}}}

Counted == UNION {ReferencesOf(db.findings, uid) : uid \in Settled}

DanglingIn(all) == {f \in all : f.rule = "dangling_ref"}

CrossingIn(all, known, rows) ==
  {f \in DanglingIn(all) : CrossScope(known, f.ref, rows[f.uid].scope)}

HealthOf(all, known, rows) ==
  [resolved   |-> Cardinality(all) - Cardinality(DanglingIn(all)),
   crossScope |-> Cardinality(CrossingIn(all, known, rows)),
   missing    |-> Cardinality(DanglingIn(all)) - Cardinality(CrossingIn(all, known, rows))]

\* A run from no document has counted what is in the tables.
TallyInv ==
  FreshRun /\ run.pc # "idle" =>
    /\ IsFiniteSet(Counted)
    /\ run.tally = HealthOf(Counted, run.index.known, db.rows)

ReportInv == ScopeInv /\ KnownInv /\ TallyInv /\ HealthAgreesWithRun

\* What a step does to the count, and to the scopes on record.
ReportCase ==
  /\ Begins => run'.tally = NoTally /\ run'.scopeOf = << >>
  /\ ~ Begins => run'.tally = run.tally \/ WritesFindings
  /\ WritesFindings =>
       run'.tally = Tallied(run.tally, RefFindingsOf(run.page.page, PageScope, run.index),
                            run.index.known, run.scopeOf[run.page.path])
  /\ ~ Begins /\ run.pc # "walk" /\ run'.pc # "idle" => run'.scopeOf = run.scopeOf
  /\ Turns => run'.scopeOf = run.scopeOf
  /\ \A path \in run.todo : Walks1(path) =>
       run'.scopeOf = Noted(run.scopeOf, path, vault[path])

LEMMA ReportSteps ==
  ASSUME RunInv, [Next]_vars
  PROVE  ReportCase
<1>1. CASE \/ \E path \in DOMAIN Drafts : Save(path)
           \/ EditTypes \/ ImportReads \/ ImportWrites \/ ImportFails \/ Rescope
           \/ UNCHANGED vars
  <2>1. run' = run
    BY <1>1 DEF Save, Edit, EditTypes, ImportReads, ImportWrites, ImportFails, Rescope, vars
  <2>2. ~ Begins /\ ~ WritesFindings /\ ~ Turns
    BY <2>1 DEF Begins, WritesFindings, Turns
  <2>3. \A path \in run.todo : ~ Walks1(path)
    BY <2>1 DEF Walks1
  <2> QED
    BY <2>1, <2>2, <2>3 DEF ReportCase
<1>2. CASE StartCommand \/ StartAfterAccept
  <2>1. run.pc = "idle" /\ run'.tally = NoTally /\ run'.scopeOf = << >>
    BY <1>2 DEF StartCommand, StartAfterAccept, Begin, Resting
  <2>2. Begins
    BY <1>2, BeginCases
  <2> QED
    BY <2>1, <2>2 DEF ReportCase, Walks1, Turns, WritesFindings
<1>3. CASE RunStep \/ Fail
  <2> DEFINE Told == /\ run.pc # "idle"
                     /\ run'.tally = run.tally \/ WriteFindings
                     /\ run'.scopeOf = run.scopeOf \/ WalkPage \/ run'.pc = "idle"
  <2>1. \A how : Ended(how) => run'.tally = run.tally /\ run'.pc = "idle"
    BY DEF Ended, Resting
  <2>2. DOMAIN run = DOMAIN Resting
    BY DEF RunInv, Shape
  <2>3. ASSUME WalkPage PROVE Told
    <3>1. run.pc = "walk" /\ (Ended("failed") \/ \E path \in run.todo :
            run' = [run EXCEPT !.todo = @ \ {path}, !.index = Walked(@, path, vault[path]),
                               !.scopeOf = Noted(@, path, vault[path])])
      BY <2>3 DEF WalkPage
    <3>2. run'.tally = run.tally
      BY <2>1, <2>2, <3>1 DEF Resting
    <3> QED
      BY <2>3, <3>1, <3>2
  <2>4. ASSUME BeginIndexing PROVE Told
    BY <2>2, <2>4 DEF BeginIndexing, Resting
  <2>5. ASSUME IndexPage PROVE Told
    BY <2>5, LookingChangesNone
  <2>6. ASSUME WriteDocument PROVE Told
    <3>1. run.pc = "document" /\ (Ended("failed") \/ run' = [run EXCEPT !.pc = "claims"])
      BY <2>6 DEF WriteDocument
    <3> QED
      BY <2>1, <2>2, <3>1 DEF Resting
  <2>7. ASSUME WriteClaims PROVE Told
    <3>1. run.pc = "claims" /\ (Ended("failed") \/ run' = [run EXCEPT !.pc = "edges"])
      BY <2>7 DEF WriteClaims
    <3> QED
      BY <2>1, <2>2, <3>1 DEF Resting
  <2>8. ASSUME WriteEdges \/ WriteChunks PROVE Told
    BY <2>2, <2>8 DEF WriteEdges, WriteChunks, Resting
  <2>9. ASSUME WriteFindings PROVE Told
    BY <2>2, <2>9 DEF WriteFindings, Resting
  <2>10. ASSUME Prune PROVE Told
    BY <2>2, <2>10 DEF Prune, Resting
  <2>11. ASSUME Embed PROVE Told
    BY <2>1, <2>11 DEF Embed
  <2>12. ASSUME Fail PROVE Told
    BY <2>1, <2>12 DEF Fail
  <2>13. Told
    BY <1>3, <2>3, <2>4, <2>5, <2>6, <2>7, <2>8, <2>9, <2>10, <2>11, <2>12 DEF RunStep
  <2>14. ASSUME WriteFindings
         PROVE  /\ WritesFindings
                /\ run'.tally = Tallied(run.tally,
                                  RefFindingsOf(run.page.page, PageScope, run.index),
                                  run.index.known, run.scopeOf[run.page.path])
    <3>1. run'.tally = Tallied(run.tally, RefFindingsOf(run.page.page, PageScope, run.index),
                               run.index.known, run.scopeOf[run.page.path])
      BY <2>2, <2>14 DEF WriteFindings, Resting
    <3>2. run.pc = "findings" /\ run'.pc = "index"
      BY <2>2, <2>14 DEF WriteFindings, Resting
    <3>3. WritesFindings
      BY <2>14, <3>2, StatementCases
         DEF StepCase, Outside, Begins, Stops, Walks1, Turns, Unparsed, PassesOver, TakesUp,
             Recovered, Looks, WritesRow, WritesClaims, WritesEdges, WritesChunks, Statement,
             Prunes, Finishes
    <3> QED
      BY <3>1, <3>3
  <2>15. ASSUME WritesFindings PROVE WriteFindings
    <3>1. run.pc = "findings" /\ run'.pc = "index"
      BY <2>15 DEF WritesFindings
    <3>2. \A how : ~ Ended(how)
      BY <2>1, <3>1
    <3> QED
      BY <1>3, <3>1, <3>2 DEF RunStep, WalkPage, BeginIndexing, IndexPage, WriteDocument,
           WriteClaims, WriteEdges, WriteChunks, Prune, Embed, Fail
  <2>16. ASSUME NEW path \in run.todo, Walks1(path)
         PROVE  run'.scopeOf = Noted(run.scopeOf, path, vault[path])
    <3>1. /\ run.pc = "walk" /\ run'.pc = "walk" /\ run'.todo = run.todo \ {path}
      BY <2>16 DEF Walks1
    <3>2. \A how : ~ Ended(how)
      BY <2>1, <3>1
    <3>3. run.todo # {} /\ run'.pc # "index"
      BY <3>1
    <3>4. ~ BeginIndexing
      BY <3>3 DEF BeginIndexing
    <3>5. WalkPage
      BY <1>3, <3>1, <3>2, <3>4 DEF RunStep, IndexPage, WriteDocument,
           WriteClaims, WriteEdges, WriteChunks, WriteFindings, Prune, Embed, Fail
    <3>6. PICK other \in run.todo :
            run' = [run EXCEPT !.todo = @ \ {other}, !.index = Walked(@, other, vault[other]),
                               !.scopeOf = Noted(@, other, vault[other])]
      BY <3>2, <3>5 DEF WalkPage
    <3>7. run'.todo = run.todo \ {other}
            /\ run'.scopeOf = Noted(run.scopeOf, other, vault[other])
      BY <2>2, <3>6 DEF Resting
    <3>8. other = path
      BY <3>1, <3>7
    <3> QED
      BY <3>7, <3>8
  <2>17. ASSUME Turns PROVE run'.scopeOf = run.scopeOf
    <3>1. run.pc = "walk" /\ run.todo = {} /\ run'.pc = "index"
      BY <2>17 DEF Turns
    <3>2. ~ WalkPage
      BY <3>1 DEF WalkPage
    <3> QED
      BY <2>13, <3>1, <3>2
  <2>18. WalkPage => run.pc = "walk"
    BY DEF WalkPage
  <2> HIDE DEF Told
  <2>19. /\ run.pc # "idle"
         /\ run'.tally = run.tally \/ WriteFindings
         /\ run'.scopeOf = run.scopeOf \/ WalkPage \/ run'.pc = "idle"
    BY <2>13 DEF Told
  <2>20. ~ Begins
    BY <2>19 DEF Begins
  <2> QED
    BY <2>14, <2>15, <2>16, <2>17, <2>18, <2>19, <2>20 DEF ReportCase
<1> QED
  BY <1>1, <1>2, <1>3 DEF Next

LEMMA ScopeStandsOn ==
  ASSUME RunInv, WayInv, ScopeInv, StepCase, ReportCase
  PROVE  ScopeInv'
<1> SUFFICES ASSUME run'.pc # "idle"
             PROVE  /\ DOMAIN run'.scopeOf = Seen'
                    /\ quiet' => \A p \in Seen' : run'.scopeOf[p] = WalkedScope(p, vault[p])'
  BY DEF ScopeInv
<1>1. CASE Outside
  BY <1>1 DEF Outside, ScopeInv, Seen
<1>2. CASE Begins
  <2>1. Seen' = {} /\ run'.scopeOf = << >>
    BY <1>2 DEF Begins, Seen, ReportCase
  <2> QED
    BY <2>1
<1>3. CASE \E path \in run.todo : Walks1(path)
  <2>1. PICK path \in run.todo : Walks1(path)
    BY <1>3
  <2>2. /\ run.pc = "walk" /\ run'.pc = "walk" /\ run'.todo = run.todo \ {path}
        /\ run'.list = run.list /\ UNCHANGED <<vault, quiet>>
        /\ run'.scopeOf = Noted(run.scopeOf, path, vault[path])
    BY <2>1 DEF Walks1, RunKeeps, ReportCase
  <2>3. Seen' = Seen \cup {path} /\ path \notin Seen
    BY <2>1, <2>2 DEF Seen, WayInv
  <2>4. DOMAIN run.scopeOf = Seen
          /\ (quiet => \A p \in Seen : run.scopeOf[p] = WalkedScope(p, vault[p]))
    BY <2>2 DEF ScopeInv
  <2>5. /\ DOMAIN run'.scopeOf = Seen \cup {path}
        /\ run'.scopeOf[path] = WalkedScope(path, vault[path])
        /\ \A p \in Seen : run'.scopeOf[p] = run.scopeOf[p]
    BY <2>2, <2>3, <2>4 DEF Noted
  <2> QED
    BY <2>2, <2>3, <2>4, <2>5
<1>4. CASE ~ Outside /\ ~ Begins /\ ~ \E path \in run.todo : Walks1(path)
  <2>1. /\ run.pc # "idle" /\ run'.list = run.list /\ UNCHANGED <<vault, quiet>>
        /\ (run.pc = "walk" => Turns) /\ run'.pc # "walk"
    BY <1>4 DEF StepCase, Stops, Turns, Unparsed, PassesOver, TakesUp, Recovered, Looks, RunKeeps,
         WritesRow, WritesClaims, WritesEdges, WritesChunks, WritesFindings, Prunes, Finishes,
         Statement
  <2>2. run'.scopeOf = run.scopeOf
    BY <1>4, <2>1 DEF ReportCase
  <2>3. Seen' = Seen
    BY <2>1 DEF Seen, Turns
  <2> QED
    BY <2>1, <2>2, <2>3 DEF ScopeInv
<1> QED
  BY <1>1, <1>2, <1>3, <1>4

LEMMA KnownStandsOn ==
  ASSUME KnownInv, StepCase
  PROVE  KnownInv'
<1>1. CASE run'.index = run.index
  BY <1>1 DEF KnownInv
<1>2. CASE run'.index = EmptyIndex
  BY <1>2 DEF KnownInv, EmptyIndex
<1>3. CASE \E path \in run.todo : Walks1(path)
  <2>1. PICK path \in run.todo : run'.index = Walked(run.index, path, vault[path])
    BY <1>3 DEF Walks1
  <2>2. CASE vault[path].ok /\ vault[path].uid # None
    <3> DEFINE scope0 == ScopeOf(path, vault[path])
               names  == {SlugOf(path, vault[path])} \cup vault[path].aliases
               more   == {[scope |-> scope0, name |-> n, uid |-> vault[path].uid] : n \in names}
    <3>1. /\ run'.index.aliases = run.index.aliases \cup more
          /\ run'.index.known = run.index.known \cup {<<Normal[n], scope0>> : n \in names}
      BY <2>1, <2>2 DEF Walked, Register
    <3>2. {<<Normal[n], scope0>> : n \in names} = {<<Normal[a.name], a.scope>> : a \in more}
      <4> HIDE DEF names, scope0
      <4>1. \A a \in more : a.name \in names /\ a.scope = scope0
        OBVIOUS
      <4>2. \A n \in names : [scope |-> scope0, name |-> n, uid |-> vault[path].uid] \in more
        OBVIOUS
      <4>3. \A n \in names : \E a \in more : a.name = n /\ a.scope = scope0
        BY <4>2
      <4> HIDE DEF more
      <4> QED
        BY <4>1, <4>3
    <3> HIDE DEF more, names, scope0
    <3> QED
      BY <3>1, <3>2 DEF KnownInv
  <2>3. CASE ~ (vault[path].ok /\ vault[path].uid # None)
    BY <1>1, <2>1, <2>3 DEF Walked
  <2> QED
    BY <2>2, <2>3
<1> QED
  BY <1>1, <1>2, <1>3
     DEF StepCase, Outside, Begins, Stops, Turns, Unparsed, PassesOver, TakesUp, Recovered, Looks,
         WritesRow, WritesClaims, WritesEdges, WritesChunks, WritesFindings, Prunes, Finishes,
         Statement

\* As many values as arguments, when no two arguments have one.
LEMMA AsManyValues ==
  ASSUME NEW S, IsFiniteSet(S), NEW f, DOMAIN f = S,
         \A x, y \in S : f[x] = f[y] => x = y
  PROVE  /\ IsFiniteSet({f[x] : x \in S})
         /\ Cardinality({f[x] : x \in S}) = Cardinality(S)
<1> DEFINE T == {f[x] : x \in S}
           g == [x \in S |-> f[x]]
<1>1. g \in Bijection(S, T)
  <2>1. g \in [S -> T]
    OBVIOUS
  <2>2. IsInjective(g)
    BY DEF IsInjective
  <2>3. \A t \in T : \E x \in S : g[x] = t
    OBVIOUS
  <2> HIDE DEF g, T
  <2> QED
    BY <2>1, <2>2, <2>3 DEF Bijection, Injection, Surjection
<1>2. ExistsBijection(S, T)
  BY <1>1 DEF ExistsBijection
<1> HIDE DEF T
<1>3. IsFiniteSet(T) /\ Cardinality(T) = Cardinality(S)
  BY <1>2, FS_Bijection
<1> QED
  BY <1>3 DEF T

LEMMA ValuesAreFinite ==
  ASSUME NEW S, IsFiniteSet(S), NEW f, DOMAIN f = S
  PROVE  IsFiniteSet({f[x] : x \in S})
<1> DEFINE T == {f[x] : x \in S}
           g == [x \in S |-> f[x]]
<1>1. g \in Surjection(S, T)
  BY DEF Surjection
<1> HIDE DEF T, g
<1>2. IsFiniteSet(T)
  BY <1>1, FS_Surjection
<1> QED
  BY <1>2 DEF T

\* Health of no reference, and of some more.
LEMMA HealthOfNone == ASSUME NEW known, NEW rows PROVE HealthOf({}, known, rows) = NoTally
<1>1. DanglingIn({}) = {} /\ CrossingIn({}, known, rows) = {}
  BY DEF DanglingIn, CrossingIn
<1> QED
  BY <1>1, FS_EmptySet DEF HealthOf, NoTally

LEMMA HealthOfMore ==
  ASSUME NEW all, NEW more, NEW known, NEW rows,
         IsFiniteSet(all), IsFiniteSet(more), all \cap more = {}
  PROVE  LET all2 == all \cup more IN
         /\ IsFiniteSet(all2)
         /\ HealthOf(all2, known, rows) =
              [resolved   |-> HealthOf(all, known, rows).resolved + Cardinality(more)
                                - Cardinality(DanglingIn(more)),
               crossScope |-> HealthOf(all, known, rows).crossScope
                                + Cardinality(CrossingIn(more, known, rows)),
               missing    |-> HealthOf(all, known, rows).missing + Cardinality(DanglingIn(more))
                                - Cardinality(CrossingIn(more, known, rows))]
<1> DEFINE all2 == all \cup more
<1>1. ASSUME NEW S, NEW T, IsFiniteSet(S), IsFiniteSet(T), S \cap T = {}
      PROVE  /\ IsFiniteSet(S \cup T)
             /\ Cardinality(S) \in Nat /\ Cardinality(T) \in Nat
             /\ Cardinality(S \cup T) = Cardinality(S) + Cardinality(T)
  <2> DEFINE a == Cardinality(S)
             b == Cardinality(T)
             c == Cardinality(S \cup T)
  <2>1. a \in Nat /\ b \in Nat /\ IsFiniteSet(S \cup T)
    BY <1>1, FS_CardinalityType, FS_Union
  <2>2. c = a + b - Cardinality(S \cap T)
    BY <1>1, FS_Union
  <2>3. Cardinality(S \cap T) = 0
    BY <1>1, FS_EmptySet
  <2>4. c = a + b - 0
    BY <2>2, <2>3
  <2> HIDE DEF a, b, c
  <2>5. c = a + b
    BY <2>1, <2>4
  <2> QED
    BY <2>1, <2>5 DEF a, b, c
<1>2. /\ DanglingIn(all2) = DanglingIn(all) \cup DanglingIn(more)
      /\ CrossingIn(all2, known, rows) = CrossingIn(all, known, rows) \cup CrossingIn(more, known, rows)
      /\ DanglingIn(all) \subseteq all /\ DanglingIn(more) \subseteq more
      /\ CrossingIn(all, known, rows) \subseteq all /\ CrossingIn(more, known, rows) \subseteq more
  BY DEF DanglingIn, CrossingIn
<1>3. /\ IsFiniteSet(DanglingIn(all)) /\ IsFiniteSet(DanglingIn(more))
      /\ IsFiniteSet(CrossingIn(all, known, rows)) /\ IsFiniteSet(CrossingIn(more, known, rows))
  BY <1>2, FS_Subset
<1>4. /\ DanglingIn(all) \cap DanglingIn(more) = {}
      /\ CrossingIn(all, known, rows) \cap CrossingIn(more, known, rows) = {}
  BY <1>2
<1>5. /\ IsFiniteSet(all2) /\ Cardinality(all) \in Nat /\ Cardinality(more) \in Nat
      /\ Cardinality(all2) = Cardinality(all) + Cardinality(more)
  BY <1>1
<1>6. /\ Cardinality(DanglingIn(all)) \in Nat /\ Cardinality(DanglingIn(more)) \in Nat
      /\ Cardinality(DanglingIn(all2)) = Cardinality(DanglingIn(all)) + Cardinality(DanglingIn(more))
  BY <1>1, <1>2, <1>3, <1>4
<1>7. /\ Cardinality(CrossingIn(all, known, rows)) \in Nat
      /\ Cardinality(CrossingIn(more, known, rows)) \in Nat
      /\ Cardinality(CrossingIn(all2, known, rows))
           = Cardinality(CrossingIn(all, known, rows)) + Cardinality(CrossingIn(more, known, rows))
  BY <1>1, <1>2, <1>3, <1>4
<1> DEFINE a1 == Cardinality(all)
           a2 == Cardinality(more)
           d1 == Cardinality(DanglingIn(all))
           d2 == Cardinality(DanglingIn(more))
           c1 == Cardinality(CrossingIn(all, known, rows))
           c2 == Cardinality(CrossingIn(more, known, rows))
<1>8. /\ HealthOf(all, known, rows).resolved = a1 - d1
      /\ HealthOf(all, known, rows).crossScope = c1
      /\ HealthOf(all, known, rows).missing = d1 - c1
  BY DEF HealthOf
<1>9. HealthOf(all2, known, rows)
        = [resolved |-> (a1 + a2) - (d1 + d2), crossScope |-> c1 + c2,
           missing |-> (d1 + d2) - (c1 + c2)]
  BY <1>5, <1>6, <1>7 DEF HealthOf
<1>10. /\ a1 \in Nat /\ a2 \in Nat /\ d1 \in Nat /\ d2 \in Nat /\ c1 \in Nat /\ c2 \in Nat
  BY <1>5, <1>6, <1>7
<1> HIDE DEF a1, a2, d1, d2, c1, c2, all2
<1>11. /\ (a1 + a2) - (d1 + d2) = (a1 - d1) + a2 - d2
       /\ (d1 + d2) - (c1 + c2) = (d1 - c1) + d2 - c2
  BY <1>10
<1>12. HealthOf(all2, known, rows)
         = [resolved |-> (a1 - d1) + a2 - d2, crossScope |-> c1 + c2,
            missing |-> (d1 - c1) + d2 - c2]
  BY <1>9, <1>11
<1> QED
  BY <1>5, <1>8, <1>12 DEF all2, a2, d2, c2

\* The references of a page, in the count and in the tables.
ToldOf(refs, uid) == {[uid |-> uid, rule |-> f.rule, ref |-> f.detail] : f \in refs}

DanglingRefs(refs) == {f.detail : f \in {g \in refs : g.rule = "dangling_ref"}}

CrossingRefs(refs, known, scope) == {ref \in DanglingRefs(refs) : CrossScope(known, ref, scope)}

LEMMA ReferencesOfThePage ==
  ASSUME NEW page, NEW scope, NEW index, NEW uid, NEW known, NEW rows, NEW refs,
         IsFiniteSet(page.links), rows[uid].scope = scope,
         refs = RefFindingsOf(page, scope, index)
  PROVE  /\ IsFiniteSet(ToldOf(refs, uid))
         /\ Cardinality(ToldOf(refs, uid)) = Cardinality(refs)
         /\ Cardinality(DanglingIn(ToldOf(refs, uid))) = Cardinality(DanglingRefs(refs))
         /\ Cardinality(CrossingIn(ToldOf(refs, uid), known, rows))
              = Cardinality(CrossingRefs(refs, known, scope))
<1>0. PICK more, dangling, crossing :
        /\ more = ToldOf(refs, uid) /\ dangling = DanglingRefs(refs)
        /\ crossing = CrossingRefs(refs, known, scope)
  OBVIOUS
<1>a. /\ more = {[uid |-> uid, rule |-> f.rule, ref |-> f.detail] : f \in refs}
      /\ dangling = {f.detail : f \in {g \in refs : g.rule = "dangling_ref"}}
      /\ crossing = {ref \in dangling : CrossScope(known, ref, scope)}
  BY <1>0 DEF ToldOf, DanglingRefs, CrossingRefs
<1> DEFINE names    == {link.ref : link \in page.links}
           Rule(ref) == IF Resolve(ref, scope, index).uid = None THEN "dangling_ref" ELSE "resolved_ref"
           found    == [ref \in names |-> [rule |-> Rule(ref), detail |-> ref,
                                            via |-> Resolve(ref, scope, index).rung]]
           told     == [ref \in names |-> [uid |-> uid, rule |-> Rule(ref), ref |-> ref]]
<1>1. IsFiniteSet(names)
  <2> DEFINE refOf == [link \in page.links |-> link.ref]
  <2>1. names = {refOf[link] : link \in page.links}
    OBVIOUS
  <2>2. DOMAIN refOf = page.links
    OBVIOUS
  <2> HIDE DEF refOf, names
  <2> QED
    BY <2>1, <2>2, ValuesAreFinite
<1> HIDE DEF names
<1>2. refs = {found[ref] : ref \in names}
  BY DEF RefFindingsOf, names
<1>3. more = {told[ref] : ref \in names}
  <2>1. \A ref \in names : told[ref] = [uid |-> uid, rule |-> found[ref].rule, ref |-> found[ref].detail]
    OBVIOUS
  <2> HIDE DEF told, found
  <2>2. \A f \in refs : \E ref \in names : [uid |-> uid, rule |-> f.rule, ref |-> f.detail] = told[ref]
    BY <1>2, <2>1
  <2>3. \A ref \in names : \E f \in refs : [uid |-> uid, rule |-> f.rule, ref |-> f.detail] = told[ref]
    BY <1>2, <2>1
  <2>4. \A m \in more : m \in {told[ref] : ref \in names}
    BY <1>a, <2>2
  <2>5. \A ref \in names : told[ref] \in more
    BY <1>a, <2>3
  <2> QED
    BY <2>4, <2>5
<1>4. dangling = {ref \in names : Rule(ref) = "dangling_ref"}
  <2>1. \A ref \in names : found[ref].detail = ref /\ found[ref].rule = Rule(ref)
    OBVIOUS
  <2> HIDE DEF found, Rule
  <2> QED
    BY <1>2, <1>a, <2>1
<1>5. /\ \A ref \in names : told[ref].rule = Rule(ref) /\ told[ref].ref = ref /\ told[ref].uid = uid
      /\ DOMAIN told = names /\ DOMAIN found = names
      /\ \A ref \in names : found[ref].detail = ref
  OBVIOUS
<1> HIDE DEF told, found, Rule
<1>6. /\ DanglingIn(more) = {told[ref] : ref \in dangling}
      /\ CrossingIn(more, known, rows) = {told[ref] : ref \in crossing}
  <2>1. DanglingIn(more) = {told[ref] : ref \in dangling}
    BY <1>3, <1>4, <1>5 DEF DanglingIn
  <2>2. \A ref \in names : CrossScope(known, told[ref].ref, rows[told[ref].uid].scope)
                             <=> CrossScope(known, ref, scope)
    BY <1>5
  <2>3. \A ref \in dangling : ref \in names
    BY <1>4
  <2> QED
    BY <1>a, <2>1, <2>2, <2>3 DEF CrossingIn
<1>7. dangling \subseteq names /\ crossing \subseteq names
  BY <1>4, <1>a
<1>8. ASSUME NEW S, S \subseteq names
      PROVE  /\ IsFiniteSet({told[ref] : ref \in S})
             /\ Cardinality({told[ref] : ref \in S}) = Cardinality(S)
  <2> DEFINE g == [ref \in S |-> told[ref]]
  <2>1. DOMAIN g = S /\ (\A x, y \in S : g[x] = g[y] => x = y)
    BY <1>5, <1>8
  <2>2. {told[ref] : ref \in S} = {g[ref] : ref \in S}
    OBVIOUS
  <2>3. IsFiniteSet(S)
    BY <1>1, <1>8, FS_Subset
  <2> HIDE DEF g
  <2>4. IsFiniteSet({g[ref] : ref \in S}) /\ Cardinality({g[ref] : ref \in S}) = Cardinality(S)
    BY <2>1, <2>3, AsManyValues
  <2> QED
    BY <2>2, <2>4
<1>9. Cardinality(refs) = Cardinality(names)
  <2>1. \A x, y \in names : found[x] = found[y] => x = y
    BY <1>5
  <2> QED
    BY <1>1, <1>2, <1>5, <2>1, AsManyValues
<1>10. IsFiniteSet(more) /\ Cardinality(more) = Cardinality(names)
  BY <1>3, <1>8
<1>11. /\ Cardinality(DanglingIn(more)) = Cardinality(dangling)
       /\ Cardinality(CrossingIn(more, known, rows)) = Cardinality(crossing)
  BY <1>6, <1>7, <1>8
<1> QED
  BY <1>0, <1>9, <1>10, <1>11

LEMMA CountStays ==
  ASSUME Settled' = Settled,
         \A uid \in Settled : db'.rows[uid] = db.rows[uid] /\ db'.findings[uid] = db.findings[uid]
  PROVE  /\ Counted' = Counted
         /\ \A known : HealthOf(Counted, known, db'.rows) = HealthOf(Counted, known, db.rows)
<1>1. \A uid \in Settled : ReferencesOf(db'.findings, uid) = ReferencesOf(db.findings, uid)
  BY DEF ReferencesOf
<1>2. Counted' = UNION {ReferencesOf(db'.findings, uid) : uid \in Settled}
  BY DEF Counted
<1>3. Counted' = Counted
  BY <1>1, <1>2 DEF Counted
<1>4. \A f \in Counted : f.uid \in Settled
  BY DEF Counted, ReferencesOf
<1>5. ASSUME NEW known PROVE CrossingIn(Counted, known, db'.rows) = CrossingIn(Counted, known, db.rows)
  <2>1. \A f \in DanglingIn(Counted) : db'.rows[f.uid] = db.rows[f.uid]
    BY <1>4 DEF DanglingIn
  <2> QED
    BY <2>1 DEF CrossingIn
<1> QED
  BY <1>3, <1>5 DEF HealthOf

LEMMA NoneIsDead ==
  ASSUME RunInv, FreshInv, FreshRun, run.pc = "index"
  PROVE  Dead = {}
<1>1. ASSUME NEW uid \in Dead PROVE FALSE
  <2>1. uid \in Documents(db) /\ db.rows[uid].path \notin run.list
    BY <1>1 DEF Dead, Owned
  <2>2. db.rows[uid].path \in Parsed
    BY <2>1 DEF FreshInv, IsRowOf
  <2>3. run.list = Listed
    BY DEF RunInv, PruneInv, FreshRun
  <2> QED
    BY <2>1, <2>2, <2>3 DEF Parsed
<1> QED
  BY <1>1

\* The page's references join the count.
LEMMA FindingsAreCounted ==
  ASSUME RunInv, WalkInv, FreshInv, ScopeInv, TallyInv, Still, ReportCase, WritesFindings
  PROVE  /\ IsFiniteSet(Counted')
         /\ run'.tally = HealthOf(Counted', run'.index.known, db'.rows)
<1>0. PICK uid, path, page, scope, index, known :
        /\ uid = run.page.uid /\ path = run.page.path /\ page = run.page.page
        /\ scope = PageScope /\ index = run.index /\ known = run.index.known
  OBVIOUS
<1> DEFINE refs == RefFindingsOf(page, scope, index)
           more == ToldOf(refs, uid)
<1>1. /\ run.pc = "findings" /\ run'.pc = "index" /\ run'.index = run.index
      /\ db'.rows = db.rows
      /\ db'.findings[uid] = FindingsOf(page, run.types) \cup refs
      /\ \A u \in Uids \ {uid} : db'.findings[u] = db.findings[u]
  BY <1>0 DEF WritesFindings, OthersKeep
<1>2. /\ path \in Parsed /\ vault[path] = page /\ IsPage(page) /\ page.ok
      /\ IsFiniteSet(page.links) /\ FreshRun /\ quiet
  <2>1. FreshRun /\ quiet
    BY DEF Still, FreshRun
  <2>2. path \in Parsed /\ vault[path] = page /\ IsPage(page)
    BY <1>0, <1>1, <2>1, PageIsListed DEF WalkInv, UnderWay, Writing
  <2> QED
    BY <2>1, <2>2 DEF IsPage, Parsed
<1>3. uid \in Documents(db) /\ db.rows[uid].scope = scope
  BY <1>0, <1>1, RowIsNoNoRow DEF RunInv, PageInv, Owned, Writing, PageScope
<1>4. run.scopeOf[path] = scope
  <2>1. path \in Seen
    BY <1>0, <1>1 DEF Seen, WalkInv, WayInv, UnderWay, Writing
  <2> QED
    BY <1>0, <1>1, <1>2, <2>1 DEF ScopeInv, WalkedScope, PageScope
<1>5. ReferencesOf(db'.findings, uid) = more
  <2>1. \A f \in FindingsOf(page, run.types) : f.rule \notin {"resolved_ref", "dangling_ref"}
    <3>1. PICK rules : /\ FindingsOf(page, run.types) = {Finding(rule) : rule \in page.flags \cup rules}
                       /\ rules \subseteq {"oversize", "too_many_claims", "missing_claims"}
      <4> DEFINE big  == IF Len(WordsOf(page.body)) > run.types.maxTokens THEN {"oversize"} ELSE {}
                 many == IF Len(page.claims) > run.types.maxClaims THEN {"too_many_claims"} ELSE {}
                 none == IF run.types.indexed /\ page.claims = << >> THEN {"missing_claims"} ELSE {}
      <4>1. FindingsOf(page, run.types) = {Finding(rule) : rule \in page.flags \cup big \cup many \cup none}
        BY DEF FindingsOf
      <4>2. big \cup many \cup none \subseteq {"oversize", "too_many_claims", "missing_claims"}
        OBVIOUS
      <4> HIDE DEF big, many, none
      <4>3. page.flags \cup big \cup many \cup none = page.flags \cup (big \cup many \cup none)
        OBVIOUS
      <4> QED
        BY <4>1, <4>2, <4>3
    <3>2. page.flags \cap {"dangling_ref", "resolved_ref"} = {}
      BY <1>2 DEF IsPage
    <3> QED
      BY <3>1, <3>2 DEF Finding
  <2>2. \A f \in refs : f.rule \in {"resolved_ref", "dangling_ref"}
    BY DEF RefFindingsOf
  <2> HIDE DEF refs
  <2>3. {g \in db'.findings[uid] : g.rule \in {"resolved_ref", "dangling_ref"}} = refs
    BY <1>1, <2>1, <2>2
  <2> QED
    BY <2>3 DEF ReferencesOf, ToldOf
<1> HIDE DEF refs
<1>6. Settled = Documents(db) \ {uid} /\ Settled' = Documents(db)
  <2>1. Documents(db') = Documents(db)
    BY <1>1 DEF Documents
  <2> QED
    BY <1>0, <1>1, <2>1 DEF Settled, Writing
<1> HIDE DEF more
<1>7. Counted' = Counted \cup more
  <2>1. Counted' = UNION {ReferencesOf(db'.findings, u) : u \in Settled'}
    BY DEF Counted
  <2>2. \A u \in Settled : ReferencesOf(db'.findings, u) = ReferencesOf(db.findings, u)
    BY <1>1, <1>6 DEF ReferencesOf, Documents
  <2>3. Counted' = (UNION {ReferencesOf(db'.findings, u) : u \in Settled})
                     \cup ReferencesOf(db'.findings, uid)
    BY <1>3, <1>6, <2>1
  <2>4. UNION {ReferencesOf(db'.findings, u) : u \in Settled}
          = UNION {ReferencesOf(db.findings, u) : u \in Settled}
    BY <2>2
  <2> QED
    BY <1>5, <2>3, <2>4 DEF Counted
<1>8. Counted \cap more = {}
  <2>1. \A f \in Counted : f.uid # uid
    BY <1>6 DEF Counted, ReferencesOf
  <2>2. \A f \in more : f.uid = uid
    BY DEF more, ToldOf
  <2> QED
    BY <2>1, <2>2
<1>9. IsFiniteSet(Counted) /\ run.tally = HealthOf(Counted, known, db.rows)
  BY <1>0, <1>1, <1>2 DEF TallyInv
<1> DEFINE dangling == DanglingRefs(refs)
           crossing == CrossingRefs(refs, known, scope)
<1>10. /\ IsFiniteSet(more) /\ Cardinality(more) = Cardinality(refs)
       /\ Cardinality(DanglingIn(more)) = Cardinality(dangling)
       /\ Cardinality(CrossingIn(more, known, db.rows)) = Cardinality(crossing)
  BY <1>2, <1>3, ReferencesOfThePage DEF more, refs
<1>11. run'.tally = Tallied(run.tally, refs, known, scope)
  BY <1>0, <1>4 DEF ReportCase, refs
<1>12. run'.tally = [resolved   |-> run.tally.resolved + Cardinality(refs) - Cardinality(dangling),
                     crossScope |-> run.tally.crossScope + Cardinality(crossing),
                     missing    |-> run.tally.missing + Cardinality(dangling) - Cardinality(crossing)]
  BY <1>11 DEF Tallied, DanglingRefs, CrossingRefs
<1>13. /\ IsFiniteSet(Counted \cup more)
       /\ HealthOf(Counted \cup more, known, db.rows) = run'.tally
  <2> HIDE DEF dangling, crossing
  <2> QED
    BY <1>8, <1>9, <1>10, <1>12, HealthOfMore
<1> QED
  BY <1>0, <1>1, <1>7, <1>13

LEMMA TallyStandsOn ==
  ASSUME RunInv, WalkInv, FreshInv, ScopeInv, TallyInv, StepCase, ReportCase
  PROVE  TallyInv'
<1> SUFFICES ASSUME FreshRun', run'.pc # "idle"
             PROVE  /\ IsFiniteSet(Counted')
                    /\ run'.tally = HealthOf(Counted', run'.index.known, db'.rows)
  BY DEF TallyInv
<1>1. CASE Outside
  <2>1. UNCHANGED <<vault, quiet, db, run, outcome, fresh>>
    BY <1>1 DEF Outside, FreshRun
  <2>2. FreshRun
    BY <2>1, DistinctStays DEF FreshRun, Complete
  <2>3. Counted' = Counted
    BY <2>1 DEF Counted, Settled, Documents
  <2> QED
    BY <2>1, <2>2, <2>3 DEF TallyInv
<1>2. CASE Documents(db') = {} /\ run'.tally = NoTally
  <2>1. Settled' = {}
    BY <1>2 DEF Settled
  <2>2. Counted' = {}
    BY <2>1 DEF Counted
  <2> QED
    BY <1>2, <2>2, HealthOfNone, FS_EmptySet
<1>3. CASE Begins
  BY <1>2, <1>3 DEF Begins, FreshRun, ReportCase
<1>4. CASE Stops \/ Finishes
  BY <1>4 DEF Stops, Finishes
<1>5. ASSUME run.pc # "idle", UNCHANGED <<vault, types, quiet, fresh>> PROVE Still
  BY <1>5, FreshStays DEF Still
<1>6. ASSUME Still, ~ Begins, ~ WritesFindings, Settled' = Settled, run'.index = run.index,
             run.pc # "idle",
             \A uid \in Settled : db'.rows[uid] = db.rows[uid] /\ db'.findings[uid] = db.findings[uid]
      PROVE  /\ IsFiniteSet(Counted')
             /\ run'.tally = HealthOf(Counted', run'.index.known, db'.rows)
  <2>1. run'.tally = run.tally
    BY <1>6 DEF ReportCase
  <2>2. IsFiniteSet(Counted) /\ run.tally = HealthOf(Counted, run.index.known, db.rows)
    BY <1>6 DEF TallyInv, Still
  <2> QED
    BY <1>6, <2>1, <2>2, CountStays
<1>7. CASE (\E path \in run.todo : Walks1(path)) \/ Turns
  <2>1. run.pc = "walk" /\ UNCHANGED <<vault, types, quiet, fresh, db>>
    BY <1>7 DEF Walks1, Turns, RunKeeps
  <2>2. FreshRun
    BY <1>5, <2>1 DEF Still
  <2>3. Documents(db) = {}
    BY <2>1, <2>2 DEF FreshInv, Done, Passed, Writing
  <2>4. Counted = {}
    BY <2>3 DEF Counted, Settled
  <2>5. run.tally = NoTally
    BY <2>1, <2>2, <2>4, HealthOfNone DEF TallyInv
  <2>6. run'.tally = run.tally
    BY <2>1 DEF ReportCase, Begins, WritesFindings
  <2> QED
    BY <1>2, <2>1, <2>3, <2>5, <2>6
<1>8. CASE \/ \E path \in run.todo : Unparsed(path) \/ PassesOver(path) \/ TakesUp(path)
           \/ WritesClaims \/ WritesEdges \/ WritesChunks
  <2>1. /\ run.pc # "idle" /\ UNCHANGED <<vault, types, quiet, fresh>> /\ run'.index = run.index
        /\ db'.rows = db.rows /\ db'.findings = db.findings
        /\ ~ Begins /\ ~ WritesFindings
        /\ \/ run.pc \notin Writing /\ run'.pc \notin Writing
           \/ run.pc \in Writing /\ run'.pc \in Writing /\ run'.page = run.page
    BY <1>8 DEF Unparsed, PassesOver, TakesUp, Recovered, Looks, SameDocuments, RunKeeps,
         WritesClaims, WritesEdges, WritesChunks, Statement, Writing, Begins, WritesFindings
  <2>2. Settled' = Settled
    BY <2>1 DEF Settled, Documents
  <2> QED
    BY <1>5, <1>6, <2>1, <2>2
<1>9. CASE WritesRow
  <2>1. /\ run.pc = "document" /\ run'.pc = "claims" /\ run'.page = run.page
        /\ UNCHANGED <<vault, types, quiet, fresh>> /\ run'.index = run.index
        /\ \A u \in Uids \ {run.page.uid} : db'.rows[u] = db.rows[u]
        /\ db'.findings = db.findings
    BY <1>9 DEF WritesRow, Statement, RunKeeps, OthersKeep
  <2>2. Still
    BY <1>5, <2>1
  <2>3. run.page.uid \notin Documents(db)
    BY <2>1, <2>2 DEF FreshInv, Still
  <2>4. Settled = Documents(db) /\ Settled' = Documents(db') \ {run.page.uid}
    BY <2>1 DEF Settled, Writing
  <2>5. Documents(db') \ {run.page.uid} = Documents(db)
    BY <2>1, <2>3 DEF Documents
  <2>6. \A u \in Settled : db'.rows[u] = db.rows[u]
    BY <2>1, <2>3, <2>4 DEF Documents
  <2> QED
    BY <1>6, <2>1, <2>2, <2>4, <2>5, <2>6 DEF Begins, WritesFindings
<1>10. CASE Prunes
  <2>1. /\ run.pc = "index" /\ run'.pc = "embed"
        /\ UNCHANGED <<vault, types, quiet, fresh>> /\ run'.index = run.index
        /\ Documents(db') = Documents(db) \ Dead
        /\ \A u \in Uids \ Dead : db'.rows[u] = db.rows[u] /\ db'.findings[u] = db.findings[u]
    BY <1>10 DEF Prunes, RunKeeps
  <2>2. Still
    BY <1>5, <2>1
  <2>3. Dead = {}
    BY <2>1, <2>2, NoneIsDead DEF Still
  <2>4. Settled = Documents(db) /\ Settled' = Documents(db)
    BY <2>1, <2>3 DEF Settled, Writing
  <2> QED
    BY <1>6, <2>1, <2>2, <2>3, <2>4 DEF Documents, Begins, WritesFindings
<1>11. CASE WritesFindings
  <2>1. run.pc # "idle" /\ UNCHANGED <<vault, types, quiet, fresh>>
    BY <1>11 DEF WritesFindings, RunKeeps
  <2> QED
    BY <1>5, <1>11, <2>1, FindingsAreCounted
<1> QED
  BY <1>1, <1>3, <1>4, <1>7, <1>8, <1>9, <1>10, <1>11 DEF StepCase

\* At its end the count is what the tables say.
LEMMA CountIsOfTheTables ==
  ASSUME RunInv, WalkInv, IndexInv, FreshInv, KnownInv, TallyInv, FreshRun, run.pc = "embed",
         \A p \in Parsed : vault[p].uid # None
  PROVE  ComputeLinkHealth(Scopes) = run.tally
<1>1. /\ quiet /\ Distinct /\ run.todo = {} /\ run.list = Listed /\ Done = Listed
      /\ Registered = Parsed
  <2>1. quiet /\ Distinct /\ run.todo = {} /\ run.list = Listed
    BY DEF FreshRun, WalkInv, WayInv, RunInv, PruneInv
  <2> QED
    BY <2>1, RegisteredAreParsed DEF Done, Passed, WalkInv
<1>2. Owned(db, Scopes) = Documents(db) /\ Settled = Documents(db)
  BY DEF Owned, Settled, Writing, WalkInv, RowsStand
<1>3. ReferenceFindings(db, Scopes) = Counted
  BY <1>2 DEF ReferenceFindings, Counted, ReferencesOf
<1>4. ASSUME NEW uid \in Documents(db)
      PROVE  \E p \in Parsed : /\ p = db.rows[uid].path /\ db.rows[uid].scope = ScopeOf(p, vault[p])
                               /\ {db.rows[uid].slug} \cup db.rows[uid].aliases = NamesOf(p)
  <2>1. PICK p : p = db.rows[uid].path /\ p \in Parsed /\ db.rows[uid] = RowOf(p, vault[p], types)
    BY <1>4 DEF FreshInv, IsRowOf
  <2> QED
    BY <2>1 DEF RowOf, NamesOf
<1>5. /\ \A p \in Parsed : NamedBy(p) \subseteq run.index.aliases
      /\ \A a \in run.index.aliases : \E p \in Parsed : a \in NamedBy(p)
  BY <1>1 DEF IndexInv
<1>6. SlugScopeIndex(db, Scopes) \subseteq run.index.known
  <2>1. ASSUME NEW uid \in Documents(db), NEW n \in {db.rows[uid].slug} \cup db.rows[uid].aliases
        PROVE  <<Normal[n], db.rows[uid].scope>> \in run.index.known
    <3>1. PICK p \in Parsed : db.rows[uid].scope = ScopeOf(p, vault[p]) /\ n \in NamesOf(p)
      BY <1>4, <2>1
    <3>2. [scope |-> ScopeOf(p, vault[p]), name |-> n, uid |-> vault[p].uid] \in NamedBy(p)
      BY <3>1 DEF NamedBy
    <3>3. \E a \in run.index.aliases : a.name = n /\ a.scope = ScopeOf(p, vault[p])
      BY <1>5, <3>2
    <3> QED
      BY <3>1, <3>3 DEF KnownInv
  <2> QED
    BY <1>2, <2>1 DEF SlugScopeIndex
<1>7. run.index.known \subseteq SlugScopeIndex(db, Scopes)
  <2>1. ASSUME NEW a \in run.index.aliases PROVE <<Normal[a.name], a.scope>> \in SlugScopeIndex(db, Scopes)
    <3>1. PICK p \in Parsed : a \in NamedBy(p)
      BY <1>5, <2>1
    <3>2. a.name \in NamesOf(p) /\ a.scope = ScopeOf(p, vault[p])
      BY <3>1 DEF NamedBy
    <3>3. PICK uid \in Documents(db) : db.rows[uid].path = p
      BY <1>1 DEF FreshInv, RowsAt, Parsed
    <3>4. a.name \in {db.rows[uid].slug} \cup db.rows[uid].aliases /\ a.scope = db.rows[uid].scope
      BY <1>4, <3>2, <3>3
    <3> QED
      BY <1>2, <3>3, <3>4 DEF SlugScopeIndex
  <2> QED
    BY <2>1 DEF KnownInv
<1>8. SlugScopeIndex(db, Scopes) = run.index.known
  BY <1>6, <1>7
<1>9. ComputeLinkHealth(Scopes) = HealthOf(Counted, run.index.known, db.rows)
  BY <1>3, <1>8 DEF ComputeLinkHealth, HealthOf, DanglingIn, CrossingIn
<1> QED
  BY <1>9 DEF TallyInv

\* cli.go (ComputeLinkHealth): link health is computed from the tables and, by a
\* run, while it writes them; after a run over empty tables both say the same of
\* a vault whose pages all carry their uid.
THEOREM HealthIsWhatWasCounted == Spec => []HealthAgreesWithRun
<1>1. Init => ReportInv
  BY DEF Init, Resting, ReportInv, ScopeInv, KnownInv, EmptyIndex, TallyInv, HealthAgreesWithRun,
       Complete
<1>2. ASSUME RunInv, WalkInv, IndexInv, FreshInv, ReportInv, [Next]_vars
      PROVE  ReportInv'
  <2>1. StepCase /\ ReportCase
    BY <1>2, EveryStep, ReportSteps
  <2>2. ScopeInv' /\ KnownInv' /\ TallyInv'
    BY <1>2, <2>1, ScopeStandsOn, KnownStandsOn, TallyStandsOn DEF ReportInv, WalkInv
  <2>3. ASSUME (Complete /\ Distinct /\ fresh /\ \A p \in Parsed : vault[p].uid # None)'
        PROVE  (ComputeLinkHealth(Scopes) = run.tally)'
    <3>1. CASE Outside
      <4>1. UNCHANGED <<vault, quiet, db, run, outcome, fresh>>
        BY <2>3, <3>1 DEF Outside, Complete
      <4>2. Complete /\ Distinct /\ fresh /\ \A p \in Parsed : vault[p].uid # None
        BY <2>3, <4>1, DistinctStays DEF Complete
      <4>3. ComputeLinkHealth(Scopes) = run.tally
        BY <1>2, <4>2 DEF ReportInv, HealthAgreesWithRun
      <4> QED
        BY <4>1, <4>3 DEF ComputeLinkHealth
    <3>2. CASE Finishes
      <4>1. /\ run.pc = "embed" /\ UNCHANGED <<vault, quiet, fresh>>
            /\ db'.rows = db.rows /\ db'.findings = db.findings
        BY <3>2 DEF Finishes, SameDocuments
      <4>2. FreshRun /\ (\A p \in Parsed : vault[p].uid # None)
        BY <2>3, <4>1, DistinctStays DEF FreshRun, Complete
      <4>3. ComputeLinkHealth(Scopes) = run.tally
        BY <1>2, <4>1, <4>2, CountIsOfTheTables DEF ReportInv
      <4>4. run'.tally = run.tally
        BY <2>1, <4>1 DEF ReportCase, Begins, WritesFindings
      <4>5. ComputeLinkHealth(Scopes)' = ComputeLinkHealth(Scopes)
        BY <4>1 DEF ComputeLinkHealth, ReferenceFindings, SlugScopeIndex, Owned, Documents
      <4> QED
        BY <4>3, <4>4, <4>5
    <3>3. CASE ~ Outside /\ ~ Finishes
      <4>1. run'.pc # "idle" \/ outcome' \in {"failed", "stopped"}
        BY <2>1, <3>3 DEF StepCase, Begins, Stops, Walks1, Turns, Unparsed, PassesOver, TakesUp,
             Recovered, Looks, WritesRow, WritesClaims, WritesEdges, WritesChunks, WritesFindings,
             Prunes, Statement
      <4> QED
        BY <2>3, <4>1 DEF Complete
    <3> QED
      BY <3>1, <3>2, <3>3
  <2>4. HealthAgreesWithRun'
    BY <2>3 DEF HealthAgreesWithRun
  <2> QED
    BY <2>2, <2>4 DEF ReportInv
<1> QED
  BY <1>1, <1>2, RunHolds, WalkHolds, FreshHolds, PTL DEF Spec, ReportInv

-------------------------------------------------------------------------------
(* What an import keeps. *)

\* The pages of the vault and those an import has yet to write.
Papers == {vault[p] : p \in Parsed} \cup {c.page : c \in {d \in import.todo : d.page # NoPage}}

SourceInv ==
  \A page, other \in Papers :
    page.source # None => /\ page.uid # None
                          /\ page.source = other.source => page.uid = other.uid

\* A nonempty set of positions has a last one (the library's least element of a
\* well-founded order, of the distances to the end).
Later == {p \in Nat \X Nat : p[1] < p[2]}

LEMMA LastPosition ==
  ASSUME NEW len \in Nat, NEW S, S \subseteq 1..len, S # {}
  PROVE  \E last \in S : \A k \in S : k <= last
<1>1. IsWellFoundedOn(Later, Nat)
  <2>1. Later = OpToRel(<, Nat)
    BY DEF Later, OpToRel
  <2> QED
    BY <2>1, NatLessThanWellFounded
<1> DEFINE T == {d \in Nat : \E k \in S : d = len - k}
<1>2. T \subseteq Nat /\ T # {}
  <2>1. PICK k \in S : TRUE
    OBVIOUS
  <2>2. len - k \in Nat
    BY <2>1
  <2> QED
    BY <2>1, <2>2
<1>3. PICK d \in T : \A e \in T : ~ (<<e, d>> \in Later)
  <2> HIDE DEF T
  <2> QED
    BY <1>1, <1>2, WFMin
<1>4. PICK last \in S : d = len - last
  BY <1>3
<1>5. ASSUME NEW k \in S PROVE k <= last
  <2>1. len - k \in T /\ len - k \in Nat /\ d \in Nat
    <3>1. len - k \in Nat
      OBVIOUS
    <3> QED
      BY <1>3, <3>1
  <2>2. ~ (len - k < d)
    BY <1>3, <2>1 DEF Later
  <2> QED
    BY <1>4, <2>1, <2>2
<1> QED
  BY <1>5

\* readVaultIndex: of the pages found there is one walked last.
LEMMA LastOfIsThere ==
  ASSUME VaultInv, NEW found, found \subseteq VaultIndex(vault), found # {}
  PROVE  LastOf(found) \in found
<1>1. ASSUME NEW i \in found
      PROVE  Position(i.path) \in 1..Len(Order)
  <2>1. i.path \in DOMAIN Pages
    <3>1. PICK p \in DOMAIN vault : i = Identity(p, vault[p])
      BY DEF VaultIndex
    <3> QED
      BY <3>1, VaultsAreSound DEF Identity, VaultInv
  <2>2. \E k \in DOMAIN Order : Order[k] = i.path
    BY <2>1, OrderIsOfPaths DEF Range
  <2>3. Position(i.path) \in DOMAIN Order
    BY <2>2 DEF Position
  <2> QED
    BY <2>3, OrderIsOfPaths
<1>2. Len(Order) \in Nat
  BY OrderIsOfPaths
<1> DEFINE places == {Position(i.path) : i \in found}
<1>3. places \subseteq 1..Len(Order) /\ places # {}
  BY <1>1
<1>4. PICK last \in places : \A k \in places : k <= last
  <2> HIDE DEF places
  <2> QED
    BY <1>2, <1>3, LastPosition
<1>5. PICK i \in found : last = Position(i.path)
  BY <1>4
<1>6. \A other \in found : Walks(other.path, i.path)
  BY <1>4, <1>5 DEF Walks
<1> QED
  BY <1>5, <1>6 DEF LastOf

\* An import of a file that has pages finds one of them.
LEMMA PlansKeepSources ==
  ASSUME VaultInv, SourceInv,
         NEW corpus \in Corpora, NEW tenants \in TenantSets, NEW file \in corpus,
         NEW fresh0 \in Imported,
         NEW plan, plan = Plan(file, tenants, VaultIndex(vault), fresh0),
         NEW p \in Parsed, vault[p].source = file.name
  PROVE  plan.page.uid = vault[p].uid
<1>0. plan.page.uid = IF plan.prior.uid = None THEN fresh0 ELSE plan.prior.uid
  BY PlansStand
<1> DEFINE index    == VaultIndex(vault)
           bySource == {i \in index : i.source = file.name}
           scope    == ScopeFor(file.facets, tenants)
<1>1. file.name # None
  BY CorporaAreSound
<1>2. Identity(p, vault[p]) \in bySource
  BY <1>1 DEF Parsed, Listed, VaultIndex, Identity
<1>3. plan.prior = LastOf(bySource)
  <2>1. plan.prior = Find(index, file.name, scope, file.slug)
    BY DEF Plan
  <2> QED
    BY <1>2, <2>1 DEF Find
<1>4. plan.prior \in bySource
  <2> HIDE DEF index
  <2> QED
    BY <1>2, <1>3, LastOfIsThere DEF index
<1>5. PICK r \in Listed : plan.prior = Identity(r, vault[r])
  BY <1>4 DEF VaultIndex, Listed
<1>6. r \in Parsed /\ vault[r].source = file.name /\ plan.prior.uid = vault[r].uid
  <2>1. plan.prior.source = file.name
    BY <1>4
  <2>2. vault[r].ok
    BY <1>1, <1>5, <2>1 DEF Identity
  <2>3. vault[r].source = file.name /\ plan.prior.uid = vault[r].uid
    BY <1>5, <2>1, <2>2 DEF Identity
  <2> QED
    BY <2>2, <2>3 DEF Parsed
<1>7. vault[r] \in Papers /\ vault[p] \in Papers
  BY <1>6 DEF Papers
<1>8. vault[r].uid # None /\ vault[r].uid = vault[p].uid
  BY <1>1, <1>6, <1>7 DEF SourceInv
<1> QED
  BY <1>0, <1>6, <1>8

\* Each step leaves the pages of one source with one uid.
LEMMA SourceStandsOn ==
  ASSUME DraftsNameNoSource, VaultInv, SourceInv, [Next]_vars
  PROVE  SourceInv'
<1>1. ASSUME \A page \in Papers' : page \in Papers \/ page.source = None
      PROVE  SourceInv'
  BY <1>1 DEF SourceInv
<1>2. CASE \E path \in DOMAIN Drafts : Save(path)
  <2>1. PICK path \in DOMAIN Drafts : Save(path)
    BY <1>2
  <2>2. PICK page \in Drafts[path] \cup {NoPage} : vault' = [vault EXCEPT ![path] = page]
    BY <2>1 DEF Save
  <2>3. import' = import
    BY <2>1 DEF Save
  <2>4. \A p \in Parsed' : (p \in Parsed /\ vault'[p] = vault[p]) \/ vault'[p] \in Drafts[p]
    BY <2>2 DEF Parsed, Listed
  <2>5. \A p \in Parsed' : p \in DOMAIN Drafts
    BY <2>2 DEF Parsed, Listed, VaultInv
  <2>6. \A a \in Papers' : a \in Papers \/ a.source = None
    BY <2>3, <2>4, <2>5, DraftsNameNoSource DEF Papers, DraftsNameNoSource
  <2> QED
    BY <1>1, <2>6
<1>3. CASE ImportReads
  <2>1. PICK corpus \in Corpora, tenants \in TenantSets :
         \E new \in [corpus -> Imported \ ({vault[p].uid : p \in Listed} \cup Documents(db))] :
           import' = [todo |-> StageChanges({Plan(file, tenants, VaultIndex(vault), new[file]) :
                                                file \in corpus}), edits |-> edits']
    BY <1>3, ImportPlans
  <2>2. PICK new \in [corpus -> Imported] :
           import' = [todo |-> StageChanges({Plan(file, tenants, VaultIndex(vault), new[file]) :
                                                file \in corpus}), edits |-> edits']
    BY <2>1
  <2> DEFINE PlanOf(file) == Plan(file, tenants, VaultIndex(vault), new[file])
             plans == {PlanOf(file) : file \in corpus}
  <2>3. ASSUME NEW file \in corpus
        PROVE  /\ PlanOf(file).page.source = file.name /\ file.name # None
               /\ PlanOf(file).page.uid # None
               /\ \A p \in Parsed : vault[p].source = file.name => PlanOf(file).page.uid = vault[p].uid
    <3>1. new[file] \in Imported
      OBVIOUS
    <3>2. PlanOf(file).page.source = file.name /\ PlanOf(file).page.uid \in Uids
      BY <3>1, PlansStand
    <3>3. \A p \in Parsed : vault[p].source = file.name => PlanOf(file).page.uid = vault[p].uid
      BY <3>1, PlansKeepSources
    <3>4. file.name # None
      BY CorporaAreSound
    <3> QED
      BY <3>2, <3>3, <3>4, NoneIsApart
  <2> HIDE DEF PlanOf
  <2>4. vault' = vault
    BY <1>3 DEF ImportReads
  <2>5. ASSUME NEW change \in import'.todo, change.page # NoPage
        PROVE  \E file \in corpus : change.page = PlanOf(file).page
    <3>1. import'.todo = StageChanges(plans)
      BY <2>2 DEF PlanOf
    <3> QED
      BY <2>5, <3>1 DEF StageChanges
  <2>6. ASSUME NEW a \in Papers'
        PROVE  \/ \E p \in Parsed : a = vault[p]
               \/ \E file \in corpus : a = PlanOf(file).page
    BY <2>4, <2>5 DEF Papers, Parsed, Listed
  <2>7. \A f, g \in corpus : f.name = g.name => f = g
    BY CorporaAreSound
  <2>8. \A p \in Parsed : vault[p] \in Papers
    BY DEF Papers
  <2>9. ASSUME NEW a \in Papers', NEW b \in Papers', a.source # None
        PROVE  a.uid # None /\ (a.source = b.source => a.uid = b.uid)
    <3>1. CASE \E p \in Parsed : a = vault[p]
      <4>1. a.uid # None
        BY <2>8, <2>9, <3>1 DEF SourceInv
      <4>2. CASE \E q \in Parsed : b = vault[q]
        BY <2>8, <2>9, <3>1, <4>2 DEF SourceInv
      <4>3. CASE \E file \in corpus : b = PlanOf(file).page
        BY <2>3, <3>1, <4>1, <4>3
      <4> QED
        BY <2>6, <4>1, <4>2, <4>3
    <3>2. CASE \E file \in corpus : a = PlanOf(file).page
      <4>1. a.uid # None
        BY <2>3, <3>2
      <4>2. CASE \E q \in Parsed : b = vault[q]
        BY <2>3, <3>2, <4>1, <4>2
      <4>3. CASE \E file \in corpus : b = PlanOf(file).page
        BY <2>3, <2>7, <3>2, <4>1, <4>3
      <4> QED
        BY <2>6, <4>1, <4>2, <4>3
    <3> QED
      BY <2>6, <3>1, <3>2
  <2> QED
    BY <2>9 DEF SourceInv
<1>4. CASE ImportWrites
  <2>1. PICK change \in Due(import.todo) :
          /\ vault' = [vault EXCEPT ![change.path] = change.page]
          /\ import' = [import EXCEPT !.todo = @ \ {change}]
    BY <1>4 DEF ImportWrites
  <2>2. change \in import.todo
    BY DEF Due
  <2>3. import'.todo \subseteq import.todo
    BY <2>1 DEF VaultInv, NoImport
  <2>4. \A p \in Parsed' : \/ p \in Parsed /\ vault'[p] = vault[p]
                           \/ vault'[p] = change.page /\ change.page # NoPage
    BY <2>1 DEF Parsed, Listed
  <2>5. \A a \in Papers' : a \in Papers
    BY <2>2, <2>3, <2>4 DEF Papers
  <2> QED
    BY <1>1, <2>5
<1>5. CASE ImportFails
  <2>1. import'.todo = {} /\ vault' = vault
    BY <1>5 DEF ImportFails, NoImport
  <2>2. \A a \in Papers' : a \in Papers
    BY <2>1 DEF Papers, Parsed, Listed
  <2> QED
    BY <1>1, <2>2
<1>6. CASE UNCHANGED <<vault, import>>
  BY <1>1, <1>6 DEF Papers, Parsed, Listed
<1> QED
  BY <1>2, <1>3, <1>4, <1>5, <1>6
     DEF Next, EditTypes, RunStep, Rescope, StartCommand, StartAfterAccept, Begin, WalkPage,
         BeginIndexing, IndexPage, WriteDocument, WriteClaims, WriteEdges, WriteChunks,
         WriteFindings, Prune, Embed, Fail, vars

\* claudememory.go:85-97,345-352: of any corpora, tenants and saves of the owner's
\* own pages, the pages made of one memory file carry one uid, wherever its tenant
\* has put them and however far an import got.
THEOREM SourcesKeepTheirUid ==
  ASSUME DraftsNameNoSource
  PROVE  Spec => []OneUidPerSource
<1>1. Init => SourceInv
  <2> SUFFICES ASSUME Init PROVE SourceInv
    OBVIOUS
  <2>1. vault = Pages /\ import.todo = {}
    BY DEF Init, NoImport
  <2>2. \A p \in Parsed : vault[p].source = None
    BY <2>1, DraftsNameNoSource, VaultsAreSound DEF DraftsNameNoSource, Parsed, Listed
  <2> QED
    BY <2>1, <2>2 DEF SourceInv, Papers
<1>2. RunInv /\ WalkInv /\ SourceInv /\ [Next]_vars => SourceInv'
  BY DraftsNameNoSource, SourceStandsOn DEF WalkInv
<1>3. SourceInv => OneUidPerSource
  BY DEF SourceInv, OneUidPerSource, Papers
<1> QED
  BY <1>1, <1>2, <1>3, RunHolds, WalkHolds, PTL DEF Spec

-------------------------------------------------------------------------------
(* What an import removes. *)

\* A page of the uid is at the path to stay, or is on its way there.
LivesAt(q, uid) ==
  \/ \E c \in import.todo : c.path = q /\ c.page # NoPage /\ c.page.ok /\ c.page.uid = uid
  \/ /\ vault[q] # NoPage /\ vault[q].ok /\ vault[q].uid = uid
     /\ \A c \in import.todo : c.path # q

\* Since it was read nothing was saved: an import has one change for a path, and
\* what it is to remove lives on.
MoveInv ==
  /\ import.edits \in Nat /\ edits \in Nat /\ import.edits <= edits
  /\ import.edits = edits =>
       /\ \A c, d \in import.todo : c.path = d.path => c = d
       /\ \A c \in import.todo : c.page = NoPage =>
            /\ vault[c.path] # NoPage /\ vault[c.path].ok /\ vault[c.path].uid # None
            /\ \E q \in DOMAIN Drafts : LivesAt(q, vault[c.path].uid)

\* An import reads the vault and has one change for a path: the slugs of its files
\* differ, and a removal is of a path it does not write.
LEMMA ReadsMove ==
  ASSUME VaultInv, MoveInv, ImportReads
  PROVE  MoveInv'
<1>1. PICK corpus \in Corpora, tenants \in TenantSets :
       \E new \in [corpus -> Imported \ ({vault[p].uid : p \in Listed} \cup Documents(db))] :
         LET plans == {Plan(file, tenants, VaultIndex(vault), new[file]) : file \in corpus}
         IN /\ ~ SlugsCollide(corpus)
            /\ import' = [todo |-> StageChanges(plans), edits |-> edits']
  BY ImportPlans
<1>2. PICK new \in [corpus -> Imported] :
         /\ ~ SlugsCollide(corpus)
         /\ import' = [todo |-> StageChanges({Plan(file, tenants, VaultIndex(vault), new[file]) :
                                                file \in corpus}), edits |-> edits']
  BY <1>1
<1> DEFINE PlanOf(file) == Plan(file, tenants, VaultIndex(vault), new[file])
           plans == {PlanOf(file) : file \in corpus}
<1>3. ASSUME NEW file \in corpus
      PROVE  LET plan == PlanOf(file) IN
             /\ plan.path \in DOMAIN Drafts /\ plan.path.name = file.slug
             /\ plan.page # NoPage /\ plan.page.ok
             /\ Supersedes(plan) =>
                  LET prior == plan.prior.path IN
                  /\ prior \in Listed /\ vault[prior].ok
                  /\ vault[prior].uid # None /\ vault[prior].uid = plan.page.uid
  <2>1. PICK plan : plan = PlanOf(file)
    OBVIOUS
  <2>2. new[file] \in Imported
    OBVIOUS
  <2>3. /\ plan.path \in DOMAIN Drafts /\ plan.path.name = file.slug /\ plan.page.ok
        /\ plan.page.uid \in Uids
        /\ plan.prior = NoPrior \/
             /\ plan.prior.path \in Listed
             /\ plan.prior = Identity(plan.prior.path, vault[plan.prior.path])
    BY <2>1, <2>2, PlansStand
  <2>4. plan.page # NoPage
    <3>1. \A uid \in Uids : Convert(file, tenants, uid) # NoPage
      BY CorporaAreSound
    <3>2. \E uid : plan.page = Convert(file, tenants, uid)
      BY <2>1 DEF Plan
    <3>3. \A uid : Convert(file, tenants, uid).uid = uid
      BY DEF Convert
    <3> QED
      BY <2>3, <3>1, <3>2, <3>3
  <2>5. ASSUME Supersedes(plan)
        PROVE  LET prior == plan.prior.path IN
               /\ prior \in Listed /\ vault[prior].ok
               /\ vault[prior].uid # None /\ vault[prior].uid = plan.page.uid
    <3>1. plan.prior.path # None /\ plan.prior.uid # None /\ plan.prior.uid = plan.page.uid
      BY <2>5 DEF Supersedes
    <3>2. plan.prior # NoPrior
      BY <3>1 DEF NoPrior
    <3>3. plan.prior.path \in Listed /\ plan.prior = Identity(plan.prior.path, vault[plan.prior.path])
      BY <2>3, <3>2
    <3>4. vault[plan.prior.path].ok
      BY <3>1, <3>3 DEF Identity
    <3>5. plan.prior.uid = vault[plan.prior.path].uid
      BY <3>3, <3>4 DEF Identity
    <3> QED
      BY <3>1, <3>3, <3>4, <3>5
  <2> QED
    BY <2>1, <2>3, <2>4, <2>5
<1>4. vault' = vault /\ edits' = edits + 1 /\ import'.edits = edits' /\ import'.todo = StageChanges(plans)
  BY <1>2 DEF ImportReads
<1> DEFINE Written(p) == [path |-> p.path, page |-> p.page]
           Removal(p) == [path |-> p.prior.path, page |-> NoPage]
<1>5. ASSUME NEW c \in import'.todo
      PROVE  \/ \E file \in corpus : c = Written(PlanOf(file))
             \/ \E file \in corpus : /\ c = Removal(PlanOf(file)) /\ Supersedes(PlanOf(file))
                                     /\ \A other \in corpus : PlanOf(other).path # c.path
  BY <1>4 DEF StageChanges
<1>6. \A file \in corpus : Written(PlanOf(file)) \in import'.todo
  BY <1>4 DEF StageChanges
<1> HIDE DEF PlanOf
<1>7. ASSUME NEW c \in import'.todo, NEW d \in import'.todo, c.path = d.path
      PROVE  c = d
  <2>1. \A f, g \in corpus : PlanOf(f).path = PlanOf(g).path => f = g
    BY <1>2, <1>3 DEF SlugsCollide
  <2> QED
    BY <1>5, <1>7, <2>1
<1>8. ASSUME NEW c \in import'.todo, c.page = NoPage
      PROVE  /\ vault[c.path] # NoPage /\ vault[c.path].ok /\ vault[c.path].uid # None
             /\ \E q \in DOMAIN Drafts : LivesAt(q, vault[c.path].uid)'
  <2>1. PICK file \in corpus : c = Removal(PlanOf(file)) /\ Supersedes(PlanOf(file))
    BY <1>3, <1>5, <1>8
  <2>2. /\ c.path \in Listed /\ vault[c.path].ok /\ vault[c.path].uid # None
        /\ vault[c.path].uid = PlanOf(file).page.uid
    BY <1>3, <2>1
  <2>3. PICK q \in DOMAIN Drafts : q = PlanOf(file).path
    BY <1>3
  <2>4. LivesAt(q, vault[c.path].uid)'
    <3>1. PICK d \in import'.todo : d = Written(PlanOf(file))
      BY <1>6
    <3>2. d.path = q /\ d.page # NoPage /\ d.page.ok /\ d.page.uid = vault[c.path].uid
      BY <1>3, <2>2, <2>3, <3>1
    <3>3. \E e \in import'.todo : /\ e.path = q /\ e.page # NoPage /\ e.page.ok
                                  /\ e.page.uid = vault'[c.path].uid
      BY <1>4, <3>2
    <3> QED
      BY <3>3 DEF LivesAt
  <2> QED
    BY <2>2, <2>3, <2>4 DEF Listed
<1> QED
  BY <1>4, <1>7, <1>8 DEF MoveInv

\* A write or a removal leaves the others their pages.
LEMMA WritesMove ==
  ASSUME VaultInv, MoveInv, ImportWrites
  PROVE  MoveInv'
<1>1. PICK change \in Due(import.todo) :
        /\ vault' = [vault EXCEPT ![change.path] = change.page]
        /\ import' = [import EXCEPT !.todo = @ \ {change}]
  BY DEF ImportWrites
<1>2. change \in import.todo
  BY DEF Due
<1>3. /\ import'.todo = import.todo \ {change} /\ import'.edits = import.edits
      /\ edits' = edits
  BY <1>1 DEF VaultInv, NoImport, ImportWrites
<1>4. /\ \A q \in DOMAIN Drafts : q # change.path => vault'[q] = vault[q]
      /\ vault'[change.path] = change.page
  BY <1>1, <1>2 DEF VaultInv
<1> SUFFICES ASSUME import.edits = edits
             PROVE  /\ \A c, d \in import'.todo : c.path = d.path => c = d
                    /\ \A c \in import'.todo : c.page = NoPage =>
                         /\ vault'[c.path] # NoPage /\ vault'[c.path].ok /\ vault'[c.path].uid # None
                         /\ \E q \in DOMAIN Drafts : LivesAt(q, vault[c.path].uid)'
  BY <1>3 DEF MoveInv
<1>5. \A c, d \in import.todo : c.path = d.path => c = d
  BY DEF MoveInv
<1>6. ASSUME NEW c \in import'.todo, c.page = NoPage
      PROVE  /\ vault'[c.path] # NoPage /\ vault'[c.path].ok /\ vault'[c.path].uid # None
             /\ \E q \in DOMAIN Drafts : LivesAt(q, vault[c.path].uid)'
  <2>1. c \in import.todo /\ c # change /\ c.path # change.path /\ c.path \in DOMAIN Drafts
    BY <1>2, <1>3, <1>5 DEF VaultInv
  <2>2. vault'[c.path] = vault[c.path]
    BY <1>4, <2>1
  <2>3. vault[c.path] # NoPage /\ vault[c.path].ok /\ vault[c.path].uid # None
    BY <1>6, <2>1 DEF MoveInv
  <2>4. PICK q \in DOMAIN Drafts : LivesAt(q, vault[c.path].uid)
    BY <1>6, <2>1 DEF MoveInv
  <2>5. ASSUME \E d \in import.todo : d.path = q /\ d.page # NoPage /\ d.page.ok
                                      /\ d.page.uid = vault[c.path].uid
        PROVE  LivesAt(q, vault[c.path].uid)'
    <3>1. PICK d \in import.todo : d.path = q /\ d.page # NoPage /\ d.page.ok
                                   /\ d.page.uid = vault[c.path].uid
      BY <2>5
    <3>2. CASE d = change
      <4>1. vault'[q] = d.page
        BY <1>4, <3>1, <3>2
      <4>2. \A e \in import'.todo : e.path # q
        BY <1>2, <1>3, <1>5, <3>1, <3>2
      <4>3. /\ vault'[q] # NoPage /\ vault'[q].ok /\ vault'[q].uid = vault'[c.path].uid
            /\ \A e \in import'.todo : e.path # q
        BY <2>2, <3>1, <4>1, <4>2
      <4> QED
        BY <4>3 DEF LivesAt
    <3>3. CASE d # change
      <4>1. \E e \in import'.todo : e.path = q /\ e.page # NoPage /\ e.page.ok
                                    /\ e.page.uid = vault'[c.path].uid
        BY <1>3, <2>2, <3>1, <3>3
      <4> QED
        BY <4>1 DEF LivesAt
    <3> QED
      BY <3>2, <3>3, <2>2
  <2>6. ASSUME vault[q] # NoPage /\ vault[q].ok /\ vault[q].uid = vault[c.path].uid,
               \A d \in import.todo : d.path # q
        PROVE  LivesAt(q, vault[c.path].uid)'
    <3>1. vault'[q] = vault[q]
      BY <1>2, <1>4, <2>6
    <3>2. /\ vault'[q] # NoPage /\ vault'[q].ok /\ vault'[q].uid = vault'[c.path].uid
          /\ \A e \in import'.todo : e.path # q
      BY <1>3, <2>2, <2>6, <3>1
    <3> QED
      BY <3>2 DEF LivesAt
  <2> QED
    BY <2>2, <2>3, <2>4, <2>5, <2>6 DEF LivesAt
<1>7. \A c, d \in import'.todo : c.path = d.path => c = d
  BY <1>3, <1>5
<1> QED
  BY <1>6, <1>7

LEMMA MoveStandsOn ==
  ASSUME VaultInv, MoveInv, [Next]_vars
  PROVE  MoveInv'
<1>1. CASE ImportReads
  BY <1>1, ReadsMove
<1>2. CASE ImportWrites
  BY <1>2, WritesMove
<1>3. CASE ImportFails
  BY <1>3 DEF ImportFails, NoImport, MoveInv
<1>4. CASE import' = import /\ edits' = edits + 1
  BY <1>4 DEF MoveInv
<1>5. CASE UNCHANGED <<vault, import, edits>>
  BY <1>5 DEF MoveInv, LivesAt
<1> QED
  BY <1>1, <1>2, <1>3, <1>4, <1>5
     DEF Next, Save, Edit, EditTypes, RunStep, Rescope, StartCommand, StartAfterAccept, Begin,
         WalkPage, BeginIndexing, IndexPage, WriteDocument, WriteClaims, WriteEdges, WriteChunks,
         WriteFindings, Prune, Embed, Fail, vars, history

\* claudememory.go:397-459: an import removes a file only when the document lives on
\* in another: the pages are written first, and no two changes are of one path.
THEOREM MovedPagesLiveOn == Spec => ImportRemovesOnlyMoved
<1>1. Init => MoveInv
  BY DEF Init, NoImport, MoveInv
<1>2. RunInv /\ WalkInv /\ MoveInv /\ [Next]_vars => MoveInv'
  BY MoveStandsOn DEF WalkInv
<1>3. WalkInv /\ MoveInv /\ [Next]_vars =>
        [\A p \in Parsed :
           /\ import.edits = edits /\ import'.todo # import.todo /\ vault'[p] = NoPage
           => \E q \in Parsed' : vault'[q].uid = vault[p].uid /\ vault[p].uid # None]_vars
  <2> SUFFICES ASSUME VaultInv, MoveInv, [Next]_vars, NEW p \in Parsed,
                      import.edits = edits, import'.todo # import.todo, vault'[p] = NoPage
               PROVE  \E q \in Parsed' : vault'[q].uid = vault[p].uid /\ vault[p].uid # None
    BY DEF WalkInv
  <2>1. ImportWrites
    <3>1. vault[p] # NoPage
      BY DEF Parsed, Listed
    <3> QED
      BY <3>1
         DEF Next, Save, Edit, EditTypes, RunStep, Rescope, StartCommand, StartAfterAccept, Begin,
             ImportReads, ImportFails,
             WalkPage, BeginIndexing, IndexPage, WriteDocument, WriteClaims, WriteEdges, WriteChunks,
             WriteFindings, Prune, Embed, Fail, vars
  <2>2. PICK change \in Due(import.todo) :
          vault' = [vault EXCEPT ![change.path] = change.page]
    BY <2>1 DEF ImportWrites
  <2>3. change.path = p /\ change.page = NoPage
    BY <2>2 DEF Parsed, Listed
  <2>4. change \in import.todo /\ \A other \in import.todo : other.page = NoPage
    BY <2>2, <2>3 DEF Due
  <2>5. PICK q \in DOMAIN Drafts : LivesAt(q, vault[p].uid) /\ vault[p].uid # None
    BY <2>3, <2>4 DEF MoveInv
  <2>6. vault[q] # NoPage /\ vault[q].ok /\ vault[q].uid = vault[p].uid /\ q # p
    BY <2>3, <2>4, <2>5 DEF LivesAt
  <2>7. vault'[q] = vault[q] /\ q \in DOMAIN vault'
    BY <2>2, <2>3, <2>6 DEF VaultInv
  <2> QED
    BY <2>5, <2>6, <2>7 DEF Parsed, Listed
<1> QED
  BY <1>1, <1>2, <1>3, RunHolds, WalkHolds, PTL DEF Spec, ImportRemovesOnlyMoved

===============================================================================
