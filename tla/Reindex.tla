-------------------------------- MODULE Reindex --------------------------------
(* balise reindex (internal/cli/cli.go, internal/indexer/pipeline.go): the     *)
(* vault is walked twice, once for the names pages answer to and once to index *)
(* them; what is gone is pruned last.  Each page is a series of statements,    *)
(* the owner saves pages meanwhile, and any statement may be the last one.     *)
(*                                                                             *)
(* A version and a body hash are functions of a file's content: the content    *)
(* stands for both.                                                            *)
EXTENDS IndexStore, Chunks, Importer

CONSTANTS
  Drafts,       \* the contents the owner may save at a path
  Pages,        \* the vault at the start
  Types,        \* the limits and traits defaults/types may hold
  Limits,       \* those it holds at the start
  DefaultScopes, \* what a command holds when the tables are empty
  Minted,       \* what NewUID returns to the indexer, one after the other
  Imported,     \* ... and to the importer
  Corpora,      \* the sets of memory files an import may find
  TenantSets,   \* what defaults/tenants.yaml may declare
  Tables,       \* the tables at the start
  MaxEvents     \* a bound on saves, imports and failures together

\* What a page's frontmatter and links may name.
IsPage(page) ==
  /\ page.ok \in BOOLEAN
  /\ page.uid \in Uids \cup {None}
  /\ page.scope \in Scopes \cup {None}
  /\ page.slug \in Names \cup {None}
  /\ page.aliases \subseteq Names
  /\ page.links \subseteq [ref : Names, kind : {"link", "about"}, field : {"", "about"}]
  /\ IsFiniteSet(page.links)
  /\ page.flags \cap {"dangling_ref", "resolved_ref"} = {}
  /\ page.body \in Bodies

ASSUME VaultsAreSound ==
  /\ DOMAIN Pages = DOMAIN Drafts
  /\ \A path \in DOMAIN Drafts :
       /\ path.scope \in Scopes /\ path.name \in Names
       /\ Pages[path] \in Drafts[path] \cup {NoPage}
       /\ \A page \in Drafts[path] : IsPage(page)
  /\ Limits \in Types
  /\ DefaultScopes \subseteq Scopes
  /\ Minted \cup Imported \subseteq Uids

ASSUME CorporaAreSound ==
  /\ WorkScope \in Scopes
  /\ \A tenants \in TenantSets : \A t \in tenants : TenantScope[t] \in Scopes
  /\ \A corpus \in Corpora : \A file \in corpus :
       /\ \A scope \in Scopes : [scope |-> scope, name |-> file.slug] \in DOMAIN Drafts
       /\ file.name # None
       /\ file.aliases \subseteq Names
       /\ file.links \subseteq [ref : Names, kind : {"link", "about"}, field : {"", "about"}]
       /\ IsFiniteSet(file.links)
       /\ file.body \in Bodies
       /\ \A other \in corpus : file.name = other.name => file = other
       /\ \A tenants \in TenantSets, uid \in Uids : Convert(file, tenants, uid) # NoPage

ASSUME MintedIsApart ==
  /\ \A path \in DOMAIN Drafts : \A page \in Drafts[path] :
       page.uid \notin Minted \cup Imported
  /\ Minted \cap Imported = {}

\* The owner's own pages name no memory file as their source.
DraftsNameNoSource ==
  \A path \in DOMAIN Drafts : \A page \in Drafts[path] : page.source = None

VARIABLES
  vault,        \* the working tree
  types,        \* defaults/types
  db,           \* the derived tables
  import,       \* the import: the changes it has left to make
  served,       \* the scopes the server's Queries holds
  run,          \* the reindex: where it is, and what it has read
  outcome,      \* how the last run ended
  edits, faults,
  quiet,        \* history: nothing was saved since the run started
  fresh,        \* history: the run started from tables without a document
  since,        \* history: what was saved since the last quiet run began
  again,        \* history: ... when this run started
  cut           \* history: documents whose indexing stopped halfway

vars == <<vault, import, types, db, served, run, outcome, edits, faults, quiet, fresh, since, again, cut>>
history == <<edits, faults, quiet, fresh, since, again, cut>>

NoTally == [resolved |-> 0, crossScope |-> 0, missing |-> 0]

NoImport == [todo |-> {}, edits |-> 0]

Resting ==
  [pc |-> "idle", list |-> {}, todo |-> {}, index |-> EmptyIndex, types |-> None,
   held |-> {}, embeds |-> FALSE, page |-> NoPage, scopeOf |-> << >>, changed |-> {}, tally |-> NoTally]

\* pages.List: markdown outside the reserved directories.
Listed == {p \in DOMAIN vault : vault[p] # NoPage}

\* DiscoverScopes and DiscoverVaultScopes
ScopesFound ==
  {db.rows[uid].scope : uid \in Documents(db)} \cup {path.scope : path \in Listed}

\* openQueries
ScopesOpened == ScopesFound \cup (IF Documents(db) = {} THEN DefaultScopes ELSE {})

Init ==
  /\ vault = Pages
  /\ import = NoImport
  /\ types = Limits
  /\ db = Tables
  /\ served = ScopesOpened
  /\ run = Resting
  /\ outcome = "none"
  /\ edits = 0 /\ faults = 0
  /\ quiet = TRUE /\ fresh = FALSE /\ since = "pages" /\ again = "pages"
  /\ cut = {}

-------------------------------------------------------------------------------
(* What one page says. *)

OrDefault(value, fallback) == IF value = None THEN fallback ELSE value

\* resolveScopeSlug
ScopeOf(path, page) == OrDefault(page.scope, path.scope)
SlugOf(path, page) == OrDefault(page.slug, path.name)

\* isNoop: content and limits.
IsNoopOfText(row, page, limits) == row # NoRow /\ row.version = page

IsNoop(row, page, limits) ==
  /\ row # NoRow
  /\ row.version = page
  /\ row.print = limits

\* NewUID: a uid nothing has.  (Bound: None, once Minted is used up.)
NewUID(tables) ==
  LET left == Minted \ Documents(tables)
  IN IF left = {} THEN None ELSE CHOOSE uid \in left : TRUE

\* Mutant: a page without a uid gets a new one every time.
ResolveUIDFresh(page, existing, tables) ==
  IF page.uid # None THEN page.uid ELSE NewUID(tables)

\* resolveUID: its own, the one its (scope, slug) has, a new one.
ResolveUID(page, existing, tables) ==
  CASE page.uid # None -> page.uid
    [] page.uid = None /\ existing # None -> existing
    [] OTHER -> NewUID(tables)

\* buildClaims and logEntryClaims: ids fall back to positions.
ClaimsOf(page, limits) ==
  LET own == [k \in DOMAIN page.claims |->
                [id |-> OrDefault(page.claims[k].id, <<"c", k>>), text |-> page.claims[k].text]]
      entries == [k \in DOMAIN page.entries |-> [id |-> <<"e", k>>, text |-> page.entries[k]]]
  IN own \o (IF limits.log THEN entries ELSE << >>)

Finding(rule) == [rule |-> rule, detail |-> None, via |-> None]

\* classifyTags, validationFindings and buildClaims: flags are the rules that
\* look at the frontmatter alone.
FindingsOf(page, limits) ==
  {Finding(rule) : rule \in
     page.flags
     \cup (IF Len(WordsOf(page.body)) > limits.maxTokens THEN {"oversize"} ELSE {})
     \cup (IF Len(page.claims) > limits.maxClaims THEN {"too_many_claims"} ELSE {})
     \cup (IF limits.indexed /\ page.claims = << >> THEN {"missing_claims"} ELSE {})}

\* Mutant: a reference that finds no page is an edge to its own text.
EdgesToTheText(page, uid, scope, index) ==
  {LET found == Resolve(link.ref, scope, index).uid IN
   [from |-> uid, to |-> OrDefault(found, link.ref), ref |-> link.ref,
    kind |-> IF found = None THEN "dangling" ELSE link.kind, field |-> link.field] :
   link \in page.links}

\* indexEdges: a reference that finds no page is an edge of kind dangling.
EdgesOf(page, uid, scope, index) ==
  {LET found == Resolve(link.ref, scope, index).uid IN
   [from |-> uid, to |-> found, ref |-> link.ref,
    kind |-> IF found = None THEN "dangling" ELSE link.kind, field |-> link.field] :
   link \in page.links}

\* refFinding, once for each distinct reference.
RefFindingsOf(page, scope, index) ==
  {LET found == Resolve(ref, scope, index) IN
   [rule   |-> IF found.uid = None THEN "dangling_ref" ELSE "resolved_ref",
    detail |-> ref, via |-> found.rung] :
   ref \in {link.ref : link \in page.links}}

RowOf(path, page, limits) ==
  [path |-> path, slug |-> SlugOf(path, page), scope |-> ScopeOf(path, page),
   aliases |-> page.aliases, version |-> page, print |-> limits,
   claimsCount |-> Len(ClaimsOf(page, limits))]

-------------------------------------------------------------------------------
(* The tables hang together. *)

\* The texts of a document are those of the content and limits its row has.
OneVersion(tables, uid) ==
  /\ tables.claims[uid] = ClaimsOf(tables.rows[uid].version, tables.rows[uid].print)
  /\ tables.chunks[uid] = ChunkBody(tables.rows[uid].version.body)

\* Links and texts are of a document that is there.
NothingLeft(tables) ==
  /\ \A e \in tables.edges : e.from \in Documents(tables)
  /\ \A uid \in Uids \ Documents(tables) :
       /\ tables.claims[uid] = << >>
       /\ tables.chunks[uid] = << >>
       /\ tables.findings[uid] = {}

\* What a document's findings say of it but for its references is what its
\* content and limits say.
OneVerdict(tables, uid) ==
  {f \in tables.findings[uid] : f.via = None}
    = FindingsOf(tables.rows[uid].version, tables.rows[uid].print)

\* A row is made of a page, whose uid it has if the page carries one; (scope, slug)
\* is unique.
RowsStand(tables) ==
  /\ \A uid \in Documents(tables) :
       LET row == tables.rows[uid] IN
       /\ row = RowOf(row.path, row.version, row.print) /\ row.scope \in Scopes
       /\ row.version.uid \in {uid, None}
  /\ \A uid, other \in Documents(tables) :
       /\ tables.rows[uid].scope = tables.rows[other].scope
       /\ tables.rows[uid].slug = tables.rows[other].slug
       => uid = other

EdgesStand(tables) ==
  tables.edges \subseteq [from : Uids, to : Uids \cup {None}, ref : Names,
                         kind : {"dangling", "link", "about"}, field : {"", "about"}]

ASSUME TablesAreSound ==
  /\ DOMAIN Tables = DOMAIN EmptyTables
  /\ \A table \in {"rows", "claims", "chunks", "findings"} : DOMAIN Tables[table] = Uids
  /\ NothingLeft(Tables)
  /\ RowsStand(Tables) /\ EdgesStand(Tables)
  /\ \A uid \in Documents(Tables) :
       OneVersion(Tables, uid) /\ OneVerdict(Tables, uid) /\ Tables.rows[uid].version.body \in Bodies

ASSUME OrderIsOfPaths == Order \in Seq(DOMAIN Pages) /\ Range(Order) = DOMAIN Pages

-------------------------------------------------------------------------------
(* The environment: the owner's saves, and the limits of the types. *)

Edit ==
  /\ edits + faults < MaxEvents
  /\ edits' = edits + 1
  /\ quiet' = FALSE
  /\ UNCHANGED <<db, served, run, outcome, faults, fresh, again, cut>>

Save(path) ==
  /\ Edit
  /\ \E page \in (Drafts[path] \cup {NoPage}) \ {vault[path]} :
       vault' = [vault EXCEPT ![path] = page]
  /\ since' = "pages"
  /\ UNCHANGED <<import, types>>

EditTypes ==
  /\ Edit
  /\ types' \in Types \ {types}
  /\ since' = IF since = "nothing" THEN "types" ELSE since
  /\ UNCHANGED <<vault, import>>

\* ImportCorpus up to its commit: the vault is read once, and what is to be
\* written and removed is settled.
ImportReads ==
  /\ import.todo = {}
  /\ edits + faults < MaxEvents
  /\ edits' = edits + 1
  /\ \E corpus \in Corpora, tenants \in TenantSets :
       LET known == {vault[p].uid : p \in Listed}
           news  == Injection(corpus, Imported \ (known \cup Documents(db)))
           new   == CHOOSE f \in news : TRUE
           plans == {Plan(file, tenants, VaultIndex(vault), new[file]) : file \in corpus}
       IN /\ ~ SlugsCollide(corpus)
          /\ news # {}                 \* bound: Imported holds a uid for each
          /\ import' = [todo |-> StageChanges(plans), edits |-> edits']
  /\ UNCHANGED <<vault, types, db, served, run, outcome, faults, quiet, fresh, since, again, cut>>

\* Its commit writes and removes file after file.
ImportWrites ==
  /\ \E change \in Due(import.todo) :
       /\ vault' = [vault EXCEPT ![change.path] = change.page]
       /\ import' = [import EXCEPT !.todo = @ \ {change}]
  /\ quiet' = FALSE
  /\ since' = "pages"
  /\ UNCHANGED <<types, db, served, run, outcome, edits, faults, fresh, again, cut>>

\* A write fails, or the import is killed.
ImportFails ==
  /\ import.todo # {}
  /\ edits + faults < MaxEvents
  /\ faults' = faults + 1
  /\ import' = NoImport
  /\ UNCHANGED <<vault, types, db, served, run, outcome, edits, quiet, fresh, since, again, cut>>

-------------------------------------------------------------------------------
(* The run. *)

\* The server is started again, or a scope is declared: its scopes are looked up.
Rescope ==
  /\ served' = ScopesOpened
  /\ served' # served
  /\ UNCHANGED <<vault, import, types, db, run, outcome, history>>

\* registry.Load and pages.List
Begin(held, embeds) ==
  /\ run.pc = "idle"
  /\ run' = [Resting EXCEPT !.pc = "walk", !.types = types, !.held = held, !.embeds = embeds,
                            !.todo = Listed, !.list = Listed]
  /\ quiet' = TRUE
  /\ fresh' = (Documents(db) = {})
  /\ again' = since
  /\ outcome' = "none"
  /\ UNCHANGED <<vault, import, types, db, served, edits, faults, since, cut>>

\* reindexCmd: the scopes are those found now.
StartCommand == Begin(ScopesOpened, TRUE)

\* reindexAfterAccept: the server's scopes, and no embedder.
StartAfterAccept == Begin(served, FALSE)

Ended(how) ==
  /\ outcome' = how
  /\ run' = [Resting EXCEPT !.held = run.held,
                             !.changed = run.changed, !.tally = run.tally]

\* Mutant: a page is known by its slug alone.
WalkedNoAliases(index, path, page) ==
  IF page.ok /\ page.uid # None
  THEN Register(index, ScopeOf(path, page), SlugOf(path, page), {}, page.uid)
  ELSE index

\* The first pass takes in a page that parses and has a uid.
Walked(index, path, page) ==
  IF page.ok /\ page.uid # None
  THEN Register(index, ScopeOf(path, page), SlugOf(path, page), page.aliases, page.uid)
  ELSE index

\* pageScope: none for a page that does not parse.
WalkedScope(path, page) == IF page.ok THEN ScopeOf(path, page) ELSE None

Noted(scopeOf, path, page) ==
  [p \in DOMAIN scopeOf \cup {path} |-> IF p = path THEN WalkedScope(path, page) ELSE scopeOf[p]]

\* Both passes take the paths in order.
IsNext(path) == path \in run.todo /\ \A later \in run.todo : Walks(path, later)

WalkPage ==
  /\ run.pc = "walk"
  /\ \E path \in run.todo :
       LET page == vault[path] IN
       /\ IsNext(path)
       /\ IF page = NoPage
          THEN Ended("failed")
          ELSE /\ run' = [run EXCEPT !.todo = @ \ {path}, !.index = Walked(@, path, page),
                                     !.scopeOf = Noted(@, path, page)]
               /\ UNCHANGED outcome
  /\ UNCHANGED <<vault, import, types, served, db, history>>

BeginIndexing ==
  /\ run.pc = "walk" /\ run.todo = {}
  /\ run' = [run EXCEPT !.pc = "index", !.todo = run.list]
  /\ UNCHANGED <<vault, import, types, served, db, outcome, history>>

\* IndexPage up to its first write: a page that does not parse is a finding of
\* its path, a page that has not changed is left alone.
IndexPage ==
  /\ run.pc = "index"
  /\ \E path \in run.todo :
       LET page     == vault[path]
           scope    == ScopeOf(path, page)
           existing == GetPage(db, run.held, scope, SlugOf(path, page))
           uid      == ResolveUID(page, existing, db)
           row      == IF existing = None THEN NoRow ELSE db.rows[existing]
       IN /\ IsNext(path)
          /\ \/ /\ page = NoPage
                /\ Ended("failed")
                /\ UNCHANGED db
             \/ /\ page # NoPage /\ ~ page.ok
                /\ db' = UpsertGlobalFinding(db, run.held, [path |-> path, scope |-> path.scope])
                /\ run' = [run EXCEPT !.todo = @ \ {path}]
                /\ UNCHANGED outcome
             \/ /\ page # NoPage /\ page.ok
                /\ db' = ResolveGlobalFindings(db, run.held, scope, path)
                /\ IF IsNoop(row, page, run.types)
                   THEN run' = [run EXCEPT !.todo = @ \ {path}]
                   ELSE /\ uid \in Uids      \* bound: Uids holds every uid in use
                        /\ run' = [run EXCEPT !.pc = "document",
                                        !.page = [path |-> path, page |-> page, uid |-> uid]]
                /\ UNCHANGED outcome
  /\ UNCHANGED <<vault, import, types, served, history>>

WriteDocument ==
  /\ run.pc = "document"
  /\ LET uid == run.page.uid
         row == RowOf(run.page.path, run.page.page, run.types)
     IN IF UpsertOutcome(db, run.held, uid, row) = "ok"
        THEN /\ db' = UpsertDocument(db, uid, row)
             /\ run' = [run EXCEPT !.pc = "claims"]
             /\ UNCHANGED outcome
        ELSE Ended("failed") /\ UNCHANGED db
  /\ UNCHANGED <<vault, import, types, served, history>>

\* The one statement a page of its own can make fail.
WriteClaims ==
  /\ run.pc = "claims"
  /\ LET claims == ClaimsOf(run.page.page, run.types) IN
     IF ClaimsCollide(claims)
     THEN /\ Ended("failed")
          /\ cut' = cut \cup {run.page.uid}
          /\ UNCHANGED db
     ELSE /\ db' = ReplaceClaims(db, run.page.uid, claims)
          /\ run' = [run EXCEPT !.pc = "edges"]
          /\ UNCHANGED <<outcome, cut>>
  /\ UNCHANGED <<vault, import, types, served, edits, faults, quiet, fresh, since, again>>

PageScope == ScopeOf(run.page.path, run.page.page)

WriteEdges ==
  /\ run.pc = "edges"
  /\ db' = UpsertEdges(db, EdgesOf(run.page.page, run.page.uid, PageScope, run.index))
  /\ run' = [run EXCEPT !.pc = "chunks"]
  /\ UNCHANGED <<vault, import, types, served, outcome, history>>

WriteChunks ==
  /\ run.pc = "chunks"
  /\ db' = ReplaceChunks(db, run.page.uid, ChunkBody(run.page.page.body))
  /\ run' = [run EXCEPT !.pc = "findings"]
  /\ UNCHANGED <<vault, import, types, served, outcome, history>>

\* The counts of the report: a dangling reference known in another scope is no
\* missing one.
Tallied(tally, refs, known, scope) ==
  LET dangling == {f.detail : f \in {g \in refs : g.rule = "dangling_ref"}}
      crossing == {ref \in dangling : CrossScope(known, ref, scope)}
  IN [resolved   |-> tally.resolved + Cardinality(refs) - Cardinality(dangling),
      crossScope |-> tally.crossScope + Cardinality(crossing),
      missing    |-> tally.missing + Cardinality(dangling) - Cardinality(crossing)]

WriteFindings ==
  /\ run.pc = "findings"
  /\ LET page == run.page.page
         uid  == run.page.uid
         refs == RefFindingsOf(page, PageScope, run.index)
     IN /\ db' = ReplaceFindings(db, uid, FindingsOf(page, run.types) \cup refs)
        /\ run' = [run EXCEPT !.pc = "index", !.page = NoPage, !.todo = @ \ {run.page.path},
                              !.changed = @ \cup {run.page.path},
                              !.tally = Tallied(@, refs, run.index.known,
                                                run.scopeOf[run.page.path])]
        /\ cut' = cut \ {uid}
  /\ UNCHANGED <<vault, import, types, served, outcome, edits, faults, quiet, fresh, since, again>>

Prune ==
  /\ run.pc = "index" /\ run.todo = {}
  /\ db' = DeleteDocumentsNotIn(db, run.held, run.list)
  /\ run' = [run EXCEPT !.pc = "embed"]
  /\ cut' = cut \cap Documents(db')
  /\ UNCHANGED <<vault, import, types, served, outcome, edits, faults, quiet, fresh, since, again>>

\* EmbedClaims: texts that have no vector yet, each once.
Embed ==
  /\ run.pc = "embed"
  /\ db' = IF run.embeds THEN [db EXCEPT !.vectors = @ \cup ClaimTexts(db, run.held)] ELSE db
  /\ Ended("done")
  /\ since' = IF quiet THEN "nothing" ELSE since
  /\ UNCHANGED <<vault, import, types, served, edits, faults, quiet, fresh, again, cut>>

\* Between the statements of one page, its row written.
Writing == {"claims", "edges", "chunks", "findings"}

\* A statement fails, or the process dies: of the edges of the page some are
\* written, of anything else nothing more.
Fail ==
  /\ run.pc # "idle"
  /\ edits + faults < MaxEvents
  /\ faults' = faults + 1
  /\ IF run.pc = "edges"
     THEN \E written \in SUBSET EdgesOf(run.page.page, run.page.uid, PageScope, run.index) :
            db' = UpsertEdges(db, written)
     ELSE UNCHANGED db
  /\ cut' = IF run.pc \in Writing THEN cut \cup {run.page.uid} ELSE cut
  /\ Ended("stopped")
  /\ UNCHANGED <<vault, import, types, served, edits, quiet, fresh, since, again>>

RunStep ==
  \/ WalkPage \/ BeginIndexing \/ IndexPage
  \/ WriteDocument \/ WriteClaims \/ WriteEdges \/ WriteChunks \/ WriteFindings
  \/ Prune \/ Embed

Next ==
  \/ \E path \in DOMAIN Drafts : Save(path)
  \/ EditTypes
  \/ ImportReads \/ ImportWrites \/ ImportFails
  \/ Rescope
  \/ StartCommand
  \/ StartAfterAccept
  \/ RunStep
  \/ Fail

Spec == Init /\ [][Next]_vars

-------------------------------------------------------------------------------
(* The report of link health (cli.ComputeLinkHealth), from the tables alone. *)

ComputeLinkHealth(held) ==
  LET known    == SlugScopeIndex(db, held)
      all      == ReferenceFindings(db, held)
      dangling == {f \in all : f.rule = "dangling_ref"}
      crossing == {f \in dangling : CrossScope(known, f.ref, db.rows[f.uid].scope)}
  IN [resolved   |-> Cardinality(all) - Cardinality(dangling),
      crossScope |-> Cardinality(crossing),
      missing    |-> Cardinality(dangling) - Cardinality(crossing)]

-------------------------------------------------------------------------------
(* What a reindex promises. *)

Parsed == {p \in Listed : vault[p].ok}

TypeOK ==
  /\ DOMAIN vault = DOMAIN Drafts
  /\ \A p \in Parsed : vault[p].uid \in Uids \cup {None} /\ ScopeOf(p, vault[p]) \in Scopes
  /\ \A change \in import.todo : change.path \in DOMAIN vault
  /\ types \in Types
  /\ served \subseteq Scopes
  /\ run.pc \in {"idle", "walk", "index", "document", "claims", "edges", "chunks",
                 "findings", "embed"}
  /\ run.pc # "idle" => run.held \subseteq Scopes /\ run.types \in Types
  /\ run.pc \in {"document", "claims", "edges", "chunks", "findings"} =>
       /\ run.page.path \in run.todo
       /\ run.page.uid \in Uids /\ run.page.page.ok
  /\ outcome \in {"none", "done", "failed", "stopped"}
  /\ EdgesStand(db)
  /\ cut \subseteq Uids

\* The last run ended well, and nothing was saved since it started.
Complete == run.pc = "idle" /\ outcome = "done" /\ quiet

\* No two pages claim one uid, or one slug of a scope.
Distinct ==
  \A p, q \in Parsed : p # q =>
    /\ vault[p].uid # vault[q].uid \/ vault[p].uid = None
    /\ <<ScopeOf(p, vault[p]), SlugOf(p, vault[p])>>
         # <<ScopeOf(q, vault[q]), SlugOf(q, vault[q])>>

RowsAt(path) == {uid \in Documents(db) : db.rows[uid].path = path}

\* After a complete run every page that parses has its row: the content and the
\* limits it was indexed with are those of now.
EveryPageIsIndexed ==
  Complete /\ Distinct =>
    \A p \in Parsed : \E uid \in RowsAt(p) :
      db.rows[uid] = RowOf(p, vault[p], types)

\* The page a reference names, told from the vault as a whole: by its slug, else
\* by a name it alone has, first as written and then folded.
Target(ref, scope) ==
  LET pages    == {p \in Parsed : vault[p].uid # None /\ ScopeOf(p, vault[p]) = scope}
      names(p) == {SlugOf(p, vault[p])} \cup vault[p].aliases
      slugged(n) == Single({vault[p].uid : p \in {q \in pages : SlugOf(q, vault[q]) = n}})
      called   == Single({vault[p].uid : p \in {q \in pages : ref \in names(q)}})
      folded   == Single({vault[p].uid :
                    p \in {q \in pages : \E n \in names(q) : Normal[n] = Normal[ref]}})
  IN OrDefault(slugged(ref), OrDefault(called, OrDefault(slugged(Normal[ref]), folded)))

\* A run from an empty index derives all of it from the vault, whatever the
\* order of the pages: rows, texts, links (also to pages further on), findings.
RebuildIsExact ==
  Complete /\ Distinct /\ fresh =>
    /\ \A p \in Parsed : \E uid \in Uids :
         LET page == vault[p]
             scope == ScopeOf(p, page)
             lost == {l.ref : l \in {k \in page.links : Target(k.ref, scope) = None}}
         IN
         /\ RowsAt(p) = {uid}
         /\ page.uid \in {uid, None}
         /\ db.rows[uid]   = RowOf(p, page, types)
         /\ db.claims[uid] = ClaimsOf(page, types)
         /\ db.chunks[uid] = ChunkBody(page.body)
         /\ {<<e.ref, e.field, e.to>> : e \in {f \in db.edges : f.from = uid}}
              = {<<l.ref, l.field, Target(l.ref, scope)>> : l \in page.links}
         /\ {f.detail : f \in {g \in db.findings[uid] : g.rule = "dangling_ref"}} = lost
    /\ {db.rows[uid].path : uid \in Documents(db)} = Parsed

\* What a page says about itself, and the limits of its type, is what its
\* findings say, also when only the limits have changed (references aside).
FindingsAreCurrent ==
  Complete =>
    \A p \in Parsed, uid \in Uids \ cut :
      uid \in RowsAt(p) /\ db.rows[uid].version = vault[p] =>
        {f \in db.findings[uid] : f.via = None} = FindingsOf(vault[p], types)

\* Between two pages a document, its claims and its chunks are of one version.
TextTogether ==
  run.pc \notin Writing => \A uid \in Documents(db) \ cut : OneVersion(db, uid)

\* In the scopes a run holds, a file that does not parse is on record after it,
\* and one that parses again is not.
UnparseableIsReported ==
  Complete =>
    \A p \in Listed : p.scope \in run.held =>
      ((vault[p].ok = FALSE) <=> [path |-> p, scope |-> p.scope] \in db.globals)

\* A removed page leaves nothing: no row, and no link or text of a document
\* that is not there.
NothingOfTheRemoved ==
  /\ Complete => \A uid \in Owned(db, run.held) : db.rows[uid].path \in Listed
  /\ NothingLeft(db)

\* A run never changes or removes a document of a scope it does not hold, even
\* when a page it walks carries that document's uid.
ForeignRowsUntouched ==
  [][\A uid \in Documents(db) :
       run.pc # "idle" /\ db.rows[uid].scope \notin run.held =>
         db'.rows[uid] = db.rows[uid] /\ db'.claims[uid] = db.claims[uid]]_vars

\* A vault that a complete run has seen never makes the next run fail, and
\* without new limits that run changes nothing (src/README.md:201-203).  Every page
\* was indexed to its end, and the run holds the scopes there are.  The code breaks
\* it when a page was moved: under a slug of its own the run drops the page it just
\* passed over, and under a new slug a page without a uid may adopt its row.  The
\* vaults of run reindex have neither, those of run reindex_moved have both.
RepeatIsNoop ==
  quiet /\ again \in {"nothing", "types"} /\ cut = {} /\ Distinct
    /\ ScopesFound \subseteq run.held =>
      outcome # "failed" /\ (again = "nothing" => run.changed = {})

\* Link health, counted in the tables, is what the run that built them counted
\* on its walk.
HealthAgreesWithRun ==
  Complete /\ Distinct /\ fresh /\ (\A p \in Parsed : vault[p].uid # None) =>
    ComputeLinkHealth(Scopes) = run.tally

\* No word of a page is lost and no listing is cut in its chunks, and what is over
\* the limit is what the code keeps whole; its comments promise more, see
\* ProseHasACeiling.  (A page of headings alone is one chunk, of their words.)
ChunksHoldThePage ==
  run.pc = "idle" => \A uid \in Documents(db) :
    LET body == db.rows[uid].version.body
    IN uid \notin cut /\ WordsOf(Untitled(body)) # << >> => Hold(db.chunks[uid], body)

\* What the comments of splitBySize and splitOversized say (chunk.go:121-123,
\* 150-153): only listings and tables are over the limit, prose never is.  The code
\* breaks it for a paragraph right above a listing.
ProseHasACeiling ==
  run.pc = "idle" => \A uid \in Documents(db) :
    LET body == db.rows[uid].version.body
    IN uid \notin cut /\ WordsOf(Untitled(body)) # << >> =>
         \A k \in DOMAIN db.chunks[uid] : ProseIsCut(body, db.chunks[uid][k].words)

\* An import removes a file only when the document lives on: a page of the same
\* uid is in the vault.  (The owner keeps out of the vault meanwhile.)
ImportRemovesOnlyMoved ==
  [][\A p \in Parsed :
       /\ import.edits = edits /\ import'.todo # import.todo /\ vault'[p] = NoPage
       => \E q \in Parsed' : vault'[q].uid = vault[p].uid /\ vault[p].uid # None]_vars

\* A memory file is one document: whatever its tenant was and is, the pages made
\* of it carry one uid.
OneUidPerSource ==
  \A p, q \in Parsed :
    vault[p].source # None /\ vault[p].source = vault[q].source => vault[p].uid = vault[q].uid

===============================================================================
