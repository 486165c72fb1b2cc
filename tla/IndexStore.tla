------------------------------- MODULE IndexStore -------------------------------
(* The derived tables in Postgres (internal/store/queries.go) as one record,   *)
(* and one operator per statement or transaction on it.  Every operator takes  *)
(* the scopes its Queries was built with, held: a statement filters on them.   *)
EXTENDS Links, Sequences

NoRow == [absent |-> TRUE]      \* no document of a uid

EmptyTables ==
  [rows     |-> [uid \in Uids |-> NoRow],  \* documents, by primary key
   claims   |-> [uid \in Uids |-> << >>],
   chunks   |-> [uid \in Uids |-> << >>],
   edges    |-> {},                        \* from, to, ref, kind
   findings |-> [uid \in Uids |-> {}],     \* lint_findings not resolved, by document
   globals  |-> {},                        \* ... and those of no document
   vectors  |-> {}]                        \* claim_embeddings, by text

Documents(db) == {uid \in Uids : db.rows[uid] # NoRow}

\* The documents a Queries may touch (assertOwned).
Owned(db, held) == {uid \in Documents(db) : db.rows[uid].scope \in held}

\* Mutant: the page of the slug, whatever its scope.
GetPageBySlug(db, held, scope, slug) ==
  LET found == {uid \in Owned(db, held) : db.rows[uid].slug = slug}
  IN IF found = {} THEN None ELSE CHOOSE uid \in found : TRUE

\* GetPage: (scope, slug) is unique, so one document at most.
GetPage(db, held, scope, slug) ==
  LET found == {uid \in Owned(db, held) :
                  db.rows[uid].slug = slug /\ db.rows[uid].scope = scope}
  IN IF found = {} THEN None ELSE CHOOSE uid \in found : TRUE

\* Mutant: the scope a stored document has is not looked at.
UpsertOutcomeUnguarded(db, held, uid, row) ==
  IF row.scope \notin held THEN "denied"
  ELSE IF \E other \in Documents(db) \ {uid} :
            db.rows[other].scope = row.scope /\ db.rows[other].slug = row.slug
  THEN "conflict"
  ELSE "ok"

\* UpsertDocument: on conflict (uid) do update, where the document is in a held
\* scope; unique (scope, slug).
UpsertOutcome(db, held, uid, row) ==
  IF row.scope \notin held THEN "denied"
  ELSE IF \E other \in Documents(db) \ {uid} :
            db.rows[other].scope = row.scope /\ db.rows[other].slug = row.slug
  THEN "conflict"
  ELSE IF uid \in Documents(db) \ Owned(db, held) THEN "denied"
  ELSE "ok"

UpsertDocument(db, uid, row) == [db EXCEPT !.rows[uid] = row]

\* ReplaceClaims: one batch, and unique (doc_uid, claim_id).
ClaimsCollide(claims) ==
  \E j, k \in DOMAIN claims : j # k /\ claims[j].id = claims[k].id

ReplaceClaims(db, uid, claims) == [db EXCEPT !.claims[uid] = claims]

\* Mutant: the chunks of the version before stay.
AddChunks(db, uid, chunks) == [db EXCEPT !.chunks[uid] = @ \o chunks]

ReplaceChunks(db, uid, chunks) == [db EXCEPT !.chunks[uid] = chunks]

\* UpsertEdge, edge after edge: on conflict (from_uid, to_ref, kind, field) set
\* to_uid.  No statement removes an edge of a page that stays.
UpsertEdges(db, edges) ==
  LET Key(e) == <<e.from, e.ref, e.kind, e.field>> IN
  [db EXCEPT !.edges = {e \in @ : Key(e) \notin {Key(n) : n \in edges}} \cup edges]

\* ReplaceFindings: raise these, resolve the others of the document.
ReplaceFindings(db, uid, findings) == [db EXCEPT !.findings[uid] = findings]

\* upsertGlobalFinding, refused for a scope that is not held.
UpsertGlobalFinding(db, held, finding) ==
  IF finding.scope \in held THEN [db EXCEPT !.globals = @ \cup {finding}] ELSE db

\* Mutant: only what was raised under the scope the page has now is resolved.
ResolveInOwnScope(db, held, scope, path) ==
  [db EXCEPT !.globals = {f \in @ : f.path # path \/ f.scope # scope}]

\* ResolveGlobalFindingsForPath
ResolveGlobalFindings(db, held, scope, path) ==
  IF scope \in held
  THEN [db EXCEPT !.globals = {f \in @ : f.path # path \/ f.scope \notin held}]
  ELSE db

\* Mutant: the edges of a removed document stay.
DeleteRowsOnly(db, held, keep) ==
  LET dead == {uid \in Owned(db, held) : db.rows[uid].path \notin keep} IN
  [db EXCEPT !.rows   = [uid \in Uids |-> IF uid \in dead THEN NoRow ELSE @[uid]],
             !.claims = [uid \in Uids |-> IF uid \in dead THEN << >> ELSE @[uid]],
             !.chunks = [uid \in Uids |-> IF uid \in dead THEN << >> ELSE @[uid]],
             !.findings = [uid \in Uids |-> IF uid \in dead THEN {} ELSE @[uid]]]

\* DeleteDocumentsNotIn: one transaction; claims and chunks by cascade.
DeleteDocumentsNotIn(db, held, keep) ==
  LET dead == {uid \in Owned(db, held) : db.rows[uid].path \notin keep}
      Living(table, none) == [uid \in Uids |-> IF uid \in dead THEN none ELSE table[uid]]
  IN [db EXCEPT
        !.rows     = Living(@, NoRow),
        !.claims   = Living(@, << >>),
        !.chunks   = Living(@, << >>),
        !.findings = Living(@, {}),
        !.edges    = {e \in @ : e.from \notin dead /\ e.to \notin dead}]

\* ScopedClaimTexts
ClaimTexts(db, held) ==
  UNION {{db.claims[uid][k].text : k \in DOMAIN db.claims[uid]} : uid \in Owned(db, held)}

\* FindingsByRule, of the two rules link health counts.
ReferenceFindings(db, held) ==
  UNION {{[uid |-> uid, rule |-> f.rule, ref |-> f.detail] :
            f \in {g \in db.findings[uid] : g.rule \in {"resolved_ref", "dangling_ref"}}} :
         uid \in Owned(db, held)}

\* Mutant: aliases are no names of a page.
SlugScopeIndexNoAlias(db, held) ==
  {<<Normal[db.rows[uid].slug], db.rows[uid].scope>> : uid \in Owned(db, held)}

\* SlugScopeIndex: the names every document answers to, and its scope.
SlugScopeIndex(db, held) ==
  UNION {{<<Normal[n], db.rows[uid].scope>> :
            n \in {db.rows[uid].slug} \cup db.rows[uid].aliases} : uid \in Owned(db, held)}

===============================================================================
