------------------------------- MODULE Importer -------------------------------
(* Importing a corpus of memory files (internal/importer/claudememory.go).     *)
(* Each file becomes a page of the scope its facets name; a page the vault     *)
(* already holds keeps its uid, and moves when its tenant is corrected.        *)
(*                                                                             *)
(* A path is a scope and a file name; the folder of a page's kind is left out. *)
EXTENDS Links, Sequences

CONSTANTS
  NoPage,         \* no file is there
  TenantScope,    \* scopeForTenant: the scope of each tenant
  WorkScope,      \* defaultScope
  ScopeOrder,     \* the scopes, as they sort
  Order           \* every path, in the order List sorts them

Position(path) == CHOOSE k \in DOMAIN Order : Order[k] = path

\* A walk of the vault comes to one path no later than to the other.
Walks(path, other) == Position(path) <= Position(other)

\* scopeFor: the tenants among the facets; with several of them the first scope.
ScopeFor(facets, tenants) ==
  LET scopes == {TenantScope[t] : t \in facets \cap tenants}
      Rank(s) == CHOOSE k \in DOMAIN ScopeOrder : ScopeOrder[k] = s
      first  == {s \in scopes : \A other \in scopes : Rank(s) <= Rank(other)}
  IN IF first = {} THEN WorkScope ELSE CHOOSE s \in first : TRUE

\* Convert, with the uid the page is to carry.
Convert(file, tenants, uid) ==
  LET scope == ScopeFor(file.facets, tenants) IN
  [ok |-> TRUE, uid |-> uid, slug |-> file.slug, scope |-> scope, source |-> file.name,
   aliases |-> file.aliases, links |-> file.links, entries |-> << >>, body |-> file.body,
   claims |-> IF file.hook = None THEN << >> ELSE <<[id |-> <<"c", 1>>, text |-> file.hook]>>,
   flags |-> (IF Cardinality(file.facets \cap tenants) > 1 THEN {"multi_customer"} ELSE {})
             \cup (IF file.classified THEN {} ELSE {"missing_classification"})]

\* readPageIdentity: a page that does not parse has its file's name and no uid.
Identity(path, page) ==
  IF ~ page.ok
  THEN [path |-> path, uid |-> None, slug |-> path.name, source |-> None]
  ELSE [path |-> path, uid |-> page.uid, source |-> page.source,
        slug |-> IF page.slug = None THEN path.name ELSE page.slug]

\* readVaultIndex
VaultIndex(vault) ==
  {Identity(path, vault[path]) : path \in {p \in DOMAIN vault : vault[p] # NoPage}}

NoPrior == [path |-> None, uid |-> None, slug |-> None, source |-> None]

\* The one walked last: readVaultIndex writes over its maps.
LastOf(found) ==
  LET last == {i \in found : \A other \in found : Walks(other.path, i.path)}
  IN IF last = {} THEN NoPrior ELSE CHOOSE i \in last : TRUE

\* Mutant: a page is looked up by its name alone.
FindByName(index, source, scope, slug) ==
  LastOf({i \in index : i.path.scope = scope /\ i.slug = slug})

\* vaultIndex.find: by its source file, else by scope and slug.
Find(index, source, scope, slug) ==
  LET bySource == {i \in index : i.source = source}
      byName   == {i \in index : i.path.scope = scope /\ i.slug = slug}
  IN LastOf(IF bySource # {} THEN bySource ELSE byName)

\* convertAll, of one file; fresh is a new uid.
Plan(file, tenants, index, fresh) ==
  LET scope == ScopeFor(file.facets, tenants)
      prior == Find(index, file.name, scope, file.slug)
      uid   == IF prior.uid = None THEN fresh ELSE prior.uid
  IN [path |-> [scope |-> scope, name |-> file.slug], prior |-> prior,
      page |-> Convert(file, tenants, uid)]

\* convertAll refuses two files of one slug, whatever their scopes.
SlugsCollide(corpus) == \E f, g \in corpus : f # g /\ f.slug = g.slug

\* Mutant: a page of the same name is taken for the same document.
SupersedesByName(plan) == plan.prior.path \notin {None, plan.path}

\* supersedes: the prior file is elsewhere and carries the uid the page kept.
Supersedes(plan) ==
  /\ plan.prior.path \notin {None, plan.path}
  /\ plan.prior.uid # None
  /\ plan.prior.uid = plan.page.uid

\* stageChanges: every page, and the removals of what no page is written to.
StageChanges(plans) ==
  LET written == {p.path : p \in plans}
      moved   == {p \in plans : Supersedes(p) /\ p.prior.path \notin written}
  IN {[path |-> p.path, page |-> p.page] : p \in plans}
     \cup {[path |-> p.prior.path, page |-> NoPage] : p \in moved}

\* What a commit carries out next: the removals come last (the order of the
\* pages among each other is left open).
Due(changes) == {c \in changes : c.page # NoPage \/ \A other \in changes : other.page = NoPage}

===============================================================================
