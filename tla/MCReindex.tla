------------------------------- MODULE MCReindex -------------------------------
EXTENDS Reindex, TLC

CONSTANTS a, b, x, y, upper, s1, s2, u1, u2, u3, m1, m2, m3, i1, i2, f1, f2, t

\* "upper" folds to the slug a.
MCNormal == [n \in Names |-> IF n = upper THEN a ELSE n]

PathA == [scope |-> s1, name |-> a]
PathB == [scope |-> s1, name |-> b]
PathC == [scope |-> s2, name |-> a]
PathD == [scope |-> s2, name |-> b]

MCOrder == <<PathA, PathB, PathC, PathD>>

Plain(word) == <<Line("text", <<word>>)>>

\* Two headings' worth: a listing with a heading in it, longer than a chunk and
\* right under a line of text, a paragraph that has to be cut and a table.
Long ==
  <<Line("heading2", <<1>>), Line("text", <<12>>), Line("fence", <<13>>), Line("text", <<2>>),
    Line("heading2", <<3, 4>>), Line("fence", <<14>>), Line("text", <<5, 6, 7>>),
    Line("heading3", <<8>>), Line("row", <<9, 10>>), Line("row", <<11>>)>>

Blank ==
  [ok |-> TRUE, uid |-> None, slug |-> None, scope |-> None, aliases |-> {},
   source |-> None, links |-> {}, claims |-> << >>, entries |-> << >>, body |-> Plain(1), flags |-> {}]

Broken == [Blank EXCEPT !.ok = FALSE]

To(ref) == [ref |-> ref, kind |-> "link", field |-> ""]
About(ref) == [ref |-> ref, kind |-> "about", field |-> "about"]
Text(id, text) == [id |-> id, text |-> text]

\* A page that links ahead: to a slug, an alias and a page of another scope.
Linking ==
  [Blank EXCEPT !.uid = u1, !.links = {To(x), To(b), About(b), To(y)},
                !.claims = <<Text(<<"c", 1>>, 1), Text(None, 2)>>]

Rewritten == [Linking EXCEPT !.links = {To(upper)}, !.claims = << >>, !.body = Long]

\* Without a uid: two of these in two scopes are the same bytes.
Anonymous == [Blank EXCEPT !.links = {To(b)}, !.entries = <<1>>, !.flags = {"long_headline"}]

\* Filed in one directory, meant for the other.
Misfiled == [Blank EXCEPT !.uid = u1, !.scope = s2]

Aliased  == [Blank EXCEPT !.uid = u2, !.aliases = {x}, !.links = {To(upper), To(x)}]

\* The owner typed "c2" and left the second id out.
Colliding == [Aliased EXCEPT !.claims = <<Text(<<"c", 2>>, 1), Text(None, 2)>>]

\* Without a uid, under another page's slug.
Named == [Blank EXCEPT !.slug = a]

Elsewhere == [Blank EXCEPT !.uid = u3, !.aliases = {y}]

MCDrafts ==
  (PathA :> {Linking, Rewritten, Anonymous, Broken, Misfiled})
  @@ (PathB :> {Aliased, Colliding, Named})
  @@ (PathC :> {Elsewhere, Anonymous, Aliased, Broken})
  @@ (PathD :> {})

MCPages == (PathA :> Linking) @@ (PathB :> Aliased) @@ (PathC :> NoPage) @@ (PathD :> NoPage)

\* The same file under two names, and its slug with it.
Slugged == [Blank EXCEPT !.uid = u1, !.slug = a]

\* The page renamed with its uid and without a slug of its own: a new one may
\* take its old name.
Follower == [Blank EXCEPT !.uid = u1]

MCMovedDrafts ==
  (PathA :> {Slugged, Anonymous}) @@ (PathB :> {Slugged, Follower})
  @@ (PathC :> {Elsewhere}) @@ (PathD :> {})

MCMovedPages ==
  (PathA :> Slugged) @@ (PathB :> NoPage) @@ (PathC :> Elsewhere) @@ (PathD :> NoPage)

MCLimits == [maxTokens |-> 5, maxClaims |-> 1, indexed |-> TRUE, log |-> TRUE]

MCTypes ==
  {MCLimits,
   [maxTokens |-> 99, maxClaims |-> 9, indexed |-> FALSE, log |-> FALSE]}

\* A memory file of nobody, and one of a customer; an import finds either.
Memory(name, slug, facets, refs) ==
  [name |-> name, slug |-> slug, facets |-> facets, aliases |-> {}, hook |-> None,
   links |-> {To(ref) : ref \in refs}, body |-> Plain(1), classified |-> TRUE]

MCCorpora == {{Memory(f1, a, {}, {b})}, {Memory(f2, b, {t}, {})}}

MCTenantSets == {{}, {t}}

MCTenantScope == t :> s2

MCScopeOrder == <<s2, s1>>

MCImported == {i1, i2}

MCMinted == {m1, m2, m3}

\* The hypothesis of SourcesKeepTheirUid, of these drafts.
ASSUME InstanceIsProved == DraftsNameNoSource

===============================================================================
