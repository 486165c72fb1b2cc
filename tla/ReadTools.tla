------------------------------- MODULE ReadTools -------------------------------
(* What the read-only MCP tools do with what they read (internal/mcp's pages,  *)
(* context and related): limits, the order of a pack, its packing, a hop.      *)
EXTENDS IndexReads

CONSTANTS
  DefaultPages, MaxPages,      \* defaultPagesLimit, maxPagesLimit
  SearchTopK,                  \* contextSearchTopK
  DefaultTopK,                 \* defaultSearchTopK
  DefaultDepth, MaxDepth,      \* defaultRelatedDepth, maxRelatedDepth
  MaxNodes,                    \* maxRelatedNodes
  DefaultBudget                \* defaultContextBudget

ASSUME LimitsAreSound ==
  /\ {DefaultPages, MaxPages, SearchTopK, DefaultTopK, DefaultDepth, MaxDepth, MaxNodes}
       \subseteq Nat \ {0}
  /\ DefaultBudget \in Nat

Clamp(n, default, most) == IF n <= 0 THEN default ELSE IF n > most THEN most ELSE n

PagesLimit(limit) == Clamp(limit, DefaultPages, MaxPages)

TopK(k) == IF k <= 0 THEN DefaultTopK ELSE k

Depth(depth) == Clamp(depth, DefaultDepth, MaxDepth)

\* -1 stands for a budget that is not given.
Budget(budget) == IF budget = -1 THEN DefaultBudget ELSE budget

\* A candidate keeps what it was read with, and the place it came in.
Candidate(db, uid, score, at) ==
  [uid |-> uid, type |-> db.rows[uid].type, tokens |-> db.rows[uid].tokens,
   historical |-> db.rows[uid].historical, score |-> score, at |-> at]

\* orderContextCandidates: historical last, then the type's rank, then the
\* score, then the order they came in.
Before(c, d) ==
  IF c.historical # d.historical THEN ~c.historical
  ELSE IF c.type # d.type THEN c.type < d.type
  ELSE IF c.score # d.score THEN c.score > d.score
  ELSE c.at < d.at

TokensOf(candidates) == MapThenSumSet(LAMBDA c : c.tokens, candidates)

\* Mutant: a page is weighed against the whole budget alone.
PacksAlone(candidates, budget) ==
  {pages \in SUBSET candidates : \A c \in candidates : c \in pages <=> c.tokens <= budget}

\* packContext, one after another: a candidate is packed, whole, if the budget
\* has room for it beside those packed before it, else named as left out.
Packs(candidates, budget) ==
  {pages \in SUBSET candidates :
     \A c \in candidates :
       c \in pages <=> TokensOf({d \in pages : Before(d, c)}) + c.tokens <= budget}

\* One hop of related over its ordered edges: the pages not seen before, until
\* maxRelatedNodes are.  A page has the place of the first edge to it.
Hops(db, visited, edges) ==
  Firsts({e.to : e \in edges} \ visited, MaxNodes - Cardinality(visited),
         LAMBDA u, v : \E e \in edges : e.to = u
                         /\ \A f \in edges : f.to = v => ByKindAndTitle(db, e, f))

===============================================================================
