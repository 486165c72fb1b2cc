------------------------------- MODULE IndexReads -------------------------------
(* The statements that read the index for a search, a page or its links        *)
(* (internal/store/queries.go).  A row of documents has a type, a title, a     *)
(* status, tags, a flag historical and a token count; types and titles are     *)
(* numbers in their order.  Scores are percents, and a share of the fusion is  *)
(* a millionth.                                                                *)
EXTENDS IndexStore, FiniteSetsExt, SequencesExt

CONSTANTS
  Lexical(_, _),     \* ts_rank_cd of a claim for a query, 0 for no match
  Similar(_, _),     \* pg_trgm similarity of a title and a query
  Cosine(_, _),      \* of a claim's vector and a query's
  KindOrder          \* the place of an edge's kind among the kinds

\* ListPages, before its limit: no list of types, tags or statuses asks for all.
Listed(db, held, filter) ==
  {uid \in Owned(db, held) :
     LET row == db.rows[uid] IN
     /\ filter.types = {} \/ row.type \in filter.types
     /\ filter.tags = {} \/ row.tags \cap filter.tags # {}
     /\ filter.status = {} \/ row.status \in filter.status
     /\ filter.historical \/ ~row.historical}

\* What the first rows of a set may be, by an order that leaves ties open.
Firsts(S, most, Before(_, _)) ==
  {T \in kSubset(Min({most, Cardinality(S)}), S) : \A u \in T, v \in S \ T : ~Before(v, u)}

ByTypeAndTitle(db, u, v) ==
  \/ db.rows[u].type < db.rows[v].type
  \/ db.rows[u].type = db.rows[v].type /\ db.rows[u].title < db.rows[v].title

\* The sets ListPages may return.
ListPages(db, held, filter) ==
  LET all == Listed(db, held, filter)
  IN Firsts(all, IF filter.limit > 0 THEN filter.limit ELSE Cardinality(all),
            LAMBDA u, v : ByTypeAndTitle(db, u, v))

UpTo(limit, seq) == IF limit > 0 /\ Len(seq) > limit THEN SubSeq(seq, 1, limit) ELSE seq

Share(rank) == 1000000 \div (60 + rank)

\* rank() over the rows of one arm: ties share a rank.
Ranked(rows, why) ==
  {[uid |-> r.uid, claim |-> r.claim, ord |-> r.ord, why |-> why,
    share |-> Share(1 + Cardinality({s \in rows : s.score > r.score}))] : r \in rows}

InSearch(db, held, historical) ==
  {uid \in Owned(db, held) : historical \/ ~db.rows[uid].historical}

\* lexTrigramRows: the claims that match the query, and the titles like it.
LexTrigramRows(db, held, query, historical) ==
  LET docs == InSearch(db, held, historical)
      lex  == UNION {{[uid |-> uid, claim |-> db.claims[uid][k].text, ord |-> k,
                       score |-> Lexical(db.claims[uid][k].text, query)] :
                      k \in DOMAIN db.claims[uid]} : uid \in docs}
      trg  == {[uid |-> uid, claim |-> db.rows[uid].title, ord |-> 0,
                score |-> Similar(db.rows[uid].title, query)] : uid \in docs}
  IN Ranked({r \in lex : r.score > 0}, "lexical")
       \cup Ranked({r \in trg : r.score > 25}, "trigram")

\* ScopedClaimTexts, as semanticRows reads it.
CandidateClaims(db, held, historical) ==
  UNION {{[uid |-> uid, claim |-> db.claims[uid][k].text, ord |-> k] :
            k \in DOMAIN db.claims[uid]} : uid \in InSearch(db, held, historical)}

\* semanticStrongEnough: a best match that stands out, or a good mean over the
\* best of the first documents.
SemanticFloor     == 25
SemanticFloorDocs == 5
SemanticTop1Floor == 45

StrongEnough(results) ==
  LET uids  == {results[k].uid : k \in DOMAIN results}
      first == {k \in DOMAIN results : \A j \in 1..(k - 1) : results[j].uid # results[k].uid}
      best  == {k \in first : Cardinality({j \in first : j <= k}) <= SemanticFloorDocs}
  IN /\ uids # {}
     /\ \/ results[1].score >= SemanticTop1Floor
        \/ MapThenSumSet(LAMBDA k : results[k].score, best)
             >= SemanticFloor * Cardinality(best)

\* semanticRows, from the candidates of one statement and the vectors of the
\* next (CachedClaimEmbeddings); the share is by the place, one more than the
\* places up to which the claim has not come.
SemanticRows(candidates, vectors, query) ==
  LET scored  == {[uid |-> c.uid, claim |-> c.claim, ord |-> c.ord,
                   score |-> Cosine(c.claim, query)] :
                    c \in {d \in candidates : d.claim \in vectors}}
      results == SetToSortSeq(scored, LAMBDA r, s : r.score >= s.score)
      Ahead(r) == {k \in 1..Cardinality(scored) : \A j \in 1..k : results[j] # r}
  IN IF StrongEnough(results)
     THEN {[uid |-> r.uid, claim |-> r.claim, ord |-> r.ord, why |-> "semantic",
            share |-> Share(1 + Cardinality(Ahead(r)))] : r \in scored}
     ELSE {}

WhyOf(whys) ==
  IF "lexical" \in whys THEN "lexical" ELSE IF "trigram" \in whys THEN "trigram" ELSE "semantic"

\* fuseRRF: a document's shares summed over the arms,
Fused(rows) ==
  LET Of(uid) == {r \in rows : r.uid = uid}
  IN {[uid    |-> uid,
       why    |-> WhyOf({r.why : r \in Of(uid)}),
       score  |-> MapThenSumSet(LAMBDA r : r.share, Of(uid)),
       claims |-> {r.claim : r \in Of(uid)}] : uid \in {r.uid : r \in rows}}

\* ... the best first, up to a limit above 0.  The rows come in no order, so equals
\* may be cut in any.
BestOf(docs, limit) == Firsts(docs, limit, LAMBDA d, e : d.score > e.score)

\* ... and in one of their orders.
FuseRRF(rows, limit) ==
  UpTo(limit, SetToSortSeq(Fused(rows), LAMBDA d, e : d.score >= e.score))

\* A Hit: the document as its row is by now.
HitOf(db, doc) ==
  LET row == db.rows[doc.uid] IN
  [scope |-> row.scope, slug |-> row.slug, type |-> row.type, why |-> doc.why,
   score |-> doc.score, uid |-> doc.uid]

\* documentMetaByUID, and the hits SearchClaims keeps by it, at the places they
\* had before some were dropped.
HitsOf(db, held, ranked) ==
  [k \in {j \in DOMAIN ranked : ranked[j].uid \in Owned(db, held)} |-> HitOf(db, ranked[k])]

\* SearchClaims between two changes of the index.
SearchClaims(db, held, query, historical, limit, semantic) ==
  LET sem == IF semantic
             THEN SemanticRows(CandidateClaims(db, held, historical), db.vectors, query)
             ELSE {}
  IN HitsOf(db, held, FuseRRF(LexTrigramRows(db, held, query, historical) \cup sem, limit))

\* Mutant: the page an edge leads to is not asked for its scope.
OutboundUnscoped(db, held, from, kinds) ==
  {e \in db.edges : /\ e.from \in from /\ e.to \in Documents(db)
                    /\ kinds = {} \/ e.kind \in kinds}

\* GetOutboundNeighbors: one hop; no kinds asks for all.
OutboundNeighbors(db, held, from, kinds) ==
  {e \in db.edges : /\ e.from \in from /\ e.to \in Owned(db, held)
                    /\ kinds = {} \/ e.kind \in kinds}

\* ... in the order of kind and title.
ByKindAndTitle(db, e, f) ==
  \/ KindOrder[e.kind] < KindOrder[f.kind]
  \/ e.kind = f.kind /\ db.rows[e.to].title < db.rows[f.to].title

\* GetRelations' second statement: an edge, so a page twice if it links twice.
Backlinks(db, held, uid) == {e \in db.edges : e.to = uid /\ e.from \in Owned(db, held)}

\* GetPagesByUIDs
PagesByUIDs(db, held, uids) == uids \cap Owned(db, held)

===============================================================================
