-------------------------------- MODULE Claims --------------------------------
(* The claims list of one page and the rules that change it: ApplyClaims and  *)
(* nextClaimIDs (internal/compile/apply.go), ValidateSemantics                *)
(* (internal/compile/validate.go), applyClaimEdits (internal/api/review.go)   *)
(* and the ids the indexer gives claims (internal/indexer/pipeline.go).       *)
(*                                                                            *)
(* A claim id is the N of the code's c<N>; NoId is a claim whose frontmatter  *)
(* has no id. The dates and spans a claim carries are left out.               *)
EXTENDS Naturals, Sequences, Functions, FiniteSetsExt

CONSTANTS
  Texts,      \* claim statements, told apart only by identity
  Bare        \* those under minClaimWords, a subject and not a statement

ASSUME BareAreTexts == Bare \subseteq Texts

NoId == 0

Statuses == {"active", "superseded"}

Claim == [id : Nat, text : Texts, status : Statuses]

Marks == {"unchanged", "reworded", "retired", "added"}

Addition == [text : Texts, status : Statuses]

\* A proposal's exhaustive classification of a page's claims.  The code's lists
\* become sets and maps, as ApplyClaims makes them; an answer that repeats an id
\* within one bucket, which validation refuses, has no counterpart here.  The
\* answer's schema gives an id a minLength of 1, so it never names a claim that
\* has none, and the agent's changes name no claim at all.
NamedIDs == Nat \ {NoId}

IsChange(change) ==
  /\ change.keep \in SUBSET NamedIDs
  /\ (DOMAIN change.reword) \in SUBSET NamedIDs
  /\ \A id \in DOMAIN change.reword : change.reword[id] \in Texts
  /\ change.retire \in SUBSET NamedIDs
  /\ change.add \in Seq(Addition)

Ids(claims) == {claims[k].id : k \in DOMAIN claims}

\* The error ApplyClaims returns: a reword or retire of a claim not on the page.
Applies(existing, change) ==
  ((DOMAIN change.reword) \cup change.retire) \subseteq Ids(existing)

\* Mutant: a retired claim's text is replaced, its status forgotten.
RetireRevives(c, change) ==
  IF c.id \in change.retire \cup DOMAIN change.reword
  THEN [claim |-> [c EXCEPT !.status = "active"], mark |-> "reworded"]
  ELSE [claim |-> c, mark |-> "unchanged"]

\* Mutant: the mark lands in the claim's status.
RetiredStatus(c, change) ==
  IF c.id \in change.retire
  THEN [claim |-> [c EXCEPT !.status = "retired"], mark |-> "retired"]
  ELSE [claim |-> c, mark |-> "unchanged"]

\* Retiring wins over rewording when a change names a claim in both.
ApplyToClaim(c, change) ==
  CASE c.id \in change.retire ->
         [claim |-> [c EXCEPT !.status = "superseded"], mark |-> "retired"]
    [] c.id \in (DOMAIN change.reword) \ change.retire ->
         [claim |-> [c EXCEPT !.text = change.reword[c.id]], mark |-> "reworded"]
    [] OTHER -> [claim |-> c, mark |-> "unchanged"]

\* Mutant: numbering by the length of the list.
NextPosition(existing, n) == Len(existing) + n

\* nextClaimIDs: numbering continues from the highest c<N> on the page.
NextClaimID(existing, n) == Max(Ids(existing) \cup {NoId}) + n

ApplyClaims(existing, change) ==
  [k \in 1 .. Len(existing) + Len(change.add) |->
     IF k <= Len(existing)
     THEN ApplyToClaim(existing[k], change)
     ELSE LET n == k - Len(existing)
          IN [claim |-> [id     |-> NextClaimID(existing, n),
                         text   |-> change.add[n].text,
                         status |-> change.add[n].status],
              mark  |-> "added"]]

\* compile.Claims: the list written back to the page.
ClaimsOf(applied) == [k \in DOMAIN applied |-> applied[k].claim]

------------------------------------------------------------------------------
(* edit-accept: the reviewer's own wording, a map from claim ids to texts, for *)
(* what the proposal introduces.                                              *)

\* The position an edit's id selects: the last one in the code's byID map.
Position(applied, id) ==
  Max({k \in DOMAIN applied : applied[k].claim.id = id})

EditsAllowed(applied, edits) ==
  \A id \in DOMAIN edits :
    /\ id \in Ids(ClaimsOf(applied))
    /\ applied[Position(applied, id)].mark \in {"added", "reworded"}
    /\ edits[id] \notin Bare

ApplyClaimEdits(applied, edits) ==
  [k \in DOMAIN applied |->
     LET id == applied[k].claim.id
     IN IF id \in DOMAIN edits /\ k = Position(applied, id)
        THEN [applied[k] EXCEPT !.claim.text = edits[id]]
        ELSE applied[k]]

------------------------------------------------------------------------------
(* What extract_claims demands of the model's answer before it is a proposal. *)

Classified(change) ==
  change.keep \cup (DOMAIN change.reword) \cup change.retire

\* Mutant: invented ids go unnoticed.
EachClaimedOnce(change, existing) ==
  /\ Ids(existing) \subseteq Classified(change)
  /\ change.keep \cap (DOMAIN change.reword) = {}
  /\ change.keep \cap change.retire = {}
  /\ (DOMAIN change.reword) \cap change.retire = {}

\* Every claim in exactly one bucket, and no id the page does not hold.
ExhaustiveClassification(change, existing) ==
  /\ Classified(change) = Ids(existing)
  /\ change.keep \cap (DOMAIN change.reword) = {}
  /\ change.keep \cap change.retire = {}
  /\ (DOMAIN change.reword) \cap change.retire = {}

\* Mutant: retired claims count as gone.
ActiveClaimCount(change) ==
  Cardinality(change.keep) + Cardinality(DOMAIN change.reword) + Len(change.add)

TotalClaimCount(change) ==
  Cardinality(change.keep) + Cardinality(DOMAIN change.reword)
    + Cardinality(change.retire) + Len(change.add)

ValidateSemantics(change, existing, maxClaims) ==
  /\ ExhaustiveClassification(change, existing)
  /\ TotalClaimCount(change) >= 1
  /\ maxClaims > 0 => TotalClaimCount(change) <= maxClaims
  /\ Range(change.reword) \cap Bare = {}
  /\ \A k \in DOMAIN change.add : change.add[k].text \notin Bare

\* buildClaims: a claim without an id is indexed under its position.
IndexedIDs(claims) ==
  [k \in DOMAIN claims |-> IF claims[k].id = NoId THEN k ELSE claims[k].id]

===============================================================================
