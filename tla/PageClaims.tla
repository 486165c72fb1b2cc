------------------------------ MODULE PageClaims ------------------------------
(* The claims list of one page over its whole life: accepted extractions,     *)
(* accepted agent proposals, edit-accepts and the owner's own edits, one      *)
(* after another.  Accept applies a change to the very list the change was    *)
(* built from, which is what a proposal's TargetVersion pins (module Review). *)
EXTENDS Claims

CONSTANTS
  Answers(_),     \* what the model may answer for a page with these claims
  AgentAdditions, \* sequences of additions an agent may send to propose
  Edits,          \* maps from ids to texts a reviewer may send to edit-accept
  MaxClaims,      \* the page type's max_claims
  MaxProposed,    \* maxProposedClaims of the propose tool
  OwnerNumbers,   \* TRUE: the owner writes an id on every claim typed by hand
  MaxLen,         \* bounds on the list and on its ids, for model checking only
  MaxID

ASSUME LimitsAreNaturals ==
  /\ MaxClaims \in Nat \ {0}
  /\ MaxProposed \in Nat \ {0}
  /\ MaxLen \in Nat
  /\ MaxID \in Nat

ASSUME EditsAreTexts ==
  \A edits \in Edits : \A id \in DOMAIN edits : edits[id] \in Texts

ASSUME OwnerNumbersIsBoolean == OwnerNumbers \in BOOLEAN

VARIABLE claims

TypeOK == claims \in Seq(Claim)

Init == claims = << >>

Bounded(list) == Len(list) <= MaxLen /\ Ids(list) \subseteq 0 .. MaxID

\* handleReviewAccept (no edits) and handleReviewEditAccept.
Accept(change) ==
  /\ Applies(claims, change)
  /\ \E edits \in Edits :
       LET applied == ApplyClaims(claims, change)
       IN /\ EditsAllowed(applied, edits)
          /\ Bounded(ClaimsOf(applied))
          /\ claims' = ClaimsOf(ApplyClaimEdits(applied, edits))

\* IsChange is the tool's JSON Schema, checked before the semantics.  A page that
\* holds a claim without an id gets no extraction: no answer can classify it.
AcceptExtraction ==
  \E change \in Answers(claims) :
    /\ IsChange(change)
    /\ ValidateSemantics(change, claims, MaxClaims)
    /\ Accept(change)

AgentChange(additions) ==
  [keep |-> {}, reword |-> << >>, retire |-> {}, add |-> additions]

AcceptAgentProposal ==
  \E additions \in AgentAdditions :
    /\ additions \in Seq(Addition)
    /\ Len(additions) \in 1 .. MaxProposed
    /\ \A k \in DOMAIN additions :
         additions[k].text \notin Bare /\ additions[k].status = "active"
    /\ Accept(AgentChange(additions))

\* A claim typed into the page's frontmatter in an editor.
OwnerWrites ==
  \E text \in Texts, id \in 0 .. MaxID :
    /\ id \notin Ids(claims) \ {NoId}
    /\ OwnerNumbers <=> id # NoId
    /\ Len(claims) < MaxLen
    /\ claims' = Append(claims, [id |-> id, text |-> text, status |-> "active"])

OwnerRemoves ==
  \E gone \in DOMAIN claims :
    claims' = [k \in 1 .. Len(claims) - 1 |->
                 IF k < gone THEN claims[k] ELSE claims[k + 1]]

Next ==
  \/ AcceptExtraction
  \/ AcceptAgentProposal
  \/ OwnerWrites
  \/ OwnerRemoves

Spec == Init /\ [][Next]_claims

------------------------------------------------------------------------------
(* Two claims never share an id, however extractions, agent proposals and     *)
(* hand edits that delete the highest or a middle claim alternate             *)
(* (nextClaimIDs numbers from the highest id present).                        *)
UniqueIDs ==
  \A j, k \in DOMAIN claims :
    claims[j].id = claims[k].id => j = k \/ claims[j].id = NoId

(* The indexer can store the page: the ids it derives are distinct, as the    *)
(* claims table's key (doc_uid, claim_id) requires.                           *)
IndexableIDs == IsInjective(IndexedIDs(claims))

(* Whatever the model answers, an answer that passes ValidateSemantics is one *)
(* ApplyClaims accepts: a proposal extract_claims files is never refused with *)
(* a 422 by an accept that finds the page as it was.                          *)
ValidatedAnswersApply ==
  \A change \in Answers(claims) :
    ValidateSemantics(change, claims, MaxClaims) => Applies(claims, change)

(* Accepting never loses a claim and never brings a superseded one back: only *)
(* the owner, by hand, takes a claim off a page.                              *)
NothingVanishes ==
  [][\/ OwnerRemoves
     \/ \A c \in Range(claims) : \E d \in Range(claims') :
          /\ d.id = c.id
          /\ c.status = "superseded" => d.status = "superseded"]_claims

(* An extraction leaves the page within max_claims: what ValidateSemantics     *)
(* counts over the answer's buckets is the length of the list that            *)
(* ApplyClaims writes, superseded claims included.                            *)
ExtractionFitsLimit ==
  \A change \in Answers(claims) :
    IsChange(change) /\ ValidateSemantics(change, claims, MaxClaims) =>
      Len(ApplyClaims(claims, change)) \in 1 .. MaxClaims

===============================================================================
