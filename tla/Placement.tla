------------------------------- MODULE Placement -------------------------------
(* What propose_pages makes of a model's answer about one batch of notes       *)
(* (internal/compile/propose.go).  A batch is a sequence of notes; an answer   *)
(* has decisions, in which "to" is the target of an attach or the page of a    *)
(* new_page, and the new pages themselves.  A claim, and a title, is "ok",     *)
(* "long" (a warning) or "bad".                                                *)
EXTENDS Links, Sequences

CONSTANTS
  Answers,          \* bound: what the model may answer
  NoAnswer,         \* the call fails, or breaks the schema
  IndexedTypes,
  ValidSlugs

ASSUME AnswersMatchSchema ==
  /\ NoAnswer \notin Answers
  /\ \A answer \in Answers : \A k \in DOMAIN answer.decisions :
       answer.decisions[k].action \in {"attach", "new_page", "skip"}

ASSUME SlugsAreNames == ValidSlugs \subseteq Names

\* A note is told by its file, its time and its text (NoteKey); a proposal
\* cites the file and the text.
Cites(note) == [path |-> note.path, text |-> note.text]

NewSlugs(answer) == {answer.pages[k].slug : k \in DOMAIN answer.pages}

\* normalizePlacement: a new page named like a candidate is that page.
NormalizePlacement(answer, candidates) ==
  LET ds == answer.decisions IN
  [pages |-> answer.pages,
   decisions |-> [k \in DOMAIN ds |->
     [note |-> ds[k].note, to |-> ds[k].to, claim |-> ds[k].claim,
      action |-> IF ds[k].action = "new_page" /\ ds[k].to \in candidates \ NewSlugs(answer)
                 THEN "attach" ELSE ds[k].action]]]

\* The pages of an answer, and its decisions, as validatePlacement reads them.
GoodPages(answer, taken) ==
  /\ \A j, k \in DOMAIN answer.pages :
       answer.pages[j].slug = answer.pages[k].slug => j = k
  /\ \A k \in DOMAIN answer.pages :
       /\ answer.pages[k].type \in IndexedTypes
       /\ answer.pages[k].slug \in ValidSlugs \ taken
       /\ \E j \in DOMAIN answer.decisions :
            answer.decisions[j].action = "new_page"
              /\ answer.decisions[j].to = answer.pages[k].slug

GoodDecisions(answer, notes, candidates) ==
  LET ds     == answer.decisions
      Of(n)  == {k \in DOMAIN ds : ds[k].note = n}
  IN /\ \A k \in DOMAIN ds :
          /\ ds[k].note \in DOMAIN notes
          /\ ds[k].action = "attach" => ds[k].to \in candidates
          /\ ds[k].action = "new_page" => ds[k].to \in NewSlugs(answer)
          /\ ds[k].action # "skip" => ds[k].claim # "bad"
     /\ \A n \in DOMAIN notes :
          /\ Of(n) # {}
          /\ (\E k \in Of(n) : ds[k].action = "skip") => Cardinality(Of(n)) = 1

ValidPlacement(answer, notes, candidates, taken) ==
  GoodPages(answer, taken) /\ GoodDecisions(answer, notes, candidates)

HasWarnings(answer) ==
  \/ \E k \in DOMAIN answer.decisions :
       answer.decisions[k].action # "skip" /\ answer.decisions[k].claim = "long"
  \/ \E k \in DOMAIN answer.pages : answer.pages[k].title = "long"

\* ProposePlacement: one retry, for a problem or a warning; what comes back may
\* keep its warnings.  NoAnswer when the batch fails.
ProposePlacement(first, second, notes, candidates, taken) ==
  LET Read(answer)  == NormalizePlacement(answer, candidates)
      Valid(answer) == ValidPlacement(Read(answer), notes, candidates, taken)
  IN IF first = NoAnswer THEN NoAnswer
     ELSE IF Valid(first) /\ ~HasWarnings(Read(first)) THEN Read(first)
     ELSE IF second = NoAnswer THEN NoAnswer
     ELSE IF Valid(second) THEN Read(second)
     ELSE NoAnswer

\* The actions each note got (joinAction).
ActionsOf(answer, notes, note) ==
  {answer.decisions[k].action : k \in
     {j \in DOMAIN answer.decisions : notes[answer.decisions[j].note] = note}}

\* buildPlacementProposals: one claims proposal a page attached to, one new_page
\* proposal a new page, each citing its notes.
ProposalOf(answer, notes, scope, kind, target) ==
  LET action == IF kind = "claims" THEN "attach" ELSE "new_page"
  IN [kind |-> kind, scope |-> scope, target |-> target,
      cites |-> {Cites(notes[answer.decisions[k].note]) : k \in
                   {j \in DOMAIN answer.decisions :
                      answer.decisions[j].action = action
                        /\ answer.decisions[j].to = target}}]

BuildPlacementProposals(answer, notes, scope) ==
  LET attached == {answer.decisions[k].to : k \in
                     {j \in DOMAIN answer.decisions : answer.decisions[j].action = "attach"}}
  IN {ProposalOf(answer, notes, scope, "claims", slug) : slug \in attached}
       \cup {ProposalOf(answer, notes, scope, "new_page", slug) : slug \in NewSlugs(answer)}

===============================================================================
