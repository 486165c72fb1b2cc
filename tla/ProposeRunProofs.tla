--------------------------- MODULE ProposeRunProofs ---------------------------
(* That the state file of propose_pages never says a note was placed that no   *)
(* proposal cites, and that the new pages it proposes are apart: the invariants *)
(* of ProposeRun's steps, for any notes, answers and options.  Module          *)
(* GatewayProofs has the theorems about the specification.                     *)
EXTENDS ProposeRun, TLAPS

\* Some of the proposals cites the note of the entry, for each thing done with it.
Covered(entries, proposals) ==
  \A entry \in entries : \A action \in entry.actions \ {"skip"} :
    \E p \in proposals :
      /\ Cites(entry.key) \in p.cites
      /\ p.kind = IF action = "attach" THEN "claims" ELSE "new_page"

RunFields == {"pc", "options", "notes", "slugs", "state", "pending", "left", "todo",
              "next", "filed"}

\* What holds of a run: whatever it has read or written of the state file has its
\* proposals; what it will write has them once the rest is filed.
RunCovers ==
  /\ RunFields \subseteq DOMAIN prun
  /\ Covered(prun.state, inbox)
  /\ prun.pc = "write" => Covered(prun.next, inbox \cup prun.todo)
  /\ prun.pc = "record" => Covered(prun.next, inbox)

ProposalShape ==
  \A p \in inbox : {"kind", "scope", "target", "cites", "status"} \subseteq DOMAIN p

ProposeInv ==
  /\ ProposalShape
  /\ Covered(decided, inbox)
  /\ prun # NoRun => RunCovers

LEMMA CoveredMonotone ==
  ASSUME NEW S, NEW P, NEW Q, Covered(S, P), P \subseteq Q
  PROVE  Covered(S, Q)
BY DEF Covered

\* A batch's answer, when there is one, is valid and has the schema's actions.
LEMMA AnswerIsValid ==
  ASSUME NEW first \in Answers \cup {NoAnswer}, NEW second \in Answers \cup {NoAnswer},
         NEW notes, NEW candidates, NEW taken,
         NEW answer, answer = ProposePlacement(first, second, notes, candidates, taken),
         answer # NoAnswer
  PROVE  /\ ValidPlacement(answer, notes, candidates, taken)
         /\ \A k \in DOMAIN answer.decisions :
              answer.decisions[k].action \in {"attach", "new_page", "skip"}
<1> DEFINE Read(a) == NormalizePlacement(a, candidates)
<1>1. ASSUME NEW a \in Answers, answer = Read(a)
      PROVE  \A k \in DOMAIN answer.decisions :
               answer.decisions[k].action \in {"attach", "new_page", "skip"}
  BY <1>1, AnswersMatchSchema, SMTT(30) DEF NormalizePlacement
<1>2. \/ first \in Answers /\ answer = Read(first)
           /\ ValidPlacement(Read(first), notes, candidates, taken)
      \/ second \in Answers /\ answer = Read(second)
           /\ ValidPlacement(Read(second), notes, candidates, taken)
  BY DEF ProposePlacement
<1> QED
  BY <1>1, <1>2


\* What a valid answer did with a note that is not deferred, a proposal of the
\* batch cites.
LEMMA ActionIsProposed ==
  ASSUME NEW answer, NEW notes, NEW candidates, NEW taken, NEW scope,
         ValidPlacement(answer, notes, candidates, taken),
         \A k \in DOMAIN answer.decisions :
           answer.decisions[k].action \in {"attach", "new_page", "skip"},
         NEW note,
         \A p \in BuildPlacementProposals(answer, notes, scope) :
           Busy(prun, p) => Cites(note) \notin p.cites,
         NEW action \in ActionsOf(answer, notes, note), action # "skip"
  PROVE  \E p \in BuildPlacementProposals(answer, notes, scope) :
           /\ ~Busy(prun, p)
           /\ Cites(note) \in p.cites
           /\ p.kind = IF action = "attach" THEN "claims" ELSE "new_page"
<1> DEFINE ds == answer.decisions
<1>1. PICK k \in DOMAIN ds : notes[ds[k].note] = note /\ ds[k].action = action
  BY DEF ActionsOf
<1> DEFINE kind == IF action = "attach" THEN "claims" ELSE "new_page"
           p    == ProposalOf(answer, notes, scope, kind, ds[k].to)
<1>2. p.kind = kind
  BY DEF ProposalOf
<1>3. Cites(note) \in p.cites
  <2>1. action = IF kind = "claims" THEN "attach" ELSE "new_page"
    BY <1>1
  <2> QED
    BY <1>1, <2>1 DEF ProposalOf
<1>4. p \in BuildPlacementProposals(answer, notes, scope)
  <2>1. CASE action = "attach"
    BY <1>1, <2>1 DEF BuildPlacementProposals
  <2>2. CASE action = "new_page"
    <3>1. ds[k].to \in NewSlugs(answer)
      BY <1>1, <2>2 DEF ValidPlacement, GoodDecisions
    <3> QED
      BY <2>2, <3>1 DEF BuildPlacementProposals
  <2> QED
    BY <1>1, <2>1, <2>2
<1>5. ~Busy(prun, p)
  BY <1>3, <1>4
<1> QED
  BY <1>2, <1>3, <1>4, <1>5

\* A batch's new state is covered by the inbox and what the batch files.
LEMMA StagedIsCovered ==
  ASSUME NEW answer, NEW notes, NEW candidates, NEW taken, NEW scope,
         ValidPlacement(answer, notes, candidates, taken),
         \A k \in DOMAIN answer.decisions :
           answer.decisions[k].action \in {"attach", "new_page", "skip"},
         Covered(prun.state, inbox)
  PROVE  LET staged == StageOutcome(prun, answer, notes, scope)
         IN Covered(staged.next, inbox \cup staged.changes)
<1> DEFINE proposals == BuildPlacementProposals(answer, notes, scope)
           deferred  == UNION {p.cites : p \in {q \in proposals : Busy(prun, q)}}
           done      == {n \in ToSet(notes) : Cites(n) \notin deferred}
           changes   == {p \in proposals : ~Busy(prun, p)}
           new       == {[key |-> n, actions |-> ActionsOf(answer, notes, n)] : n \in done}
           next      == {e \in prun.state : e.key \notin done} \cup new
<1>1. Covered(new, changes)
  <2> SUFFICES ASSUME NEW n \in done, NEW action \in ActionsOf(answer, notes, n) \ {"skip"}
               PROVE  \E p \in changes :
                        /\ Cites(n) \in p.cites
                        /\ p.kind = IF action = "attach" THEN "claims" ELSE "new_page"
    BY DEF Covered
  <2>1. action \in ActionsOf(answer, notes, n) /\ action # "skip"
    OBVIOUS
  <2>2. \A p \in proposals : Busy(prun, p) => Cites(n) \notin p.cites
    OBVIOUS
  <2>3. \E p \in proposals :
          /\ ~Busy(prun, p)
          /\ Cites(n) \in p.cites
          /\ p.kind = IF action = "attach" THEN "claims" ELSE "new_page"
    BY <2>1, <2>2, ActionIsProposed
  <2> QED
    BY <2>3
<1>2. Covered(next, inbox \cup changes)
  <2> HIDE DEF new, changes, done
  <2> QED
    BY <1>1 DEF Covered
<1>3. StageOutcome(prun, answer, notes, scope) = [changes |-> changes, next |-> next]
  BY DEF StageOutcome
<1> HIDE DEF changes, next
<1> QED
  BY <1>2, <1>3

-------------------------------------------------------------------------------

LEMMA StartKeepsInv ==
  ASSUME ProposeInv, NEW options, StartRun(options)
  PROVE  ProposeInv'
BY DEF ProposeInv, ProposalShape, StartRun, RunCovers, RunFields, Covered

LEMMA LoadKeepsInv ==
  ASSUME ProposeInv, LoadProposeState
  PROVE  ProposeInv'
BY DEF ProposeInv, ProposalShape, LoadProposeState, RunCovers, RunFields, Covered

LEMMA ReadKeepsInv ==
  ASSUME ProposeInv, ReadPending
  PROVE  ProposeInv'
<1> DEFINE run == [prun EXCEPT !.pending = Targets(Pending)]
           left == Undecided(prun.notes, prun.state, prun.options)
<1>1. prun # NoRun /\ prun' = Onward(run, left) /\ UNCHANGED <<inbox, decided>>
  BY DEF ReadPending
<1> HIDE DEF left
<1>2. prun' = NoRun \/ prun' = [run EXCEPT !.pc = "place", !.left = left]
  BY <1>1 DEF Onward
<1> QED
  BY <1>1, <1>2, ZenonT(30) DEF ProposeInv, ProposalShape, RunCovers, RunFields, Covered

LEMMA PlaceKeepsInv ==
  ASSUME ProposeInv, PlaceBatch
  PROVE  ProposeInv'
<1> DEFINE notes == InOrder(prun.notes, NextBatch(prun))
           left == prun.left \ NextBatch(prun)
<1>0. PICK scope \in Scopes : \E answer \in BatchAnswers(prun, notes, scope) :
        LET staged == StageOutcome(prun, answer, notes, scope)
        IN prun' = IF \/ answer = NoAnswer
                      \/ Cardinality(staged.next) = Cardinality(prun.state) /\ staged.changes = {}
                   THEN Onward(prun, left)
                   ELSE [prun EXCEPT !.pc = "write", !.left = left, !.todo = staged.changes,
                                     !.next = staged.next, !.filed = Targets(staged.changes)]
  BY Zenon DEF PlaceBatch
<1> DEFINE Staged(answer) == StageOutcome(prun, answer, notes, scope)
<1>1. PICK answer \in BatchAnswers(prun, notes, scope) :
        prun' = IF \/ answer = NoAnswer
                   \/ Cardinality(Staged(answer).next) = Cardinality(prun.state)
                        /\ Staged(answer).changes = {}
                THEN Onward(prun, left)
                ELSE [prun EXCEPT !.pc = "write", !.left = left,
                                  !.todo = Staged(answer).changes,
                                  !.next = Staged(answer).next,
                                  !.filed = Targets(Staged(answer).changes)]
  BY <1>0
<1>2. prun # NoRun /\ UNCHANGED <<inbox, decided>>
  BY DEF PlaceBatch
<1>3. answer # NoAnswer =>
        Covered(Staged(answer).next, inbox \cup Staged(answer).changes)
  <2> SUFFICES ASSUME answer # NoAnswer
               PROVE  Covered(Staged(answer).next, inbox \cup Staged(answer).changes)
    OBVIOUS
  <2> DEFINE candidates == BatchCandidates(notes, scope, prun.options.semantic)
             taken      == TakenSlugs(prun, scope)
  <2>1. PICK first \in Answers \cup {NoAnswer}, second \in Answers \cup {NoAnswer} :
          answer = ProposePlacement(first, second, notes, candidates, taken)
    BY DEF BatchAnswers
  <2> HIDE DEF notes, candidates, taken
  <2>2. /\ ValidPlacement(answer, notes, candidates, taken)
        /\ \A k \in DOMAIN answer.decisions :
             answer.decisions[k].action \in {"attach", "new_page", "skip"}
    BY <2>1, AnswerIsValid
  <2>3. Covered(prun.state, inbox)
    BY <1>2 DEF ProposeInv, RunCovers
  <2> QED
    BY <2>2, <2>3, StagedIsCovered
<1> HIDE DEF Staged, notes, left
<1>4. CASE prun' = Onward(prun, left)
  BY <1>2, <1>4 DEF Onward, ProposeInv, ProposalShape, RunCovers, RunFields, Covered
<1>5. CASE /\ answer # NoAnswer
           /\ prun' = [prun EXCEPT !.pc = "write", !.left = left,
                                   !.todo = Staged(answer).changes,
                                   !.next = Staged(answer).next,
                                   !.filed = Targets(Staged(answer).changes)]
  <2>1. /\ RunFields \subseteq DOMAIN prun'
        /\ prun'.pc = "write" /\ prun'.todo = Staged(answer).changes
        /\ prun'.next = Staged(answer).next /\ prun'.state = prun.state
    BY <1>2, <1>5 DEF ProposeInv, RunCovers, RunFields
  <2> QED
    BY <1>2, <1>3, <1>5, <2>1 DEF ProposeInv, ProposalShape, RunCovers, Covered
<1> QED
  BY <1>1, <1>4, <1>5

LEMMA WriteKeepsInv ==
  ASSUME ProposeInv, WriteChange
  PROVE  ProposeInv'
<1>1. prun # NoRun /\ prun.pc = "write"
  BY DEF WriteChange
<1>2. CASE \E p \in prun.todo : FileProposal(p) /\ UNCHANGED decided
  <2>1. PICK p \in prun.todo : FileProposal(p) /\ UNCHANGED decided
    BY <1>2
  <2> DEFINE filed == [id |-> Cardinality(inbox) + 1, kind |-> p.kind, scope |-> p.scope,
                       target |-> p.target, cites |-> p.cites, status |-> "pending"]
  <2>2. inbox' = inbox \cup {filed} /\ prun' = [prun EXCEPT !.todo = @ \ {p}]
    BY <2>1 DEF FileProposal
  <2>3. filed.kind = p.kind /\ filed.cites = p.cites
        /\ {"kind", "scope", "target", "cites", "status"} \subseteq DOMAIN filed
    OBVIOUS
  <2> HIDE DEF filed
  <2>4. /\ RunFields \subseteq DOMAIN prun' /\ prun'.pc = "write"
        /\ prun'.todo = prun.todo \ {p}
        /\ prun'.next = prun.next /\ prun'.state = prun.state
    BY <1>1, <2>2 DEF ProposeInv, RunCovers, RunFields
  <2>5. ProposalShape'
    BY <2>2, <2>3 DEF ProposeInv, ProposalShape
  <2>6. Covered(decided, inbox)' /\ Covered(prun.state, inbox)'
    BY <1>1, <2>1, <2>2, <2>4 DEF ProposeInv, RunCovers, Covered
  <2>7. Covered(prun.next, inbox \cup prun.todo)'
    BY <1>1, <2>2, <2>3, <2>4 DEF ProposeInv, RunCovers, Covered
  <2> QED
    BY <2>4, <2>5, <2>6, <2>7 DEF ProposeInv, RunCovers
<1>3. CASE /\ prun.todo = {} /\ decided' = prun.next
           /\ prun' = [prun EXCEPT !.pc = "record"] /\ UNCHANGED inbox
  <2>1. /\ RunFields \subseteq DOMAIN prun' /\ prun'.pc = "record"
        /\ prun'.next = prun.next /\ prun'.state = prun.state
    BY <1>1, <1>3 DEF ProposeInv, RunCovers, RunFields
  <2>2. Covered(prun.next, inbox)
    BY <1>1, <1>3 DEF ProposeInv, RunCovers, Covered
  <2> QED
    BY <1>1, <1>3, <2>1, <2>2 DEF ProposeInv, ProposalShape, RunCovers, Covered
<1> QED
  BY <1>2, <1>3 DEF WriteChange

LEMMA CommitKeepsInv ==
  ASSUME ProposeInv, CommitBatch
  PROVE  ProposeInv'
<1> DEFINE run == [prun EXCEPT !.state = prun.next, !.slugs = @ \cup prun.filed]
<1>1. /\ prun # NoRun /\ prun.pc = "record"
      /\ prun' = Onward(run, prun.left) /\ UNCHANGED <<inbox, decided>>
  BY DEF CommitBatch
<1>2. RunFields \subseteq DOMAIN run /\ run.state = prun.next
  BY <1>1 DEF ProposeInv, RunCovers, RunFields
<1> HIDE DEF run
<1>3. prun' = NoRun \/ prun' = [run EXCEPT !.pc = "place", !.left = prun.left]
  BY <1>1 DEF Onward
<1>4. prun' # NoRun => /\ RunFields \subseteq DOMAIN prun'
                       /\ prun'.pc = "place" /\ prun'.state = prun.next
  BY <1>2, <1>3 DEF RunFields
<1> QED
  BY <1>1, <1>4 DEF ProposeInv, ProposalShape, RunCovers, Covered

LEMMA OwnerKeepsInv ==
  ASSUME ProposeInv, OwnerActs
  PROVE  ProposeInv'
<1>1. PICK p \in inbox, status \in {"accepted", "rejected"} : OwnerDecides(p, status)
  BY DEF OwnerActs
<1> DEFINE told == [p EXCEPT !.status = status]
<1>2. inbox' = (inbox \ {p}) \cup {told} /\ UNCHANGED <<decided, prun>>
  BY <1>1 DEF OwnerDecides
<1>3. /\ told.kind = p.kind /\ told.cites = p.cites
      /\ {"kind", "scope", "target", "cites", "status"} \subseteq DOMAIN told
  BY DEF ProposeInv, ProposalShape
<1> HIDE DEF told
<1>4. ASSUME NEW S, NEW todo, Covered(S, inbox \cup todo)
      PROVE  Covered(S, inbox' \cup todo)
  BY <1>2, <1>3, <1>4 DEF Covered
<1>5. ASSUME NEW S, Covered(S, inbox)
      PROVE  Covered(S, inbox')
  BY <1>2, <1>3, <1>5 DEF Covered
<1>6. ProposalShape'
  BY <1>2, <1>3 DEF ProposeInv, ProposalShape
<1> QED
  BY <1>2, <1>4, <1>5, <1>6 DEF ProposeInv, RunCovers

\* The steps of a run and the owner's keep the invariant.
LEMMA RunKeepsInv ==
  ASSUME ProposeInv, RunStep
  PROVE  ProposeInv'
<1>1. CASE RunStops
  BY <1>1 DEF RunStops, ProposeInv, ProposalShape, Covered
<1> QED
  BY <1>1, LoadKeepsInv, ReadKeepsInv, PlaceKeepsInv, WriteKeepsInv, CommitKeepsInv DEF RunStep

\* ... and so does whatever leaves the proposals and the run as they are.
LEMMA OthersKeepInv ==
  ASSUME ProposeInv, UNCHANGED <<inbox, decided, prun>>
  PROVE  ProposeInv'
BY DEF ProposeInv, ProposalShape, RunCovers, Covered

LEMMA InvIsEnough == ProposeInv => DecidedMeansProposed
BY DEF ProposeInv, Covered, DecidedMeansProposed

-------------------------------------------------------------------------------
(* New pages apart.                                                            *)

Place(p) == <<p.scope, p.target>>

\* The pages a note may be matched with are files of the vault.
Indexed == {<<db.rows[uid].scope, db.rows[uid].slug>> :
              uid \in {u \in Documents(db) : db.rows[u].type \notin LogTypes}}

\* What a run knows of, by its two readings and its own batches.
Known == prun.slugs \cup prun.pending \cup prun.filed

\* A batch under way: what it still has to file is apart, and of its own places.
TodoApart ==
  \A p \in prun.todo :
    /\ Place(p) \in prun.filed
    /\ p.kind # "new_page" => Place(p) \in existing
    /\ p.kind = "new_page" /\ Place(p) \notin crossed =>
         /\ \A q \in prun.todo \ {p} : Place(q) # Place(p)
         /\ Place(p) \notin existing \cup Targets(Pending)

RunApart ==
  /\ RunFields \subseteq DOMAIN prun
  /\ prun.pc \in {"scanned", "loaded", "place", "write", "record"}
  /\ existing \subseteq Known \cup crossed
  /\ prun.pc \in {"scanned", "loaded"} => prun.pending = {} /\ prun.filed = {}
  /\ prun.pc \in {"place", "write", "record"} => Targets(Pending) \subseteq Known
  /\ prun.pc = "place" => prun.filed \subseteq prun.slugs
  /\ prun.pc = "write" => TodoApart

ApartInv ==
  /\ ProposalShape
  /\ Indexed \subseteq existing
  /\ NewPagesApart
  /\ prun # NoRun => RunApart

\* A candidate is a page of the scope that is no log.
LEMMA CandidatesAreIndexed ==
  ASSUME NEW notes, NEW scope, NEW semantic,
         NEW slug \in BatchCandidates(notes, scope, semantic)
  PROVE  <<scope, slug>> \in Indexed
<1> DEFINE found == [n \in DOMAIN notes |-> Candidates(scope, notes[n].text, semantic)]
           places == UNION {{<<n, k>> : k \in DOMAIN found[n]} : n \in DOMAIN notes}
<1>0. PICK p \in places : slug = found[p[1]][p[2]]
  BY Zenon DEF BatchCandidates
<1>1. PICK n \in DOMAIN notes :
        \E k \in DOMAIN Candidates(scope, notes[n].text, semantic) :
          slug = Candidates(scope, notes[n].text, semantic)[k]
  BY <1>0
<1> DEFINE text == notes[n].text
           hits == SearchClaims(db, {scope}, text, FALSE, 3 * CandidatesPerNote, semantic)
<1>2. PICK k \in DOMAIN hits : hits[k].type \notin LogTypes /\ slug = hits[k].slug
  BY <1>1 DEF Candidates
<1>3. PICK ranked : hits = HitsOf(db, {scope}, ranked)
  BY DEF SearchClaims
<1> HIDE DEF hits
<1>4. PICK uid \in Owned(db, {scope}) :
        hits[k].slug = db.rows[uid].slug /\ hits[k].type = db.rows[uid].type
  BY <1>2, <1>3 DEF HitsOf, HitOf
<1> QED
  BY <1>2, <1>4 DEF Owned, Indexed

\* What a valid answer's batch files: claims for pages that are indexed, and new
\* pages apart from each other and from all the run knows of.
LEMMA BatchIsApart ==
  ASSUME NEW answer, NEW notes, NEW scope, NEW semantic,
         ValidPlacement(answer, notes, BatchCandidates(notes, scope, semantic),
                        TakenSlugs(prun, scope)),
         NEW p \in BuildPlacementProposals(answer, notes, scope)
  PROVE  /\ {"kind", "scope", "target", "cites"} \subseteq DOMAIN p
         /\ p.kind # "new_page" => Place(p) \in Indexed
         /\ p.kind = "new_page" =>
              /\ Place(p) \notin prun.slugs \cup prun.pending
              /\ \A q \in BuildPlacementProposals(answer, notes, scope) \ {p} :
                   q.kind = "new_page" => Place(q) # Place(p)
<1> DEFINE Of(kind, slug) == ProposalOf(answer, notes, scope, kind, slug)
           candidates == BatchCandidates(notes, scope, semantic)
           taken == TakenSlugs(prun, scope)
<1>1. \A kind, slug : /\ DOMAIN Of(kind, slug) = {"kind", "scope", "target", "cites"}
                      /\ Of(kind, slug).kind = kind
                      /\ Of(kind, slug).scope = scope /\ Of(kind, slug).target = slug
  BY DEF ProposalOf
<1>2. \A q \in BuildPlacementProposals(answer, notes, scope) :
        \/ q = Of("claims", q.target) /\ q.target \in candidates
        \/ q = Of("new_page", q.target) /\ q.target \in NewSlugs(answer)
  <2> SUFFICES ASSUME NEW q \in BuildPlacementProposals(answer, notes, scope)
               PROVE  \/ q = Of("claims", q.target) /\ q.target \in candidates
                      \/ q = Of("new_page", q.target) /\ q.target \in NewSlugs(answer)
    OBVIOUS
  <2>1. \/ \E k \in DOMAIN answer.decisions :
             /\ answer.decisions[k].action = "attach"
             /\ q = Of("claims", answer.decisions[k].to)
        \/ \E slug \in NewSlugs(answer) : q = Of("new_page", slug)
    BY DEF BuildPlacementProposals
  <2>2. \A k \in DOMAIN answer.decisions :
          answer.decisions[k].action = "attach" => answer.decisions[k].to \in candidates
    BY DEF ValidPlacement, GoodDecisions
  <2> HIDE DEF Of, candidates
  <2> QED
    BY <1>1, <2>1, <2>2
<1>3. \A slug \in NewSlugs(answer) : slug \notin taken
  BY DEF ValidPlacement, GoodPages, NewSlugs
<1>4. \A slug : <<scope, slug>> \in prun.slugs \cup prun.pending => slug \in taken
  BY DEF TakenSlugs
<1>5. \A slug \in candidates : <<scope, slug>> \in Indexed
  BY CandidatesAreIndexed
<1> HIDE DEF Of, candidates, taken
<1>6. {"kind", "scope", "target", "cites"} \subseteq DOMAIN p
  BY <1>1, <1>2
<1>7. p.kind # "new_page" => Place(p) \in Indexed
  BY <1>1, <1>2, <1>5 DEF Place
<1>8. ASSUME p.kind = "new_page"
      PROVE  /\ Place(p) \notin prun.slugs \cup prun.pending
             /\ \A q \in BuildPlacementProposals(answer, notes, scope) \ {p} :
                  q.kind = "new_page" => Place(q) # Place(p)
  <2>1. p = Of("new_page", p.target) /\ p.target \in NewSlugs(answer)
    BY <1>1, <1>2, <1>8
  <2>2. Place(p) = <<scope, p.target>> /\ Place(p) \notin prun.slugs \cup prun.pending
    BY <1>1, <1>3, <1>4, <2>1 DEF Place
  <2>3. ASSUME NEW q \in BuildPlacementProposals(answer, notes, scope),
               q.kind = "new_page", Place(q) = Place(p)
        PROVE  q = p
    <3>1. q.target = p.target
      BY <2>2, <2>3, <1>1, <1>2 DEF Place
    <3>2. q = Of("new_page", q.target)
      BY <1>1, <1>2, <2>3
    <3> QED
      BY <2>1, <3>1, <3>2
  <2> QED
    BY <2>2, <2>3
<1> QED
  BY <1>6, <1>7, <1>8

LEMMA StartKeepsApart ==
  ASSUME ApartInv, NEW options, StartRun(options)
  PROVE  ApartInv'
<1>1. /\ prun'.pc = "scanned" /\ RunFields \subseteq DOMAIN prun' /\ prun'.slugs = existing
      /\ prun'.pending = {} /\ prun'.filed = {}
      /\ UNCHANGED <<db, inbox, existing, crossed>>
  BY DEF StartRun, RunFields
<1>2. ProposalShape' /\ NewPagesApart' /\ Indexed' \subseteq existing'
  BY <1>1 DEF ApartInv, ProposalShape, NewPagesApart, Pending, Indexed
<1>3. RunApart'
  BY <1>1 DEF RunApart, Known
<1> QED
  BY <1>2, <1>3 DEF ApartInv

\* A step that changes of the vault, the inbox and the index nothing, and of the
\* run what leaves RunApart.
LEMMA QuietKeepsApart ==
  ASSUME ApartInv, UNCHANGED <<db, inbox, existing, crossed>>, prun' # NoRun => RunApart'
  PROVE  ApartInv'
BY DEF ApartInv, ProposalShape, NewPagesApart, Pending, Indexed

LEMMA LoadKeepsApart ==
  ASSUME ApartInv, LoadProposeState
  PROVE  ApartInv'
<1>1. /\ prun # NoRun /\ RunApart /\ prun.pc = "scanned"
      /\ UNCHANGED <<db, inbox, existing, crossed>>
  BY DEF LoadProposeState, ApartInv
<1>2. /\ prun'.pc = "loaded" /\ RunFields \subseteq DOMAIN prun' /\ prun'.slugs = prun.slugs
      /\ prun'.pending = prun.pending /\ prun'.filed = prun.filed
  BY <1>1 DEF LoadProposeState, RunApart, RunFields
<1>3. RunApart'
  BY <1>1, <1>2 DEF RunApart, Known
<1> QED
  BY <1>1, <1>3, QuietKeepsApart

LEMMA ReadKeepsApart ==
  ASSUME ApartInv, ReadPending
  PROVE  ApartInv'
<1> DEFINE left == Undecided(prun.notes, prun.state, prun.options)
           run  == [prun EXCEPT !.pending = Targets(Pending)]
<1>1. /\ prun # NoRun /\ RunApart /\ prun.pc = "loaded"
      /\ prun' = Onward(run, left)
      /\ UNCHANGED <<db, inbox, existing, crossed>>
  BY DEF ReadPending, ApartInv
<1> HIDE DEF left
<1>2. ASSUME prun' # NoRun
      PROVE  /\ prun'.pc = "place" /\ RunFields \subseteq DOMAIN prun' /\ prun'.slugs = prun.slugs
             /\ prun'.pending = Targets(Pending) /\ prun'.filed = prun.filed
  BY <1>1, <1>2 DEF Onward, RunApart, RunFields
<1>3. ASSUME prun' # NoRun PROVE RunApart'
  BY <1>1, <1>2, <1>3 DEF RunApart, Known, Pending
<1> QED
  BY <1>1, <1>3, QuietKeepsApart

LEMMA PlaceKeepsApart ==
  ASSUME ApartInv, PlaceBatch
  PROVE  ApartInv'
<1> DEFINE notes == InOrder(prun.notes, NextBatch(prun))
           left == prun.left \ NextBatch(prun)
           semantic == prun.options.semantic
<1>1. /\ prun # NoRun /\ RunApart /\ prun.pc = "place"
      /\ UNCHANGED <<db, inbox, existing, crossed>>
  BY DEF PlaceBatch, ApartInv
<1>0. PICK scope \in Scopes : \E answer \in BatchAnswers(prun, notes, scope) :
        LET staged == StageOutcome(prun, answer, notes, scope)
        IN prun' = IF \/ answer = NoAnswer
                      \/ Cardinality(staged.next) = Cardinality(prun.state) /\ staged.changes = {}
                   THEN Onward(prun, left)
                   ELSE [prun EXCEPT !.pc = "write", !.left = left, !.todo = staged.changes,
                                     !.next = staged.next, !.filed = Targets(staged.changes)]
  BY Zenon DEF PlaceBatch
<1> DEFINE proposals(answer) == BuildPlacementProposals(answer, notes, scope)
           Staged(answer) == StageOutcome(prun, answer, notes, scope)
           Write(answer) == [prun EXCEPT !.pc = "write", !.left = left,
                                         !.todo = Staged(answer).changes,
                                         !.next = Staged(answer).next,
                                         !.filed = Targets(Staged(answer).changes)]
<1>2. PICK answer \in BatchAnswers(prun, notes, scope) :
        \/ prun' = Onward(prun, left)
        \/ answer # NoAnswer /\ prun' = Write(answer)
  BY <1>0
<1>3. CASE prun' = Onward(prun, left)
  <2> HIDE DEF left
  <2>1. ASSUME prun' # NoRun
        PROVE  /\ prun'.pc = "place" /\ RunFields \subseteq DOMAIN prun'
               /\ prun'.slugs = prun.slugs /\ prun'.pending = prun.pending
               /\ prun'.filed = prun.filed
    BY <1>1, <1>3, <2>1 DEF Onward, RunApart, RunFields
  <2>2. ASSUME prun' # NoRun PROVE RunApart'
    BY <1>1, <2>1, <2>2 DEF RunApart, Known, Pending
  <2> QED
    BY <1>1, <2>2, QuietKeepsApart
<1>4. CASE answer # NoAnswer /\ prun' = Write(answer)
  <2> DEFINE changes == Staged(answer).changes
  <2>1. changes \subseteq proposals(answer)
    BY DEF StageOutcome
  <2>2. ValidPlacement(answer, notes, BatchCandidates(notes, scope, semantic),
                       TakenSlugs(prun, scope))
    <3> DEFINE candidates == BatchCandidates(notes, scope, semantic)
               taken      == TakenSlugs(prun, scope)
    <3>1. PICK first \in Answers \cup {NoAnswer}, second \in Answers \cup {NoAnswer} :
            answer = ProposePlacement(first, second, notes, candidates, taken)
      BY DEF BatchAnswers
    <3> HIDE DEF notes, candidates, taken
    <3>2. ValidPlacement(answer, notes, candidates, taken)
      BY <1>4, <3>1, AnswerIsValid
    <3> QED
      BY <3>2 DEF candidates, taken
  <2>3. /\ prun'.pc = "write" /\ RunFields \subseteq DOMAIN prun' /\ prun'.slugs = prun.slugs
        /\ prun'.pending = prun.pending /\ prun'.todo = changes
        /\ prun'.filed = Targets(changes)
    <3> HIDE DEF Staged, left
    <3> QED
      BY <1>1, <1>4 DEF RunApart, RunFields
  <2> HIDE DEF Staged, notes, left, semantic
  <2>4. ASSUME NEW p \in changes
        PROVE  /\ p.kind # "new_page" => Place(p) \in existing
               /\ p.kind = "new_page" =>
                    /\ Place(p) \notin prun.slugs \cup prun.pending
                    /\ \A q \in changes \ {p} : q.kind = "new_page" => Place(q) # Place(p)
    <3>1. Indexed \subseteq existing
      BY DEF ApartInv
    <3> QED
      BY <2>1, <2>2, <3>1, BatchIsApart
  <2> HIDE DEF changes
  <2>5. TodoApart'
    <3> SUFFICES ASSUME NEW p \in changes
                 PROVE  /\ Place(p) \in Targets(changes)
                        /\ p.kind # "new_page" => Place(p) \in existing
                        /\ p.kind = "new_page" /\ Place(p) \notin crossed =>
                             /\ \A q \in changes \ {p} : Place(q) # Place(p)
                             /\ Place(p) \notin existing \cup Targets(Pending)
      BY <1>1, <2>3 DEF TodoApart, Place, Pending
    <3>1. Place(p) \in Targets(changes)
      BY DEF Place, Targets
    <3>2. /\ existing \subseteq prun.slugs \cup prun.pending \cup crossed
          /\ Targets(Pending) \subseteq prun.slugs \cup prun.pending
      BY <1>1 DEF RunApart, Known
    <3> QED
      BY <2>4, <3>1, <3>2
  <2>6. RunApart'
    BY <1>1, <2>3, <2>5 DEF RunApart, Known, Pending
  <2> QED
    BY <1>1, <2>6, QuietKeepsApart
<1> QED
  BY <1>2, <1>3, <1>4

\* A proposal is filed: its page is apart from all that is pending by then.
LEMMA FileKeepsApart ==
  ASSUME ApartInv, prun # NoRun, prun.pc = "write", NEW p \in prun.todo, FileProposal(p),
         UNCHANGED <<db, existing, crossed>>
  PROVE  ApartInv'
<1> DEFINE filed == [id |-> Cardinality(inbox) + 1, kind |-> p.kind, scope |-> p.scope,
                     target |-> p.target, cites |-> p.cites, status |-> "pending"]
<1>1. inbox' = inbox \cup {filed} /\ prun' = [prun EXCEPT !.todo = @ \ {p}]
  BY DEF FileProposal
<1>2. /\ filed.kind = p.kind /\ Place(filed) = Place(p) /\ filed.status = "pending"
      /\ {"kind", "scope", "target", "cites", "status"} \subseteq DOMAIN filed
  BY DEF Place
<1> HIDE DEF filed
<1>3. RunApart /\ TodoApart /\ ProposalShape /\ NewPagesApart
  BY DEF ApartInv, RunApart
<1>4. /\ prun'.pc = "write" /\ RunFields \subseteq DOMAIN prun' /\ prun'.slugs = prun.slugs
      /\ prun'.pending = prun.pending /\ prun'.filed = prun.filed
      /\ prun'.todo = prun.todo \ {p}
  BY <1>1, <1>3 DEF RunApart, RunFields
<1>5. Pending' = Pending \cup {filed} /\ Targets(Pending') = Targets(Pending) \cup {Place(p)}
  BY <1>1, <1>2 DEF Pending, Targets, Place
<1>6. ProposalShape'
  BY <1>1, <1>2, <1>3 DEF ProposalShape
<1>7. NewPagesApart'
  <2> SUFFICES ASSUME NEW r \in Pending', r.kind = "new_page", Place(r) \notin crossed
               PROVE  /\ Place(r) \notin existing
                      /\ \A q \in Pending' \ {r} : Place(q) # Place(r)
    BY DEF NewPagesApart, Place
  <2>1. CASE r = filed
    <3>1. Place(r) \notin existing \cup Targets(Pending)
      BY <1>2, <1>3, <2>1 DEF TodoApart
    <3>2. \A q \in Pending : Place(q) # Place(r)
      BY <3>1 DEF Targets, Place
    <3> QED
      BY <1>5, <2>1, <3>1, <3>2
  <2>2. CASE r # filed
    <3>1. /\ r \in Pending /\ Place(r) \notin existing
          /\ \A q \in Pending \ {r} : Place(q) # Place(r)
      BY <1>3, <1>5, <2>2 DEF NewPagesApart, Place
    <3>2. Place(filed) # Place(r)
      <4>1. CASE p.kind = "new_page"
        <5>1. Place(p) \in crossed \/ Place(p) \notin Targets(Pending)
          BY <1>3, <4>1 DEF TodoApart
        <5>2. Place(r) \in Targets(Pending)
          BY <3>1 DEF Targets, Place
        <5> QED
          BY <1>2, <5>1, <5>2
      <4>2. CASE p.kind # "new_page"
        BY <1>2, <1>3, <3>1, <4>2 DEF TodoApart
      <4> QED
        BY <4>1, <4>2
    <3> QED
      BY <1>5, <3>1, <3>2
  <2> QED
    BY <2>1, <2>2
<1>8. TodoApart'
  <2> SUFFICES ASSUME NEW r \in prun.todo \ {p}
               PROVE  /\ Place(r) \in prun.filed
                      /\ r.kind # "new_page" => Place(r) \in existing
                      /\ r.kind = "new_page" /\ Place(r) \notin crossed =>
                           /\ \A q \in (prun.todo \ {p}) \ {r} : Place(q) # Place(r)
                           /\ Place(r) \notin existing \cup Targets(Pending')
    BY <1>4 DEF TodoApart, Place
  <2>1. r.kind = "new_page" /\ Place(r) \notin crossed => Place(r) # Place(p)
    BY <1>3 DEF TodoApart
  <2> QED
    BY <1>3, <1>5, <2>1 DEF TodoApart
<1>9. RunApart'
  <2>1. Place(p) \in prun.filed
    BY <1>3 DEF TodoApart
  <2> QED
    BY <1>3, <1>4, <1>5, <1>8, <2>1 DEF RunApart, Known
<1> QED
  BY <1>6, <1>7, <1>9 DEF ApartInv, Indexed

LEMMA WriteKeepsApart ==
  ASSUME ApartInv, WriteChange
  PROVE  ApartInv'
<1>1. prun # NoRun /\ prun.pc = "write" /\ RunApart /\ UNCHANGED <<db, existing, crossed>>
  BY DEF WriteChange, ApartInv
<1>2. CASE \E p \in prun.todo : FileProposal(p)
  BY <1>1, <1>2, FileKeepsApart
<1>3. CASE prun' = [prun EXCEPT !.pc = "record"] /\ UNCHANGED inbox
  <2>1. /\ prun'.pc = "record" /\ RunFields \subseteq DOMAIN prun' /\ prun'.slugs = prun.slugs
        /\ prun'.pending = prun.pending /\ prun'.filed = prun.filed
    BY <1>1, <1>3 DEF RunApart, RunFields
  <2>2. RunApart'
    BY <1>1, <1>3, <2>1 DEF RunApart, Known, Pending
  <2> QED
    BY <1>1, <1>3, <2>2, QuietKeepsApart
<1> QED
  BY <1>2, <1>3 DEF WriteChange

LEMMA CommitKeepsApart ==
  ASSUME ApartInv, CommitBatch
  PROVE  ApartInv'
<1> DEFINE run == [prun EXCEPT !.state = prun.next, !.slugs = @ \cup prun.filed]
<1>1. /\ prun # NoRun /\ prun.pc = "record" /\ RunApart
      /\ prun' = Onward(run, prun.left)
      /\ UNCHANGED <<db, inbox, existing, crossed>>
  BY DEF CommitBatch, ApartInv
<1>2. ASSUME prun' # NoRun
      PROVE  /\ prun'.pc = "place" /\ RunFields \subseteq DOMAIN prun'
             /\ prun'.slugs = prun.slugs \cup prun.filed
             /\ prun'.pending = prun.pending /\ prun'.filed = prun.filed
  BY <1>1, <1>2 DEF Onward, RunApart, RunFields
<1>3. ASSUME prun' # NoRun PROVE RunApart'
  BY <1>1, <1>2, <1>3 DEF RunApart, Known, Pending
<1> QED
  BY <1>1, <1>3, QuietKeepsApart

\* The owner takes a proposal out of the inbox; the page an acceptance creates is
\* one the run knows of, or is counted as crossed.
LEMMA OwnerKeepsApart ==
  ASSUME ApartInv, OwnerActs
  PROVE  ApartInv'
<1>1. PICK p \in inbox, status \in {"accepted", "rejected"} : OwnerDecides(p, status)
  BY DEF OwnerActs
<1> DEFINE told == [p EXCEPT !.status = status]
<1>2. /\ p \in Pending /\ inbox' = (inbox \ {p}) \cup {told} /\ UNCHANGED <<db, prun>>
  BY <1>1 DEF OwnerDecides
<1>3. told.status = status /\ DOMAIN told = DOMAIN p
  BY DEF ApartInv, ProposalShape
<1> HIDE DEF told
<1>4. Pending' \subseteq Pending \ {p} /\ Targets(Pending') \subseteq Targets(Pending)
  BY <1>1, <1>2, <1>3 DEF Pending, Targets
<1>5. ProposalShape'
  BY <1>2, <1>3 DEF ApartInv, ProposalShape
<1>6. \/ UNCHANGED <<existing, crossed>>
      \/ /\ p.kind = "new_page" /\ existing' = existing \cup {Place(p)}
         /\ crossed' = IF prun # NoRun /\ prun.pc \in {"scanned", "loaded"}
                       THEN crossed \cup {Place(p)} ELSE crossed
  BY <1>1 DEF OwnerDecides, Place
<1>7. NewPagesApart'
  <2> SUFFICES ASSUME NEW r \in Pending', r.kind = "new_page", Place(r) \notin crossed'
               PROVE  /\ Place(r) \notin existing'
                      /\ \A q \in Pending' \ {r} : Place(q) # Place(r)
    BY DEF NewPagesApart, Place
  <2>1. /\ r \in Pending \ {p} /\ Place(r) \notin crossed
        /\ Place(r) \notin existing
        /\ \A q \in Pending \ {r} : Place(q) # Place(r)
    BY <1>4, <1>6 DEF ApartInv, NewPagesApart, Place
  <2> QED
    BY <1>2, <1>4, <1>6, <2>1
<1>8. ASSUME prun # NoRun PROVE RunApart'
  <2>1. RunApart
    BY <1>8 DEF ApartInv
  <2>2. Place(p) \in Targets(Pending)
    BY <1>2 DEF Place, Targets
  <2>3. existing' \subseteq Known \cup crossed'
    BY <1>6, <1>8, <2>1, <2>2 DEF RunApart
  <2>4. prun.pc = "write" => TodoApart'
    <3> SUFFICES ASSUME prun.pc = "write", NEW r \in prun.todo, r.kind = "new_page",
                        Place(r) \notin crossed'
                 PROVE  Place(r) \notin existing' \cup Targets(Pending')
      BY <1>2, <1>6, <2>1 DEF RunApart, TodoApart, Place
    <3>1. Place(r) \notin existing \cup Targets(Pending)
      BY <1>6, <2>1 DEF RunApart, TodoApart
    <3> QED
      BY <1>4, <1>6, <2>2, <3>1
  <2>5. Known' = Known
    BY <1>2 DEF Known
  <2> QED
    BY <1>2, <1>4, <2>1, <2>3, <2>4, <2>5 DEF RunApart
<1>9. Indexed' \subseteq existing'
  BY <1>2, <1>6 DEF ApartInv, Indexed
<1> QED
  BY <1>2, <1>5, <1>7, <1>8, <1>9 DEF ApartInv

LEMMA RunKeepsApart ==
  ASSUME ApartInv, RunStep
  PROVE  ApartInv'
<1>1. ASSUME RunStops PROVE ApartInv'
  BY <1>1, QuietKeepsApart DEF RunStops
<1> QED
  BY <1>1, LoadKeepsApart, ReadKeepsApart, PlaceKeepsApart, WriteKeepsApart, CommitKeepsApart
  DEF RunStep

\* Whatever else is done leaves new pages apart, as long as what is indexed is in
\* the vault.
LEMMA OthersKeepApart ==
  ASSUME ApartInv, UNCHANGED <<inbox, prun, existing, crossed>>, Indexed' \subseteq existing
  PROVE  ApartInv'
BY DEF ApartInv, ProposalShape, NewPagesApart, RunApart, Known, TodoApart, Place, Pending

-------------------------------------------------------------------------------
(* What is filed, and where. *)

\* A new page is proposed under a name of a scope.
Filable(p) ==
  /\ p.kind \in {"claims", "new_page"}
  /\ p.kind = "new_page" => Place(p) \in Scopes \X Names

FiledInv ==
  /\ ProposalShape
  /\ existing \subseteq Scopes \X Names
  /\ \A p \in inbox : Filable(p) /\ p.status \in {"pending", "accepted", "rejected"}
  /\ prun # NoRun => /\ RunFields \subseteq DOMAIN prun
                     /\ prun.pc = "write" => \A p \in prun.todo : Filable(p)

LEMMA PlaceFiles ==
  ASSUME FiledInv, PlaceBatch
  PROVE  FiledInv'
<1> DEFINE notes == InOrder(prun.notes, NextBatch(prun))
           left == prun.left \ NextBatch(prun)
<1>1. PICK scope \in Scopes : \E answer \in BatchAnswers(prun, notes, scope) :
        LET staged == StageOutcome(prun, answer, notes, scope)
        IN prun' = IF \/ answer = NoAnswer
                      \/ Cardinality(staged.next) = Cardinality(prun.state) /\ staged.changes = {}
                   THEN Onward(prun, left)
                   ELSE [prun EXCEPT !.pc = "write", !.left = left, !.todo = staged.changes,
                                     !.next = staged.next, !.filed = Targets(staged.changes)]
  BY Zenon DEF PlaceBatch
<1> DEFINE Changes(answer) == StageOutcome(prun, answer, notes, scope).changes
           Next(answer) == StageOutcome(prun, answer, notes, scope).next
<1>2. PICK answer \in BatchAnswers(prun, notes, scope) :
        \/ prun' = Onward(prun, left)
        \/ /\ answer # NoAnswer
           /\ prun' = [prun EXCEPT !.pc = "write", !.left = left, !.todo = Changes(answer),
                                   !.next = Next(answer), !.filed = Targets(Changes(answer))]
  BY <1>1
<1>3. prun # NoRun /\ UNCHANGED <<inbox, existing>>
  BY DEF PlaceBatch
<1>4. ASSUME answer # NoAnswer, NEW p \in Changes(answer) PROVE Filable(p)
  <2> DEFINE candidates == BatchCandidates(notes, scope, prun.options.semantic)
             taken      == TakenSlugs(prun, scope)
  <2>1. PICK first \in Answers \cup {NoAnswer}, second \in Answers \cup {NoAnswer} :
          answer = ProposePlacement(first, second, notes, candidates, taken)
    BY DEF BatchAnswers
  <2>2. p \in BuildPlacementProposals(answer, notes, scope)
    BY <1>4 DEF StageOutcome
  <2> HIDE DEF notes, candidates, taken
  <2>3. ValidPlacement(answer, notes, candidates, taken)
    BY <1>4, <2>1, AnswerIsValid
  <2>4. NewSlugs(answer) \subseteq Names
    BY <2>3, SlugsAreNames DEF ValidPlacement, GoodPages, NewSlugs
  <2>5. \/ \E slug : p = ProposalOf(answer, notes, scope, "claims", slug)
        \/ \E slug \in NewSlugs(answer) : p = ProposalOf(answer, notes, scope, "new_page", slug)
    BY <2>2 DEF BuildPlacementProposals
  <2> QED
    BY <2>4, <2>5 DEF ProposalOf, Filable, Place
<1> HIDE DEF Changes, Next, notes, left
<1>5. CASE prun' = Onward(prun, left)
  BY <1>3, <1>5 DEF Onward, FiledInv, ProposalShape, RunFields
<1>6. CASE /\ answer # NoAnswer
           /\ prun' = [prun EXCEPT !.pc = "write", !.left = left, !.todo = Changes(answer),
                                   !.next = Next(answer), !.filed = Targets(Changes(answer))]
  <2>1. RunFields \subseteq DOMAIN prun' /\ prun'.todo = Changes(answer)
    BY <1>3, <1>6 DEF FiledInv, RunFields
  <2> QED
    BY <1>3, <1>4, <1>6, <2>1 DEF FiledInv, ProposalShape
<1> QED
  BY <1>2, <1>5, <1>6

LEMMA WriteFiles ==
  ASSUME FiledInv, WriteChange
  PROVE  FiledInv'
<1>1. prun # NoRun /\ prun.pc = "write" /\ RunFields \subseteq DOMAIN prun /\ UNCHANGED existing
  BY DEF WriteChange, FiledInv
<1>2. ASSUME NEW p \in prun.todo, FileProposal(p) PROVE FiledInv'
  <2> DEFINE filed == [id |-> Cardinality(inbox) + 1, kind |-> p.kind, scope |-> p.scope,
                       target |-> p.target, cites |-> p.cites, status |-> "pending"]
  <2>1. inbox' = inbox \cup {filed} /\ prun' = [prun EXCEPT !.todo = @ \ {p}]
    BY <1>2 DEF FileProposal
  <2>2. /\ filed.kind = p.kind /\ Place(filed) = Place(p) /\ filed.status = "pending"
        /\ {"kind", "scope", "target", "cites", "status"} \subseteq DOMAIN filed
    BY DEF Place
  <2> HIDE DEF filed
  <2>3. Filable(filed)
    BY <1>1, <1>2, <2>2 DEF FiledInv, Filable
  <2>4. RunFields \subseteq DOMAIN prun' /\ prun'.todo = prun.todo \ {p} /\ prun'.pc = "write"
    BY <1>1, <2>1 DEF RunFields
  <2>5. \A q \in prun'.todo : Filable(q)
    BY <1>1, <2>4 DEF FiledInv
  <2> QED
    BY <1>1, <2>1, <2>2, <2>3, <2>4, <2>5 DEF FiledInv, ProposalShape
<1>3. CASE prun' = [prun EXCEPT !.pc = "record"] /\ UNCHANGED inbox
  <2>1. RunFields \subseteq DOMAIN prun' /\ prun'.pc = "record"
    BY <1>1, <1>3 DEF RunFields
  <2> QED
    BY <1>1, <1>3, <2>1 DEF FiledInv, ProposalShape
<1> QED
  BY <1>2, <1>3 DEF WriteChange

LEMMA OwnerFiles ==
  ASSUME FiledInv, OwnerActs
  PROVE  FiledInv'
<1>1. PICK p \in inbox, status \in {"accepted", "rejected"} : OwnerDecides(p, status)
  BY DEF OwnerActs
<1> DEFINE told == [p EXCEPT !.status = status]
<1>2. inbox' = (inbox \ {p}) \cup {told} /\ UNCHANGED prun
  BY <1>1 DEF OwnerDecides
<1>3. /\ told.kind = p.kind /\ Place(told) = Place(p) /\ told.status = status
      /\ {"kind", "scope", "target", "cites", "status"} \subseteq DOMAIN told
  BY DEF FiledInv, ProposalShape, Place
<1> HIDE DEF told
<1>4. Filable(told)
  BY <1>3 DEF FiledInv, Filable
<1>5. existing' \subseteq Scopes \X Names
  <2>1. \/ existing' = existing
        \/ p.kind = "new_page" /\ existing' = existing \cup {Place(p)}
    BY <1>1 DEF OwnerDecides, Place
  <2> QED
    BY <2>1 DEF FiledInv, Filable
<1> QED
  BY <1>2, <1>3, <1>4, <1>5 DEF FiledInv, ProposalShape

LEMMA RunFiles ==
  ASSUME FiledInv, RunStep \/ \E options : StartRun(options)
  PROVE  FiledInv'
<1>1. ASSUME UNCHANGED <<inbox, existing>>,
             prun' # NoRun => RunFields \subseteq DOMAIN prun' /\ prun'.pc # "write"
      PROVE  FiledInv'
  BY <1>1 DEF FiledInv, ProposalShape
<1>2. ASSUME NEW options, StartRun(options) PROVE FiledInv'
  BY <1>1, <1>2 DEF StartRun, RunFields
<1>3. CASE LoadProposeState
  <2>1. prun # NoRun /\ RunFields \subseteq DOMAIN prun
    BY <1>3 DEF LoadProposeState, FiledInv
  <2>2. RunFields \subseteq DOMAIN prun' /\ prun'.pc = "loaded"
    BY <1>3, <2>1 DEF LoadProposeState, RunFields
  <2> QED
    BY <1>1, <1>3, <2>2 DEF LoadProposeState
<1>4. ASSUME NEW run, RunFields \subseteq DOMAIN run, NEW left, prun' = Onward(run, left),
             UNCHANGED <<inbox, existing>>
      PROVE  FiledInv'
  BY <1>1, <1>4 DEF Onward, RunFields
<1>5. CASE ReadPending
  <2> DEFINE run == [prun EXCEPT !.pending = Targets(Pending)]
  <2>1. RunFields \subseteq DOMAIN run
    BY <1>5 DEF ReadPending, FiledInv
  <2> QED
    BY <1>4, <1>5, <2>1 DEF ReadPending
<1>6. CASE CommitBatch
  <2> DEFINE run == [prun EXCEPT !.state = prun.next, !.slugs = @ \cup prun.filed]
  <2>1. RunFields \subseteq DOMAIN run
    BY <1>6 DEF CommitBatch, FiledInv
  <2> QED
    BY <1>4, <1>6, <2>1 DEF CommitBatch
<1>7. CASE RunStops
  BY <1>1, <1>7 DEF RunStops
<1> QED
  BY <1>2, <1>3, <1>5, <1>6, <1>7, PlaceFiles, WriteFiles DEF RunStep

===============================================================================
