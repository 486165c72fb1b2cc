------------------------------ MODULE ProposeRun -------------------------------
(* `balise compile propose` (internal/compile/propose_run.go): the remembered  *)
(* notes no run has decided are batched by scope, placed by a model and filed  *)
(* as proposals.  A batch's commit writes its proposals and then the state     *)
(* file.  Meanwhile agents remember, the owner decides, a run may be killed.   *)
(*                                                                             *)
(* memory[path] is a log page's file: << >> for none, else its header and its  *)
(* entries.  The index does not change under one batch's search.               *)
EXTENDS Placement, ReadTools

CONSTANTS
  MemoryPaths,       \* records [scope, agent, day]
  MemoryOrder,       \* ... in the order List names them
  ScopeOrder,
  LogTypes,
  CandidatesPerNote, MaxCandidates,
  NoRun

VARIABLES
  db,         \* the index
  memory,
  existing,   \* scope and slug of each page of the vault
  inbox,      \* the proposals filed, with their status
  decided,    \* propose-pages-state.json: the keys it holds and their actions
  prun,       \* the run in progress, or NoRun
  started,    \* runs started
  crossed     \* history: the targets the owner accepted between a run's
              \* reading of the pages and of the pending proposals

proposeVars == <<db, memory, existing, inbox, decided, prun, started, crossed>>

\* scanForNotes: each note at the place of its file in List's order and its own in
\* the file.  A key is the note itself (NoteKey).
AllNotes ==
  LET places == UNION {{k} \X (1..(Len(memory[MemoryOrder[k]]) - 1)) : k \in DOMAIN MemoryOrder}
      Line(p) == memory[MemoryOrder[p[1]]][p[2] + 1]
  IN [p \in places |->
        [path |-> MemoryOrder[p[1]], at |-> Line(p).at, text |-> Line(p).text]]

\* The order in which a run comes to the notes: scope by scope, as they were found.
Sooner(notes, p, q) ==
  LET Rank(r) == CHOOSE k \in DOMAIN ScopeOrder : ScopeOrder[k] = notes[r].path.scope
  IN \/ Rank(p) < Rank(q)
     \/ Rank(p) = Rank(q) /\ (p[1] < q[1] \/ (p[1] = q[1] /\ p[2] < q[2]))

\* The first places of some, as many as asked for.
FirstPlaces(notes, places, most) ==
  {p \in places : Cardinality({q \in places : Sooner(notes, q, p)}) < most}

\* The places of the undecided notes of the scopes asked for, up to the limit.
Undecided(notes, state, options) ==
  LET keys == {entry.key : entry \in state}
      all  == {p \in DOMAIN notes : /\ notes[p] \notin keys
                                    /\ options.scope \in {None, notes[p].path.scope}}
  IN IF options.limit > 0 THEN FirstPlaces(notes, all, options.limit) ELSE all

\* The next batch: of the notes left, the first of the first scope with any.
NextBatch(run) ==
  LET Scope(p) == run.notes[p].path.scope
      first    == {p \in run.left : \A q \in run.left :
                     Scope(q) = Scope(p) \/ Sooner(run.notes, p, q)}
  IN FirstPlaces(run.notes, first, run.options.batch)

InOrder(notes, places) ==
  [k \in 1..Cardinality(places) |->
     notes[CHOOSE p \in places : Cardinality({q \in places : Sooner(notes, q, p)}) = k - 1]]

Pending == {p \in inbox : p.status = "pending"}

Targets(proposals) == {<<p.scope, p.target>> : p \in proposals}

\* With options [scope, limit, batch, semantic].
StartRun(options) ==
  /\ prun = NoRun
  /\ started' = started + 1
  /\ prun' = [pc |-> "scanned", options |-> options, notes |-> AllNotes, slugs |-> existing,
              state |-> {}, pending |-> {}, left |-> {}, todo |-> {}, next |-> {},
              filed |-> {}]
  /\ UNCHANGED <<db, memory, existing, inbox, decided, crossed>>

LoadProposeState ==
  /\ prun # NoRun /\ prun.pc = "scanned"
  /\ prun' = [prun EXCEPT !.pc = "loaded", !.state = decided]
  /\ UNCHANGED <<db, memory, existing, inbox, decided, started, crossed>>

\* The run after a batch: the next one, or the end.
Onward(run, left) == IF left = {} THEN NoRun ELSE [run EXCEPT !.pc = "place", !.left = left]

\* pendingProposalsByTarget, once for all batches.
ReadPending ==
  /\ prun # NoRun /\ prun.pc = "loaded"
  /\ prun' = Onward([prun EXCEPT !.pending = Targets(Pending)],
                    Undecided(prun.notes, prun.state, prun.options))
  /\ UNCHANGED <<db, memory, existing, inbox, decided, started, crossed>>

\* IndexCandidateFinder.Candidates: searched in the one scope, log pages left
\* out; the slugs of the first hits, by their places.
Candidates(scope, text, semantic) ==
  LET hits == SearchClaims(db, {scope}, text, FALSE, 3 * CandidatesPerNote, semantic)
      kept == {k \in DOMAIN hits : hits[k].type \notin LogTypes}
  IN [k \in {j \in kept : Cardinality({i \in kept : i < j}) < CandidatesPerNote} |->
        hits[k].slug]

\* placementInput: the candidates of all notes, each once, up to a cap; the slugs
\* that are taken.
BatchCandidates(notes, scope, semantic) ==
  LET found   == [n \in DOMAIN notes |-> Candidates(scope, notes[n].text, semantic)]
      places  == UNION {{<<n, k>> : k \in DOMAIN found[n]} : n \in DOMAIN notes}
      Slug(p) == found[p[1]][p[2]]
      Earlier(p, q) == p[1] < q[1] \/ (p[1] = q[1] /\ p[2] < q[2])
      new     == {p \in places : \A q \in places : Earlier(q, p) => Slug(q) # Slug(p)}
  IN {Slug(p) : p \in {q \in new : Cardinality({r \in new : Earlier(r, q)}) < MaxCandidates}}

TakenSlugs(run, scope) == {at[2] : at \in {t \in run.slugs \cup run.pending : t[1] = scope}}

Busy(run, p) == p.kind = "claims" /\ <<p.scope, p.target>> \in run.pending

\* Mutant: a note whose page is busy is recorded with the others.
StageRecordingAll(run, answer, notes, scope) ==
  LET proposals == BuildPlacementProposals(answer, notes, scope)
  IN [changes |-> {p \in proposals : ~Busy(run, p)},
      next    |-> {e \in run.state : e.key \notin ToSet(notes)}
                    \cup {[key |-> n, actions |-> ActionsOf(answer, notes, n)] : n \in ToSet(notes)}]

\* stageOutcome: a claims proposal for a busy page is dropped, and the notes it
\* cites are left for a later run.
StageOutcome(run, answer, notes, scope) ==
  LET proposals == BuildPlacementProposals(answer, notes, scope)
      deferred  == UNION {p.cites : p \in {q \in proposals : Busy(run, q)}}
      done      == {n \in ToSet(notes) : Cites(n) \notin deferred}
  IN [changes |-> {p \in proposals : ~Busy(run, p)},
      next    |-> {e \in run.state : e.key \notin done}
                    \cup {[key |-> n, actions |-> ActionsOf(answer, notes, n)] : n \in done}]

\* What one model call about a batch, perhaps a second, may come to.
BatchAnswers(run, notes, scope) ==
  LET candidates == BatchCandidates(notes, scope, run.options.semantic)
      taken      == TakenSlugs(run, scope)
  IN {ProposePlacement(first, second, notes, candidates, taken) :
        first, second \in Answers \cup {NoAnswer}}

\* One batch, and what is to be committed.
PlaceBatch ==
  /\ prun # NoRun /\ prun.pc = "place"
  /\ LET batch == NextBatch(prun)
         notes == InOrder(prun.notes, batch)
         left  == prun.left \ batch
     IN \E scope \in Scopes :
          /\ {prun.notes[p].path.scope : p \in batch} = {scope}
          /\ \E answer \in BatchAnswers(prun, notes, scope) :
               LET staged == StageOutcome(prun, answer, notes, scope)
               IN prun' =
                    IF \/ answer = NoAnswer
                       \/ Cardinality(staged.next) = Cardinality(prun.state)
                            /\ staged.changes = {}
                    THEN Onward(prun, left)
                    ELSE [prun EXCEPT !.pc = "write", !.left = left, !.todo = staged.changes,
                                      !.next = staged.next, !.filed = Targets(staged.changes)]
  /\ UNCHANGED <<db, memory, existing, inbox, decided, started, crossed>>

FileProposal(p) ==
  /\ inbox' = inbox \cup {[id |-> Cardinality(inbox) + 1, kind |-> p.kind, scope |-> p.scope,
                           target |-> p.target, cites |-> p.cites, status |-> "pending"]}
  /\ prun' = [prun EXCEPT !.todo = @ \ {p}]

\* The batch's Commit, file by file: the proposals (sorted; here in any order),
\* then the state file.
WriteChange ==
  /\ prun # NoRun /\ prun.pc = "write"
  /\ \/ \E p \in prun.todo : FileProposal(p) /\ UNCHANGED decided
     \/ /\ prun.todo = {}
        /\ decided' = prun.next
        /\ prun' = [prun EXCEPT !.pc = "record"]
        /\ UNCHANGED inbox
  /\ UNCHANGED <<db, memory, existing, started, crossed>>

\* Mutant: the slugs of this batch's proposals stay free for the next one.
CommitBatchForgetful ==
  /\ prun # NoRun /\ prun.pc = "record"
  /\ prun' = Onward([prun EXCEPT !.state = prun.next], prun.left)
  /\ UNCHANGED <<db, memory, existing, inbox, decided, started, crossed>>

\* ... the commit itself; what the batch proposed is taken for the next ones.
CommitBatch ==
  /\ prun # NoRun /\ prun.pc = "record"
  /\ prun' = Onward([prun EXCEPT !.state = prun.next, !.slugs = @ \cup prun.filed], prun.left)
  /\ UNCHANGED <<db, memory, existing, inbox, decided, started, crossed>>

\* A call that fails ends the run as a kill does: with what is written by then.
RunStops ==
  /\ prun # NoRun
  /\ prun' = NoRun
  /\ UNCHANGED <<db, memory, existing, inbox, decided, started, crossed>>

RunStep ==
  \/ LoadProposeState \/ ReadPending \/ PlaceBatch
  \/ WriteChange \/ CommitBatch \/ RunStops

\* The owner's decision (module Review has its steps); accepting a new page
\* creates it, unless its slug is taken by then.
OwnerDecides(p, status) ==
  /\ p \in Pending
  /\ status = "accepted" /\ p.kind = "new_page" => <<p.scope, p.target>> \notin existing
  /\ inbox' = (inbox \ {p}) \cup {[p EXCEPT !.status = status]}
  /\ IF status = "accepted" /\ p.kind = "new_page"
     THEN /\ existing' = existing \cup {<<p.scope, p.target>>}
          /\ crossed' = IF prun # NoRun /\ prun.pc \in {"scanned", "loaded"}
                        THEN crossed \cup {<<p.scope, p.target>>} ELSE crossed
     ELSE UNCHANGED <<existing, crossed>>
  /\ UNCHANGED <<db, memory, decided, prun, started>>

OwnerActs == \E p \in inbox, status \in {"accepted", "rejected"} : OwnerDecides(p, status)

\* propose_run.go:18-20: a note is recorded "only once its proposal (or its
\* skip) is committed alongside": whatever the state file says was placed, some
\* proposal cites, even after a run that died or a page that was busy.
DecidedMeansProposed ==
  \A entry \in decided : \A action \in entry.actions \ {"skip"} :
    \E p \in inbox :
      /\ Cites(entry.key) \in p.cites
      /\ p.kind = IF action = "attach" THEN "claims" ELSE "new_page"

\* propose_run.go:165-168: a new page's slug is no page's and no other pending
\* proposal's, over batches, runs, kills and the owner's decisions; except where
\* the owner accepts a page between a run's two readings of the vault.
NewPagesApart ==
  \A p \in Pending : p.kind = "new_page" /\ <<p.scope, p.target>> \notin crossed =>
    /\ <<p.scope, p.target>> \notin existing
    /\ \A q \in Pending \ {p} : <<q.scope, q.target>> # <<p.scope, p.target>>

===============================================================================
