------------------------------ MODULE ExtractRun ------------------------------
(* extract_claims (internal/compile/run.go, state.go, pending.go): a separate *)
(* process on the same vault.  It reads the pages, its skip state and review/ *)
(* once, asks the model about one page after another, and commits proposals   *)
(* and skip state in batches, each superseding what was pending for its page. *)
EXTENDS Review

CONSTANTS
  Order,           \* the place of each page in the order of the paths
  CommitBatchSize, \* changes in a batch before it is committed
  Limit            \* opts.Limit: pages to attempt, 0 for no limit

StatePath == <<"state">>

ASSUME PagesAreOrdered == Order \in [Slugs -> Nat] /\ IsInjective(Order)

\* A ULID is a number of 128 bits.
ASSUME IdsAreOrdered == ProposalIds \subseteq Nat /\ IsFiniteSet(ProposalIds)

ASSUME LimitsAreCounts == CommitBatchSize \in Nat /\ Limit \in Nat

ASSUME StateHasAPath == StatePath \in Paths

ASSUME AbsentIsNoExtraction ==
  Absent \notin [kind : {"claims"}, target : Slugs, pin : Page,
                 change : [keep : SUBSET NamedIDs, reword : {<< >>}, retire : SUBSET NamedIDs,
                           add : {Additions(i) : i \in ProposalIds}]]

VARIABLES
  run,        \* the process: where it is, and what it has read and not committed
  filed,      \* history: pages, with their bodies, a run wrote a proposal for
  removed     \* history: ids of proposals a run took out of review/

runVars == <<run, filed, removed>>

Resting ==
  [pc |-> "idle", todo |-> {}, attempted |-> 0, state |-> << >>, old |-> << >>,
   batch |-> << >>, writes |-> << >>, fresh |-> {}]

RunInit == Init /\ run = Resting /\ filed = {} /\ removed = {}

\* candidatePages: every page, read once.
Start ==
  /\ run.pc = "idle"
  /\ run' = [Resting EXCEPT
       !.pc = "scan",
       !.todo = {[slug |-> slug, page |-> tree[PagePath(slug)]] :
                   slug \in {s \in Slugs : tree[PagePath(s)] # Absent}}]
  /\ UNCHANGED <<vars, filed, removed>>

\* pendingProposalsByTarget: of several proposals for one page the map keeps the
\* one listed last.
PendingByTarget ==
  [slug \in {s \in Slugs : PendingFor(s) # {}} |->
     LET last == Max(PendingFor(slug))
     IN [id |-> last, proposal |-> tree[ReviewPath(last)]]]

\* LoadState, and what is pending.
Scan ==
  /\ run.pc = "scan"
  /\ run' = [run EXCEPT
       !.pc = "extract",
       !.state = IF tree[StatePath] = Absent THEN << >> ELSE tree[StatePath],
       !.old = PendingByTarget]
  /\ UNCHANGED <<vars, filed, removed>>

\* What the model may answer for a page with these claims: of the answers its
\* schema admits, those that classify every claim.
ModelAnswers(i, claims) ==
  LET Retiring(gone) == [keep |-> Ids(claims) \ gone, reword |-> << >>,
                         retire |-> gone, add |-> Additions(i)]
  IN {change \in {Retiring({}), Retiring(Ids(claims))} : IsChange(change)}

\* BuildProposal and WithTargetVersion.
Extraction(c, change) == Proposal("claims", c.slug, c.page, change)

\* Mutants: the old proposal is dropped without a copy, or copied and left.
SupersedeOutright(old) == <<Change(ReviewPath(old.id), Absent)>>

SupersedeByCopy(old) == <<Change(RejectedPath(old.id), old.proposal)>>

\* supersede: the two changes in the order it returns them.
Supersede(old) ==
  << Change(ReviewPath(old.id), Absent), Change(RejectedPath(old.id), old.proposal) >>

\* Mutant: the whole page is recorded, not its body.
RecordWholePage(state, c) ==
  [s \in DOMAIN state \cup {c.slug} |-> IF s = c.slug THEN c.page ELSE state[s]]

WithRecorded(state, c) ==
  [s \in DOMAIN state \cup {c.slug} |-> IF s = c.slug THEN c.page.body ELSE state[s]]

\* Mutant: the skip state is written before the proposals it speaks of.
StateFirst(batch, state) == <<Change(StatePath, state)>> \o batch

WithState(batch, state) == Append(batch, Change(StatePath, state))

More == run.todo # {} /\ (Limit = 0 \/ run.attempted < Limit)

\* The pages are taken up in the order of their paths.
IsNext(c) == \A other \in run.todo : Order[c.slug] <= Order[other.slug]

Unchanged(c) ==
  c.slug \in DOMAIN run.state /\ run.state[c.slug] = c.page.body

Skip ==
  /\ run.pc = "extract" /\ More
  /\ \E c \in run.todo :
       /\ IsNext(c) /\ Unchanged(c)
       /\ run' = [run EXCEPT !.todo = @ \ {c}]
  /\ UNCHANGED <<vars, filed, removed>>

\* processPage fails: no valid answer after one retry.
GiveUpOnPage ==
  /\ run.pc = "extract" /\ More
  /\ \E c \in run.todo :
       /\ IsNext(c) /\ ~ Unchanged(c)
       /\ run' = [run EXCEPT !.todo = @ \ {c}, !.attempted = @ + 1]
  /\ UNCHANGED <<vars, filed, removed>>

\* Ids are ULIDs: a later one is larger.
Extract ==
  /\ run.pc = "extract" /\ More
  /\ \E c \in run.todo, i \in ProposalIds :
       /\ IsNext(c) /\ ~ Unchanged(c)
       /\ \A j \in minted : j < i
       /\ minted' = minted \cup {i}
       /\ LET state == WithRecorded(run.state, c)
          IN \E change \in ModelAnswers(i, c.page.claims) :
               LET batch == run.batch
                              \o <<Change(ReviewPath(i), Extraction(c, change))>>
                              \o (IF c.slug \in DOMAIN run.old
                                  THEN Supersede(run.old[c.slug]) ELSE << >>)
                   full == Len(batch) >= CommitBatchSize
               IN run' = [run EXCEPT
                    !.pc = IF full THEN "commit" ELSE "extract",
                    !.todo = @ \ {c},
                    !.attempted = @ + 1,
                    !.state = state,
                    !.old = [s \in DOMAIN @ \ {c.slug} |-> @[s]],
                    !.batch = batch,
                    !.writes = IF full THEN WithState(batch, state) ELSE << >>,
                    !.fresh = @ \cup {c.slug}]
  /\ UNCHANGED <<vault, req, acked, landed, faults, filed, removed>>

\* The last batch, or nothing left to commit.
End ==
  /\ run.pc = "extract" /\ ~ More
  /\ IF run.batch = << >>
     THEN run' = [Resting EXCEPT !.fresh = run.fresh]
     ELSE run' = [run EXCEPT !.pc = "commit", !.todo = {},
                             !.writes = WithState(run.batch, run.state)]
  /\ UNCHANGED <<vars, filed, removed>>

------------------------------------------------------------------------------
(* GitPageStore.Commit, for the run                                           *)

RunRemove ==
  /\ run.pc = "commit" /\ run.writes # << >>
  /\ Head(run.writes).data = Absent
  /\ StageRemoval(Head(run.writes).path)
  /\ removed' = removed \cup {i \in ProposalIds : Head(run.writes).path = ReviewPath(i)}
  /\ run' = [run EXCEPT !.writes = Tail(@)]
  /\ UNCHANGED <<head, req, minted, acked, landed, faults, filed>>

RunWrite ==
  /\ run.pc = "commit" /\ run.writes # << >>
  /\ LET change == Head(run.writes)
     IN /\ change.data # Absent
        /\ WriteFile(change.path, change.data)
        /\ filed' = filed \cup
             {<<change.data.target, change.data.pin.body>> :
                i \in {j \in ProposalIds : change.path = ReviewPath(j)}}
  /\ run' = [run EXCEPT !.pc = "written"]
  /\ UNCHANGED <<head, req, minted, acked, landed, faults, removed>>

RunAdd ==
  /\ run.pc = "written"
  /\ LET path == Head(run.writes).path
     IN IF CanAdd(path)
        THEN Add(path) /\ run' = [run EXCEPT !.pc = "commit", !.writes = Tail(@)]
        ELSE UNCHANGED <<tree, index>> /\ run' = Resting
  /\ UNCHANGED <<head, req, minted, acked, landed, faults, filed, removed>>

\* Mutant: the batch is not emptied.
FinishKeepingBatch ==
  /\ run.pc = "commit" /\ run.writes = << >>
  /\ RecordIndex
  /\ run' = [run EXCEPT !.pc = "extract"]
  /\ UNCHANGED <<req, minted, acked, landed, faults, filed, removed>>

RunFinish ==
  /\ run.pc = "commit" /\ run.writes = << >>
  /\ RecordIndex
  /\ run' = [run EXCEPT !.pc = "extract", !.batch = << >>]
  /\ UNCHANGED <<req, minted, acked, landed, faults, filed, removed>>

\* A commit returns an error, or the process is killed.
RunDies ==
  /\ run.pc # "idle"
  /\ run' = Resting
  /\ Fault
  /\ UNCHANGED <<vault, req, minted, acked, landed, filed, removed>>

RunStep ==
  \/ Scan \/ Skip \/ GiveUpOnPage \/ Extract \/ End
  \/ RunRemove \/ RunWrite \/ RunAdd \/ RunFinish

RunNext ==
  \/ Next /\ UNCHANGED runVars
  \/ Start \/ RunStep \/ RunDies

RunSpec == RunInit /\ [][RunNext]_<<vars, runVars>> /\ WF_<<vars, runVars>>(RunStep)

------------------------------------------------------------------------------
RunTypeOK ==
  /\ TypeOK
  /\ \A store \in {tree, index, head} :
       store[StatePath] # Absent =>
         /\ DOMAIN store[StatePath] \subseteq Slugs
         /\ \A s \in DOMAIN store[StatePath] : store[StatePath][s] \in Bodies
  /\ run.pc \in {"idle", "scan", "extract", "commit", "written"}
  /\ DOMAIN run.old \subseteq Slugs /\ DOMAIN run.state \subseteq Slugs
  /\ filed \subseteq Slugs \X Bodies
  /\ removed \subseteq ProposalIds

(* A page the skip state passes over had a proposal filed for that very body: *)
(* no crash, failed commit or concurrent request makes a run forget a page    *)
(* whose answer was lost.                                                     *)
RecordedMeansFiled ==
  \A store \in {tree, index, head} :
    store[StatePath] # Absent =>
      \A s \in DOMAIN store[StatePath] : <<s, store[StatePath][s]>> \in filed

(* A proposal a run takes out of review/ has its rejected copy when the run   *)
(* is over, with no call failing and no process killed, whatever a reviewer   *)
(* decided about it since the run looked.                                     *)
SupersededKeepsACopy ==
  faults = 0 /\ run.pc = "idle" => \A i \in removed : tree[RejectedPath(i)] # Absent

(* Of any run: what it took out of review/ has its copy, or is at least still *)
(* in HEAD ("It never deletes outright: the audit trail of what was once      *)
(* pending for this target stays available", supersede).                      *)
NeverDeletedOutright ==
  run.pc = "idle" =>
    \A i \in removed : tree[RejectedPath(i)] # Absent \/ head[ReviewPath(i)] # Absent

OnlyOnePending == \A s \in run.fresh : Cardinality(PendingFor(s)) <= 1

(* A run leaves its own proposal as the only pending one of each page it      *)
(* extracted, over all its batches (run.go: superseded in the same batch).    *)
FreshStandsAlone == faults = 0 /\ run.pc = "idle" => OnlyOnePending

(* The same after "an interrupted run followed by a resumed one", which       *)
(* scanning review/ afresh on every run is to take care of (pending.go).      *)
RerunStandsAlone == run.pc = "idle" => OnlyOnePending

(* Every run comes to an end, through all its batches.                        *)
RunEnds == run.pc # "idle" ~> run.pc = "idle"

===============================================================================
