-------------------------------- MODULE Review --------------------------------
(* The review inbox: accept, edit-accept and reject (internal/api/review.go,  *)
(* review_target.go), the propose tool that fills it (internal/mcp/           *)
(* propose.go), and the owner's editor, all on one vault.  The server takes   *)
(* no lock: requests interleave at every read and every git call.             *)
EXTENDS Claims, GitPageStore

CONSTANTS
  Handlers,      \* requests the server may be handling at once
  ProposalIds,   \* ids (ULIDs) that may be minted
  Slugs,         \* pages, one per slug
  Unpinned,      \* the empty TargetVersion
  Bodies,        \* page bodies
  Wording,       \* the claim each id's proposal adds
  NewPageBody,   \* the body a new_page proposal brings
  Rewording,     \* what the reviewer makes of that claim in edit-accept
  Pages,         \* the vault at the start: slug to page, or Absent
  Legacy,        \* proposals filed before TargetVersion existed
  OwnerSaves(_), \* what the owner may save over a page
  MaxFaults      \* how many git calls may fail and how often the server may crash

PagePath(slug)   == <<"page", slug>>
ReviewPath(i)    == <<"review", i>>
RejectedPath(i)  == <<"review/.rejected", i>>

VaultPaths ==
  {PagePath(s) : s \in Slugs} \cup {ReviewPath(i) : i \in ProposalIds}
    \cup {RejectedPath(i) : i \in ProposalIds}

Page == [body : Bodies, claims : Seq(Claim)]

Kinds == {"claims", "new_page"}

\* Only pending proposals lie in review/: every writer files them as such.
Proposal(kind, target, pin, change) ==
  [kind |-> kind, target |-> target, pin |-> pin, change |-> change]

\* Mutant: an added claim has no status yet.
UndecidedAdditions(i) == <<[text |-> Wording[i], status |-> "pending"]>>

\* What the propose tool files: one added claim.
Additions(i) == <<[text |-> Wording[i], status |-> "active"]>>

AddOnly(i) ==
  [keep |-> {}, reword |-> << >>, retire |-> {}, add |-> Additions(i)]

AgentProposal ==
  [kind : Kinds, target : Slugs, pin : Page \cup {Unpinned},
   change : {AddOnly(i) : i \in ProposalIds}]

IsProposal(p) ==
  /\ p # Absent
  /\ p.kind \in Kinds /\ p.target \in Slugs
  /\ p.pin \in Page \cup {Unpinned} /\ IsChange(p.change)

ASSUME StoreHoldsTheVault == VaultPaths \subseteq Paths

ASSUME AbsentIsNoFile == Absent \notin Page \cup AgentProposal

\* A version is a hash, never the empty string.
ASSUME UnpinnedIsNoVersion == Unpinned \notin Page

ASSUME WordingsAreTexts ==
  \A i \in ProposalIds : Wording[i] \in Texts /\ Rewording[i] \in Texts

ASSUME FaultsAreCounted == MaxFaults \in Nat

ASSUME VaultStartsWellFormed ==
  /\ NewPageBody \in Bodies
  /\ \A slug \in Slugs : Pages[slug] \in Page \cup {Absent}
  /\ DOMAIN Legacy \subseteq ProposalIds
  /\ \A i \in DOMAIN Legacy : IsProposal(Legacy[i])

VARIABLES
  req,        \* the request each handler is working on
  minted,     \* ids given out so far
  acked,      \* history: ids of proposals whose decision was answered with 200
  landed,     \* history: ids of proposals whose change was written to a page
  faults      \* failed calls and crashes so far

vars == <<tree, index, head, req, minted, acked, landed, faults>>

Idle == [pc |-> "idle"]

Pending(i) == tree[ReviewPath(i)] # Absent

Init ==
  /\ tree = [path \in Paths |->
               CASE path[1] = "page" -> Pages[path[2]]
                 [] path[1] = "review" /\ path[2] \in DOMAIN Legacy -> Legacy[path[2]]
                 [] OTHER -> Absent]
  /\ index = tree
  /\ head = tree
  /\ req = [h \in Handlers |-> Idle]
  /\ minted = DOMAIN Legacy
  /\ acked = {}
  /\ landed = {}
  /\ faults = 0

------------------------------------------------------------------------------
(* accept, edit-accept and reject                                             *)

Decisions == {"accept", "editAccept", "reject"}

\* loadPendingProposal: a proposal that is not there is a 404.
Load(h) ==
  /\ req[h] = Idle
  /\ \E op \in Decisions, i \in ProposalIds :
       /\ Pending(i)
       /\ req' = [req EXCEPT ![h] =
                    [pc |-> "loaded", op |-> op, id |-> i, proposal |-> tree[ReviewPath(i)]]]
  /\ UNCHANGED <<vault, minted, acked, landed, faults>>

Answer(h) == req' = [req EXCEPT ![h] = Idle]

Refuse(h) ==
  /\ Answer(h)
  /\ UNCHANGED <<vault, minted, acked, landed, faults>>

\* Mutants: the pin is not compared, or compared over the body alone.
AnyVersionFits(p) ==
  LET found == tree[PagePath(p.target)]
  IN IF p.kind = "new_page" THEN found = Absent ELSE found # Absent

SameBodyFits(p) ==
  LET found == tree[PagePath(p.target)]
  IN IF p.kind = "new_page"
     THEN found = Absent
     ELSE found # Absent /\ (p.pin = Unpinned \/ p.pin.body = found.body)

\* resolveReviewTarget: the 404 and 409s for an existing and for a new page.
TargetFits(p) ==
  LET found == tree[PagePath(p.target)]
  IN IF p.kind = "new_page"
     THEN found = Absent
     ELSE found # Absent /\ p.pin \in {Unpinned, found}

TargetPage(p) ==
  IF p.kind = "new_page"
  THEN [body |-> NewPageBody, claims |-> << >>]
  ELSE tree[PagePath(p.target)]

\* The request's edits: none, or one of any claim the review screen shows.
EditsOf(op, i, applied) ==
  IF op = "editAccept"
  THEN {[n \in {id} |-> Rewording[i]] : id \in Ids(ClaimsOf(applied))}
  ELSE {<< >>}

Committing(h, todo) ==
  req' = [req EXCEPT ![h] =
            [pc |-> "committing", op |-> @.op, id |-> @.id, todo |-> todo]]

\* Mutant: accept commits the page alone and leaves the proposal.
AcceptKeepingProposal(h) ==
  /\ req[h].pc = "loaded" /\ req[h].op # "reject"
  /\ LET p    == req[h].proposal
         page == TargetPage(p)
     IN IF TargetFits(p) /\ Applies(page.claims, p.change)
        THEN /\ Committing(h,
                  <<Change(PagePath(p.target),
                      [page EXCEPT !.claims = ClaimsOf(ApplyClaims(@, p.change))])>>)
             /\ UNCHANGED <<vault, minted, acked, landed, faults>>
        ELSE Refuse(h)

\* Everything between the load and the commit reads one page, once.
Accept(h) ==
  /\ req[h].pc = "loaded" /\ req[h].op \in {"accept", "editAccept"}
  /\ LET p       == req[h].proposal
         page    == TargetPage(p)
         applied == ApplyClaims(page.claims, p.change)
     IN IF ~ TargetFits(p) \/ ~ Applies(page.claims, p.change)
        THEN Refuse(h)
        ELSE \E edits \in EditsOf(req[h].op, req[h].id, applied) :
               IF ~ EditsAllowed(applied, edits)
               THEN Refuse(h)
               ELSE /\ Committing(h,
                         << Change(PagePath(p.target),
                              [page EXCEPT !.claims = ClaimsOf(ApplyClaimEdits(applied, edits))]),
                            Change(ReviewPath(req[h].id), Absent) >>)
                    /\ UNCHANGED <<vault, minted, acked, landed, faults>>

\* Mutants: the rejected copy is written without removing the proposal, or
\* after it.
RejectByCopy(h) ==
  /\ req[h].pc = "loaded" /\ req[h].op = "reject"
  /\ Committing(h, <<Change(RejectedPath(req[h].id), req[h].proposal)>>)
  /\ UNCHANGED <<vault, minted, acked, landed, faults>>

RejectDeletingFirst(h) ==
  /\ req[h].pc = "loaded" /\ req[h].op = "reject"
  /\ Committing(h,
       << Change(ReviewPath(req[h].id), Absent),
          Change(RejectedPath(req[h].id), req[h].proposal) >>)
  /\ UNCHANGED <<vault, minted, acked, landed, faults>>

\* The second read, for the rationale; a proposal gone by now is a 404.
Reject(h) ==
  /\ req[h].pc = "loaded" /\ req[h].op = "reject"
  /\ IF ~ Pending(req[h].id)
     THEN Refuse(h)
     ELSE /\ Committing(h,
               << Change(RejectedPath(req[h].id), req[h].proposal),
                  Change(ReviewPath(req[h].id), Absent) >>)
          /\ UNCHANGED <<vault, minted, acked, landed, faults>>

------------------------------------------------------------------------------
(* the propose tool                                                           *)

\* buildAgentProposal: the target is read and its version pinned.
Build(h) ==
  /\ req[h] = Idle
  /\ \E i \in ProposalIds \ minted, slug \in Slugs :
       LET found    == tree[PagePath(slug)]
           proposal == IF found = Absent
                       THEN Proposal("new_page", slug, Unpinned, AddOnly(i))
                       ELSE Proposal("claims", slug, found, AddOnly(i))
       IN /\ req' = [req EXCEPT ![h] =
                       [pc |-> "built", op |-> "propose", id |-> i, proposal |-> proposal]]
          /\ minted' = minted \cup {i}
  /\ UNCHANGED <<vault, acked, landed, faults>>

PendingFor(slug) ==
  {i \in ProposalIds : Pending(i) /\ tree[ReviewPath(i)].target = slug}

\* Mutant: nobody looks for a pending proposal.
ProposeUnchecked(h) ==
  /\ req[h].pc = "built"
  /\ Committing(h, <<Change(ReviewPath(req[h].id), req[h].proposal)>>)
  /\ UNCHANGED <<vault, minted, acked, landed, faults>>

\* PendingProposalID, and the commit when it finds none.
Propose(h) ==
  /\ req[h].pc = "built"
  /\ IF PendingFor(req[h].proposal.target) # {}
     THEN Refuse(h)
     ELSE /\ Committing(h, <<Change(ReviewPath(req[h].id), req[h].proposal)>>)
          /\ UNCHANGED <<vault, minted, acked, landed, faults>>

------------------------------------------------------------------------------
(* GitPageStore.Commit, for every request                                     *)

\* One turn of its loop: a removal, or a file written and then staged.
RemoveNext(h) ==
  /\ req[h].pc = "committing" /\ req[h].todo # << >>
  /\ Head(req[h].todo).data = Absent
  /\ StageRemoval(Head(req[h].todo).path)
  /\ Committing(h, Tail(req[h].todo))
  /\ UNCHANGED <<head, minted, acked, landed, faults>>

WriteNext(h) ==
  /\ req[h].pc = "committing" /\ req[h].todo # << >>
  /\ LET change == Head(req[h].todo)
     IN /\ change.data # Absent
        /\ WriteFile(change.path, change.data)
        /\ landed' = landed \cup {i \in {req[h].id} : change.path[1] = "page"}
  /\ req' = [req EXCEPT ![h].pc = "written"]
  /\ UNCHANGED <<head, minted, acked, faults>>

AddNext(h) ==
  /\ req[h].pc = "written"
  /\ LET path == Head(req[h].todo).path
     IN IF ~ CanAdd(path)
        THEN Refuse(h)
        ELSE /\ Add(path)
             /\ Committing(h, Tail(req[h].todo))
             /\ UNCHANGED <<head, minted, acked, landed, faults>>

Finish(h) ==
  /\ req[h].pc = "committing" /\ req[h].todo = << >>
  /\ RecordIndex
  /\ Answer(h)
  /\ acked' = acked \cup {i \in {req[h].id} : req[h].op # "propose"}
  /\ UNCHANGED <<minted, landed, faults>>

Fault == faults < MaxFaults /\ faults' = faults + 1

\* Any write, staging call or commit may return an error; what was done stays.
Fail(h) ==
  /\ req[h].pc \in {"committing", "written"}
  /\ Answer(h)
  /\ Fault
  /\ UNCHANGED <<vault, minted, acked, landed>>

Crash ==
  /\ req' = [h \in Handlers |-> Idle]
  /\ Fault
  /\ UNCHANGED <<vault, minted, acked, landed>>

OwnerSavesPage ==
  /\ \E slug \in Slugs :
       LET found == tree[PagePath(slug)]
       IN /\ found # Absent
          /\ \E page \in OwnerSaves(found) \ {found} :
               page \in Page /\ SaveInEditor(PagePath(slug), page)
  /\ UNCHANGED <<req, minted, acked, landed, faults>>

Handle(h) ==
  \/ Load(h) \/ Accept(h) \/ Reject(h)
  \/ Build(h) \/ Propose(h)
  \/ RemoveNext(h) \/ WriteNext(h) \/ AddNext(h) \/ Finish(h) \/ Fail(h)

Next == (\E h \in Handlers : Handle(h)) \/ Crash \/ OwnerSavesPage

Spec == Init /\ [][Next]_vars

------------------------------------------------------------------------------
IsRequest(r) ==
  \/ r = Idle
  \/ /\ r.pc = "loaded" /\ r.op \in Decisions /\ r.id \in ProposalIds
     /\ r = [pc |-> r.pc, op |-> r.op, id |-> r.id, proposal |-> r.proposal]
     /\ IsProposal(r.proposal)
  \/ /\ r.pc = "built" /\ r.op = "propose" /\ r.id \in ProposalIds
     /\ r = [pc |-> r.pc, op |-> r.op, id |-> r.id, proposal |-> r.proposal]
     /\ IsProposal(r.proposal)
  \/ /\ r.pc \in {"committing", "written"} /\ r.op \in Decisions \cup {"propose"} /\ r.id \in ProposalIds
     /\ r = [pc |-> r.pc, op |-> r.op, id |-> r.id, todo |-> r.todo]

TypeOK ==
  /\ \A store \in {tree, index, head} :
       /\ store = [path \in Paths |-> store[path]]
       /\ \A slug \in Slugs : store[PagePath(slug)] \in Page \cup {Absent}
       /\ \A i \in ProposalIds :
            /\ store[ReviewPath(i)] # Absent => IsProposal(store[ReviewPath(i)])
            /\ store[RejectedPath(i)] # Absent => IsProposal(store[RejectedPath(i)])
  /\ req = [h \in Handlers |-> req[h]]
  /\ \A h \in Handlers : IsRequest(req[h])
  /\ acked \cup landed \subseteq minted /\ minted \subseteq ProposalIds
  /\ faults \in 0 .. MaxFaults

Claimed(page, i) ==
  {k \in DOMAIN page.claims : page.claims[k].text \in {Wording[i], Rewording[i]}}

PinnedIds == ProposalIds \ DOMAIN Legacy

(* However often a proposal is accepted, by whoever, and whatever fails       *)
(* between, its claims are on a page at most once: TargetVersion pins the     *)
(* page as it was without them.                                               *)
AppliedAtMostOnce ==
  \A slug \in Slugs, i \in PinnedIds, store \in {tree, index, head} :
    store[PagePath(slug)] # Absent => Cardinality(Claimed(store[PagePath(slug)], i)) <= 1

(* What an accept is about to write is the very page the proposal was built   *)
(* against plus the proposal's own claim, never a page the reviewer did not   *)
(* see.                                                                       *)
WritesBuildOnPin ==
  \A h \in Handlers :
    req[h].pc \in {"committing", "written"} /\ req[h].op \in {"accept", "editAccept"} =>
      LET i    == req[h].id
          pin  == tree[ReviewPath(i)].pin
          page == Head(req[h].todo).data
      IN Len(req[h].todo) = 2 /\ Pending(i) /\ pin # Unpinned =>
           /\ page.body = pin.body
           /\ Len(page.claims) = Len(pin.claims) + 1
           /\ SubSeq(page.claims, 1, Len(pin.claims)) = pin.claims

(* Once a reviewer was told that a decision is done, the proposal is out of   *)
(* the inbox for good, on disk and in HEAD, whatever other requests were in   *)
(* flight.                                                                    *)
DecidedStaysDecided ==
  \A i \in acked, store \in {tree, index, head} : store[ReviewPath(i)] = Absent

\* How module Inbox sees the vault.
StatusOf ==
  [i \in ProposalIds |->
     IF Pending(i) THEN "pending"
     ELSE IF i \in landed \/ tree[RejectedPath(i)] # Absent THEN "closed"
     ELSE "unfiled"]

RecordOf ==
  [i \in ProposalIds |->
     {fate \in {"landed", "rejected"} :
        IF fate = "landed" THEN i \in landed ELSE tree[RejectedPath(i)] # Absent}]

OnRecord ==
  INSTANCE Inbox WITH Proposals <- ProposalIds, status <- StatusOf, record <- RecordOf

(* The inbox keeps its promise at every single write, not only at commits: a  *)
(* proposal leaves review/ after its change or its rejected copy is on disk,  *)
(* so no crash or failed call loses one ("never deletes outright").           *)
InboxKeepsItsPromise == OnRecord!Spec

(* In HEAD a page edit and the removal of its proposal come together          *)
(* (handleReviewAccept): none is still pending there with its claims landed.  *)
NeverHalfAccepted ==
  \A slug \in Slugs, i \in ProposalIds :
    head[PagePath(slug)] # Absent /\ Claimed(head[PagePath(slug)], i) # {} =>
      head[ReviewPath(i)] = Absent

(* One page never has two pending proposals, the hazard pending.go is about.  *)
OnePendingPerTarget == \A slug \in Slugs : Cardinality(PendingFor(slug)) <= 1

(* A proposal is accepted or rejected, never both: a rejected one has left    *)
(* nothing on a page.                                                         *)
OneDecision == \A i \in landed : tree[RejectedPath(i)] = Absent

(* Between requests nothing is half done: all that is staged is committed,    *)
(* and review/ on disk is review/ in HEAD.                                    *)
QuietVaultIsCommitted ==
  (\A h \in Handlers : req[h] = Idle) =>
    /\ index = head
    /\ \A path \in Paths : path[1] # "page" => tree[path] = head[path]

===============================================================================
