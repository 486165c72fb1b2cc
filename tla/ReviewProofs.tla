----------------------------- MODULE ReviewProofs -----------------------------
(* Machine-checked proofs about module Review, for any number of concurrent   *)
(* requests, proposals and pages: a decision is final, the inbox implements   *)
(* module Inbox at every single write, and a proposal's claims land at most   *)
(* once and on the page it was built against; with one request at a time and  *)
(* no failures, a decision is whole in HEAD, alone for its page and made once.*)
EXTENDS Review, ClaimsProofs, FiniteSetTheorems

(* The inductive invariant.  DecidedStaysDecided alone is not inductive: that *)
(* nothing files a decided proposal again rests on which requests may still   *)
(* write which path.                                                          *)

Removal(i) == Change(ReviewPath(i), Absent)

FilesProposal(change, i) ==
  change = Change(ReviewPath(i), change.data) /\ IsProposal(change.data)

WritesPage(change) ==
  /\ \E slug \in Slugs : change = Change(PagePath(slug), change.data)
  /\ change.data \in Page

WritesCopy(change, i) ==
  change = Change(RejectedPath(i), change.data) /\ IsProposal(change.data)

\* What is left of a request's Commit.
TodoOK(r) ==
  \/ r.todo = << >>
  \/ /\ r.op = "propose"
     /\ r.todo = <<r.todo[1]>> /\ FilesProposal(r.todo[1], r.id)
  \/ r.op \in Decisions /\ r.todo = <<Removal(r.id)>>
  \/ /\ r.op \in {"accept", "editAccept"}
     /\ r.todo = <<r.todo[1], Removal(r.id)>> /\ WritesPage(r.todo[1])
  \/ /\ r.op = "reject"
     /\ r.todo = <<r.todo[1], Removal(r.id)>> /\ WritesCopy(r.todo[1], r.id)

Committed(r) == r.pc \in {"committing", "written"}

TodosOK ==
  \A h \in Handlers : Committed(req[h]) =>
    /\ TodoOK(req[h])
    /\ req[h].pc = "written" => req[h].todo # << >> /\ req[h].todo[1].data # Absent

PendingIds == {i \in ProposalIds : Pending(i)}

RejectedIds == {i \in ProposalIds : tree[RejectedPath(i)] # Absent}

FiledIds == PendingIds \cup landed \cup RejectedIds

Rejected(i) == i \in RejectedIds

Filed(i) == i \in FiledIds

\* A propose request that has yet to write its proposal.
Filing(h) ==
  \/ req[h].pc = "built"
  \/ req[h].pc = "committing" /\ req[h].op = "propose" /\ req[h].todo # << >>

Deciding(h) ==
  req[h].pc \in {"loaded", "committing", "written"} /\ req[h].op \in Decisions

InboxIsStaged ==
  \A i \in ProposalIds : index[ReviewPath(i)] \in {Absent, tree[ReviewPath(i)]}

IdsAreMinted ==
  /\ \A i \in ProposalIds : Filed(i) => i \in minted
  /\ \A h \in Handlers : req[h] # Idle => req[h].id \in minted

NotYetFiled ==
  \A h \in Handlers : Filing(h) =>
    /\ ~ Filed(req[h].id) /\ req[h].id \notin acked
    /\ \A other \in Handlers \ {h} :
         req[other] = Idle \/ req[other].id # req[h].id

DecidesFiled == \A h \in Handlers : Deciding(h) => Filed(req[h].id)

\* The page or the copy is on disk.
Wrote(r) ==
  \/ r.pc = "written"
  \/ r.pc = "committing" /\ Len(r.todo) <= 1

RemovesOnRecord ==
  \A h \in Handlers :
    Deciding(h) /\ Wrote(req[h]) => req[h].id \in landed \/ Rejected(req[h].id)

RemovedWhenDone ==
  \A h \in Handlers :
    Deciding(h) /\ req[h].pc = "committing" /\ req[h].todo = << >> =>
      req[h].id \notin PendingIds

IInv ==
  /\ TypeOK
  /\ TodosOK
  /\ InboxIsStaged
  /\ IdsAreMinted
  /\ NotYetFiled
  /\ DecidesFiled
  /\ RemovesOnRecord
  /\ RemovedWhenDone
  /\ DecidedStaysDecided

------------------------------------------------------------------------------
(* The paths of pages, pending proposals and rejected copies are distinct.    *)
LEMMA PathsAreDistinct ==
  /\ \A s \in Slugs : PagePath(s) \in Paths
  /\ \A i \in ProposalIds : ReviewPath(i) \in Paths /\ RejectedPath(i) \in Paths
  /\ \A s, t : PagePath(s) = PagePath(t) => s = t
  /\ \A i, j : ReviewPath(i) = ReviewPath(j) => i = j
  /\ \A i, j : RejectedPath(i) = RejectedPath(j) => i = j
  /\ \A s, i, j : /\ PagePath(s) # ReviewPath(i) /\ PagePath(s) # RejectedPath(j)
                  /\ ReviewPath(i) # RejectedPath(j)
  /\ \A s : PagePath(s)[1] = "page"
  /\ \A i : ReviewPath(i)[1] # "page" /\ RejectedPath(i)[1] # "page"
  BY StoreHoldsTheVault DEF VaultPaths, PagePath, ReviewPath, RejectedPath

(* Every change a page, a proposal or a copy is written by is not a removal.  *)
LEMMA WritesAreNotRemovals ==
  /\ Absent \notin Page
  /\ \A p : IsProposal(p) => p # Absent
  BY AbsentIsNoFile DEF IsProposal

(* Taking the next change off a list of one or two.                           *)
LEMMA ShortTodos ==
  /\ \A a : Head(<<a>>) = a /\ Tail(<<a>>) = << >> /\ Len(<<a>>) = 1
  /\ \A a, b : Head(<<a, b>>) = a /\ Tail(<<a, b>>) = <<b>> /\ Len(<<a, b>>) = 2
  OBVIOUS

------------------------------------------------------------------------------
(* A step that moves one request and writes nothing keeps the invariant when  *)
(* the request it becomes is one the invariant allows.                        *)
Allowed(r, h) ==
  \/ r = Idle
  \/ /\ r # Idle /\ r.op \in Decisions /\ Filed(r.id) /\ r.id \in minted
     /\ \/ r.pc = "loaded"
        \/ r.pc = "committing" /\ TodoOK(r) /\ Len(r.todo) = 2
  \/ /\ r # Idle /\ r.op = "propose" /\ ~ Filed(r.id) /\ r.id \notin acked
     /\ \A other \in Handlers \ {h} : req[other] = Idle \/ req[other].id # r.id
     /\ \/ r.pc = "built"
        \/ r.pc = "committing" /\ TodoOK(r)

LEMMA RequestMoves ==
  ASSUME IInv, NEW h \in Handlers, NEW r, IsRequest(r), Allowed(r, h),
         req' = [req EXCEPT ![h] = r], UNCHANGED <<vault, acked, landed>>,
         faults' \in 0 .. MaxFaults,
         minted \subseteq minted', minted' \subseteq ProposalIds,
         r # Idle => r.id \in minted'
  PROVE  IInv'
  <1>0. UNCHANGED <<tree, index, head, acked, landed>>
    BY DEF vault
  <1>1. /\ req'[h] = r
        /\ \A other \in Handlers \ {h} : req'[other] = req[other]
    BY DEF IInv, TypeOK
  <1>2. /\ \A i : /\ Pending(i)' = Pending(i) /\ Rejected(i)' = Rejected(i)
                  /\ Filed(i)' = Filed(i)
        /\ PendingIds' = PendingIds
    BY <1>0 DEF Filed, FiledIds, Pending, PendingIds, Rejected, RejectedIds
  <1>3. TypeOK'
    <2>1. req' = [x \in Handlers |-> req'[x]]
      BY DEF IInv, TypeOK
    <2>2. \A x \in Handlers : IsRequest(req'[x])
      BY <1>1 DEF IInv, TypeOK
    <2>3. acked' \cup landed' \subseteq minted' /\ minted' \subseteq ProposalIds
      BY <1>0 DEF IInv, TypeOK
    <2> QED BY <1>0, <2>1, <2>2, <2>3 DEF IInv, TypeOK
  <1>4. TodosOK'
    BY <1>1 DEF IInv, TodosOK, Committed, Allowed, Idle
  <1>5. InboxIsStaged' /\ DecidedStaysDecided'
    BY <1>0 DEF IInv, InboxIsStaged, DecidedStaysDecided
  <1>6. IdsAreMinted'
    BY <1>1, <1>2 DEF IInv, IdsAreMinted
  <1>7. NotYetFiled'
    <2> SUFFICES ASSUME NEW x \in Handlers, Filing(x)'
                 PROVE  /\ ~ Filed(req'[x].id) /\ req'[x].id \notin acked
                        /\ \A y \in Handlers \ {x} :
                             req'[y] = Idle \/ req'[y].id # req'[x].id
      BY <1>0, <1>2 DEF NotYetFiled
    <2>1. CASE x = h
      BY <1>1, <2>1 DEF Filing, Allowed, Idle, Decisions
    <2>2. CASE x # h
      <3>1. Filing(x) /\ req'[x] = req[x]
        BY <1>1, <2>2 DEF Filing
      <3>2. /\ ~ Filed(req[x].id) /\ req[x].id \notin acked /\ req[x] # Idle
            /\ \A y \in Handlers \ {x} : req[y] = Idle \/ req[y].id # req[x].id
        BY <3>1 DEF IInv, NotYetFiled, Filing, Idle
      <3>3. r = Idle \/ r.id # req[x].id
        BY <2>2, <3>2 DEF Allowed
      <3> QED BY <1>1, <3>1, <3>2, <3>3
    <2> QED BY <2>1, <2>2
  <1>8. DecidesFiled'
    BY <1>1, <1>2 DEF IInv, DecidesFiled, Deciding, Allowed, Idle, Decisions
  <1>9. RemovesOnRecord' /\ RemovedWhenDone'
    <2> SUFFICES ASSUME NEW x \in Handlers, Deciding(x)'
                 PROVE  /\ Wrote(req'[x]) => req'[x].id \in landed \/ Rejected(req'[x].id)
                        /\ req'[x].pc = "committing" /\ req'[x].todo = << >> =>
                             req'[x].id \notin PendingIds
      BY <1>0, <1>2 DEF RemovesOnRecord, RemovedWhenDone
    <2>1. CASE x = h
      <3>1. r.pc = "committing" => Len(r.todo) = 2
        BY <1>1, <2>1 DEF Deciding, Allowed, Idle, Decisions
      <3>2. r.pc \in {"loaded", "committing"}
        BY <1>1, <2>1 DEF Deciding, Allowed, Idle, Decisions
      <3>3. r.pc = "committing" => r.todo # << >> /\ ~ (Len(r.todo) <= 1)
        <4>1. Len(<< >>) = 0 /\ ~ (2 <= 1) /\ 0 # 2
          OBVIOUS
        <4> QED BY <3>1, <4>1, Zenon
      <3>4. ~ Wrote(r)
        BY <3>2, <3>3 DEF Wrote
      <3> QED BY <1>1, <2>1, <3>3, <3>4
    <2>2. CASE x # h
      <3>1. req'[x] = req[x] /\ Deciding(x)
        BY <1>1, <2>2 DEF Deciding
      <3> QED BY <3>1 DEF IInv, RemovesOnRecord, RemovedWhenDone
    <2> QED BY <2>1, <2>2
  <1> QED BY <1>3, <1>4, <1>5, <1>6, <1>7, <1>8, <1>9 DEF IInv

(* A request that ends without writing keeps the invariant.                   *)
LEMMA RefuseStep ==
  ASSUME IInv, NEW h \in Handlers, Refuse(h) \/ Fail(h)
  PROVE  IInv'
  <1>1. /\ req' = [req EXCEPT ![h] = Idle]
        /\ UNCHANGED <<vault, acked, landed, minted>>
    BY DEF Refuse, Fail, Answer
  <1>3. faults' \in 0 .. MaxFaults
    BY FaultsAreCounted DEF Refuse, Fail, Fault, IInv, TypeOK
  <1>2. IsRequest(Idle) /\ Allowed(Idle, h) /\ minted \subseteq ProposalIds
    BY DEF IInv, TypeOK, IsRequest, Allowed
  <1> QED BY <1>1, <1>2, <1>3, RequestMoves

(* A proposal a decision loads is on file.                                    *)
LEMMA LoadStep ==
  ASSUME IInv, NEW h \in Handlers, Load(h)
  PROVE  IInv'
  <1>1. PICK op \in Decisions, i \in ProposalIds :
          /\ Pending(i)
          /\ req' = [req EXCEPT ![h] = [pc |-> "loaded", op |-> op, id |-> i,
                                       proposal |-> tree[ReviewPath(i)]]]
          /\ UNCHANGED <<vault, minted, acked, landed, faults>>
    BY DEF Load
  <1> DEFINE r == [pc |-> "loaded", op |-> op, id |-> i, proposal |-> tree[ReviewPath(i)]]
  <1>2. IsRequest(r)
    <2>1. IsProposal(tree[ReviewPath(i)])
      BY <1>1 DEF IInv, TypeOK, Pending
    <2> QED BY <2>1 DEF IsRequest
  <1>3. Filed(i) /\ i \in minted
    BY <1>1 DEF Filed, FiledIds, PendingIds, IInv, IdsAreMinted
  <1>4. r # Idle
    BY DEF Idle
  <1>5. r.pc = "loaded" /\ r.op = op /\ r.id = i
    OBVIOUS
  <1> HIDE DEF r
  <1>6. Allowed(r, h)
    BY <1>3, <1>4, <1>5 DEF Allowed
  <1>7. minted \subseteq ProposalIds /\ faults \in 0 .. MaxFaults
    BY DEF IInv, TypeOK
  <1> QED BY <1>1, <1>2, <1>3, <1>5, <1>6, <1>7, RequestMoves DEF r

(* Starting a decision's commit keeps the invariant when its changes are the  *)
(* write of the page or of the copy, and then the removal.                    *)
LEMMA DecisionCommits ==
  ASSUME IInv, NEW h \in Handlers, req[h].pc = "loaded", NEW write,
         \/ req[h].op \in {"accept", "editAccept"} /\ WritesPage(write)
         \/ req[h].op = "reject" /\ WritesCopy(write, req[h].id),
         Committing(h, <<write, Removal(req[h].id)>>),
         UNCHANGED <<vault, minted, acked, landed, faults>>
  PROVE  IInv'
  <1> DEFINE r == [pc |-> "committing", op |-> req[h].op, id |-> req[h].id,
                   todo |-> <<write, Removal(req[h].id)>>]
  <1>1. req' = [req EXCEPT ![h] = r]
    BY DEF Committing
  <1>2. req[h].op \in Decisions /\ req[h].id \in ProposalIds /\ req[h] # Idle
    BY DEF IInv, TypeOK, IsRequest, Idle
  <1>3. IsRequest(r) /\ r # Idle
    BY <1>2 DEF IsRequest, Idle
  <1>4. Filed(req[h].id) /\ req[h].id \in minted
    BY <1>2 DEF IInv, DecidesFiled, Deciding, IdsAreMinted
  <1>5. TodoOK(r) /\ Len(r.todo) = 2
    <2>1. r.todo[1] = write /\ Len(r.todo) = 2 /\ r.todo = <<write, Removal(r.id)>>
      BY ShortTodos
    <2> QED BY <2>1 DEF TodoOK
  <1>6. Allowed(r, h)
    BY <1>2, <1>3, <1>4, <1>5 DEF Allowed
  <1>7. minted \subseteq ProposalIds /\ faults \in 0 .. MaxFaults
    BY DEF IInv, TypeOK
  <1>8. r.id = req[h].id
    OBVIOUS
  <1> HIDE DEF r
  <1> QED BY <1>1, <1>3, <1>4, <1>6, <1>7, <1>8, RequestMoves

(* What an accept that is not refused is about to commit: the target with the *)
(* change and the edits applied, a well-formed page.                          *)
LEMMA AcceptCommits ==
  ASSUME TypeOK, NEW h \in Handlers, Accept(h), ~ Refuse(h)
  PROVE  LET p       == req[h].proposal
             page    == TargetPage(p)
             applied == ApplyClaims(page.claims, p.change)
         IN /\ req[h].pc = "loaded" /\ req[h].op \in {"accept", "editAccept"}
            /\ req[h].id \in ProposalIds /\ IsProposal(p)
            /\ TargetFits(p) /\ page \in Page
            /\ UNCHANGED <<vault, minted, acked, landed, faults>>
            /\ \E edits :
                 /\ \A id \in DOMAIN edits : edits[id] = Rewording[req[h].id]
                 /\ EditsAllowed(applied, edits)
                 /\ LET written ==
                          [page EXCEPT !.claims = ClaimsOf(ApplyClaimEdits(applied, edits))]
                    IN /\ written \in Page
                       /\ Committing(h, <<Change(PagePath(p.target), written),
                                         Removal(req[h].id)>>)
  <1> DEFINE p       == req[h].proposal
             page    == TargetPage(p)
             applied == ApplyClaims(page.claims, p.change)
             n       == Len(page.claims) + Len(p.change.add)
  <1>1. /\ req[h].pc = "loaded" /\ req[h].op \in {"accept", "editAccept"}
        /\ TargetFits(p) /\ UNCHANGED <<vault, minted, acked, landed, faults>>
    BY DEF Accept
  <1>2. PICK edits \in EditsOf(req[h].op, req[h].id, applied) :
          /\ EditsAllowed(applied, edits)
          /\ Committing(h,
                << Change(PagePath(p.target),
                     [page EXCEPT !.claims = ClaimsOf(ApplyClaimEdits(applied, edits))]),
                   Change(ReviewPath(req[h].id), Absent) >>)
    BY DEF Accept
  <1> DEFINE written == [page EXCEPT !.claims = ClaimsOf(ApplyClaimEdits(applied, edits))]
  <1>3. IsProposal(p) /\ req[h].id \in ProposalIds
    BY <1>1 DEF IInv, TypeOK, IsRequest, Idle
  <1>4. page \in Page
    <2>1. CASE p.kind = "new_page"
      BY <2>1, VaultStartsWellFormed DEF TargetPage, Page
    <2>2. CASE p.kind # "new_page"
      BY <1>1, <1>3, <2>2 DEF TargetPage, TargetFits, IsProposal, IInv, TypeOK
    <2> QED BY <2>1, <2>2
  <1>5. n \in Nat /\ applied \in [1 .. n -> [claim : Claim, mark : Marks]]
    <2>1. page.claims \in Seq(Claim) /\ IsChange(p.change)
      BY <1>3, <1>4 DEF Page, IsProposal
    <2> HIDE DEF p, page
    <2> QED BY <2>1, ApplyClaimsShape
  <1>6. \A id \in DOMAIN edits : edits[id] = Rewording[req[h].id]
    <2> HIDE DEF p, applied
    <2>1. \/ edits = << >>
          \/ \E id \in Ids(ClaimsOf(applied)) :
               edits = [n0 \in {id} |-> Rewording[req[h].id]]
      BY <1>2 DEF EditsOf
    <2>2. CASE edits = << >>
      BY <2>2
    <2>3. CASE edits # << >>
      BY <2>1, <2>3
    <2> QED BY <2>2, <2>3
  <1>7. written \in Page
    <2> HIDE DEF n, page, applied
    <2>1. \A id \in DOMAIN edits : edits[id] \in Texts
      BY <1>3, <1>6, WordingsAreTexts
    <2> DEFINE edited == ApplyClaimEdits(applied, edits)
    <2>2. edited \in [1 .. n -> [claim : Claim, mark : Marks]]
      BY <1>5, <2>1, ApplyClaimEditsShape
    <2> HIDE DEF edited
    <2>3. \A k \in 1 .. n : edited[k].claim \in Claim
      BY <2>2
    <2>4. ClaimsOf(edited) \in [1 .. n -> Claim]
      BY <2>2, <2>3 DEF ClaimsOf
    <2>5. ClaimsOf(edited) \in Seq(Claim)
      BY <1>5, <2>4, SMTT(30)
    <2> QED BY <1>4, <2>5 DEF Page, edited
  <1> HIDE DEF p, page, applied, written
  <1>8. Committing(h, <<Change(PagePath(p.target), written), Removal(req[h].id)>>)
    BY <1>2 DEF Removal, written
  <1> QED BY <1>1, <1>2, <1>3, <1>4, <1>6, <1>7, <1>8 DEF p, page, applied, written

(* Both ways of accepting write a well-formed page.                           *)
LEMMA AcceptStep ==
  ASSUME IInv, NEW h \in Handlers, Accept(h)
  PROVE  IInv'
  <1>1. CASE Refuse(h)
    BY <1>1, RefuseStep
  <1>2. CASE ~ Refuse(h)
    <2> DEFINE p == req[h].proposal
    <2>1. PICK written \in Page :
            Committing(h, <<Change(PagePath(p.target), written), Removal(req[h].id)>>)
      BY <1>2, AcceptCommits DEF IInv
    <2>2. /\ req[h].pc = "loaded" /\ req[h].op \in {"accept", "editAccept"}
          /\ IsProposal(p) /\ UNCHANGED <<vault, minted, acked, landed, faults>>
      BY <1>2, AcceptCommits DEF IInv
    <2>3. WritesPage(Change(PagePath(p.target), written))
      BY <2>2 DEF WritesPage, Change, IsProposal
    <2> QED BY <2>1, <2>2, <2>3, DecisionCommits
  <1> QED BY <1>1, <1>2

(* Rejecting writes the copy of the proposal that was loaded.                 *)
LEMMA RejectStep ==
  ASSUME IInv, NEW h \in Handlers, Reject(h)
  PROVE  IInv'
  <1>1. CASE Refuse(h)
    BY <1>1, RefuseStep
  <1>2. CASE ~ Refuse(h)
    <2> DEFINE copy == Change(RejectedPath(req[h].id), req[h].proposal)
    <2>1. /\ req[h].pc = "loaded" /\ req[h].op = "reject"
          /\ Committing(h, <<copy, Change(ReviewPath(req[h].id), Absent)>>)
          /\ UNCHANGED <<vault, minted, acked, landed, faults>>
      BY <1>2 DEF Reject
    <2>2. IsProposal(req[h].proposal)
      BY <2>1 DEF IInv, TypeOK, IsRequest, Idle
    <2>3. WritesCopy(copy, req[h].id)
      BY <2>2 DEF WritesCopy, Change
    <2> HIDE DEF copy
    <2> QED BY <2>1, <2>3, DecisionCommits DEF Removal
  <1> QED BY <1>1, <1>2

(* What the propose tool files is a proposal, under an id nobody has.         *)
LEMMA BuildsAProposal ==
  ASSUME TypeOK, NEW h \in Handlers, Build(h)
  PROVE  \E i \in ProposalIds \ minted :
           \E p : /\ IsProposal(p)
                 /\ req' = [req EXCEPT ![h] = [pc |-> "built", op |-> "propose", id |-> i,
                                              proposal |-> p]]
                 /\ minted' = minted \cup {i}
                 /\ UNCHANGED <<vault, acked, landed, faults>>
  <1>1. PICK i \in ProposalIds \ minted, slug \in Slugs :
          LET found    == tree[PagePath(slug)]
              proposal == IF found = Absent
                          THEN Proposal("new_page", slug, Unpinned, AddOnly(i))
                          ELSE Proposal("claims", slug, found, AddOnly(i))
          IN /\ req' = [req EXCEPT ![h] = [pc |-> "built", op |-> "propose", id |-> i,
                                          proposal |-> proposal]]
             /\ minted' = minted \cup {i}
    BY DEF Build
  <1> DEFINE found    == tree[PagePath(slug)]
             proposal == IF found = Absent
                         THEN Proposal("new_page", slug, Unpinned, AddOnly(i))
                         ELSE Proposal("claims", slug, found, AddOnly(i))
  <1>2. found \in Page \cup {Absent}
    BY DEF TypeOK
  <1>3. IsChange(AddOnly(i))
    BY WordingsAreTexts DEF IsChange, AddOnly, Additions, Addition, Statuses
  <1>4. proposal \in AgentProposal
    BY <1>2 DEF AgentProposal, Proposal, Kinds
  <1>5. IsProposal(proposal)
    <2>1. /\ proposal.kind \in Kinds /\ proposal.target \in Slugs
          /\ proposal.pin \in Page \cup {Unpinned} /\ proposal.change = AddOnly(i)
      BY <1>2 DEF Proposal, Kinds
    <2> HIDE DEF proposal
    <2> QED BY <1>3, <1>4, <2>1, AbsentIsNoFile DEF IsProposal
  <1> HIDE DEF proposal
  <1> QED BY <1>1, <1>5 DEF proposal, Build

(* A freshly minted id is on no file, in no request and in no answer.         *)
LEMMA BuildStep ==
  ASSUME IInv, NEW h \in Handlers, Build(h)
  PROVE  IInv'
  <1>0. PICK i \in ProposalIds \ minted :
          \E p : /\ IsProposal(p)
                /\ req' = [req EXCEPT ![h] = [pc |-> "built", op |-> "propose", id |-> i,
                                             proposal |-> p]]
                /\ minted' = minted \cup {i}
                /\ UNCHANGED <<vault, acked, landed, faults>>
    BY BuildsAProposal DEF IInv
  <1>1. PICK p : /\ IsProposal(p)
                 /\ req' = [req EXCEPT ![h] = [pc |-> "built", op |-> "propose", id |-> i,
                                              proposal |-> p]]
                 /\ minted' = minted \cup {i}
                 /\ UNCHANGED <<vault, acked, landed, faults>>
    BY <1>0
  <1> DEFINE r == [pc |-> "built", op |-> "propose", id |-> i, proposal |-> p]
  <1>2. IsRequest(r) /\ r # Idle
    BY <1>1 DEF IsRequest, Idle
  <1>3. ~ Filed(i) /\ i \notin acked
    BY DEF IInv, IdsAreMinted, TypeOK
  <1>4. \A other \in Handlers \ {h} : req[other] = Idle \/ req[other].id # i
    BY DEF IInv, IdsAreMinted
  <1>5. r.pc = "built" /\ r.op = "propose" /\ r.id = i
    OBVIOUS
  <1> HIDE DEF r
  <1>6. Allowed(r, h)
    BY <1>2, <1>3, <1>4, <1>5 DEF Allowed
  <1>7. /\ minted \subseteq minted' /\ minted' \subseteq ProposalIds /\ i \in minted'
        /\ faults \in 0 .. MaxFaults
    BY <1>1 DEF IInv, TypeOK
  <1>8. req' = [req EXCEPT ![h] = r] /\ UNCHANGED <<vault, acked, landed, faults>>
    BY <1>1 DEF r
  <1> QED BY <1>2, <1>5, <1>6, <1>7, <1>8, RequestMoves

(* A built proposal is either refused or on its way to the inbox.             *)
LEMMA ProposeStep ==
  ASSUME IInv, NEW h \in Handlers, Propose(h)
  PROVE  IInv'
  <1>1. CASE Refuse(h)
    BY <1>1, RefuseStep
  <1>2. CASE ~ Refuse(h)
    <2> DEFINE write == Change(ReviewPath(req[h].id), req[h].proposal)
               r     == [pc |-> "committing", op |-> req[h].op, id |-> req[h].id,
                         todo |-> <<write>>]
    <2>1. /\ req[h].pc = "built" /\ req' = [req EXCEPT ![h] = r]
          /\ UNCHANGED <<vault, minted, acked, landed, faults>>
      BY <1>2 DEF Propose, Committing
    <2>2. /\ req[h].op = "propose" /\ req[h].id \in ProposalIds /\ req[h] # Idle
          /\ IsProposal(req[h].proposal)
      BY <2>1 DEF IInv, TypeOK, IsRequest, Idle
    <2>3. IsRequest(r) /\ r # Idle
      BY <2>2 DEF IsRequest, Idle
    <2>4. /\ ~ Filed(req[h].id) /\ req[h].id \notin acked /\ req[h].id \in minted
          /\ \A other \in Handlers \ {h} : req[other] = Idle \/ req[other].id # req[h].id
      BY <2>1, <2>2 DEF IInv, NotYetFiled, Filing, IdsAreMinted
    <2>5. FilesProposal(write, req[h].id)
      BY <2>2 DEF FilesProposal, Change
    <2> HIDE DEF write
    <2>6. /\ r.pc = "committing" /\ r.op = "propose" /\ r.id = req[h].id
          /\ r.todo = <<write>> /\ r.todo[1] = write
      BY <2>2
    <2> HIDE DEF r
    <2>7. TodoOK(r)
      BY <2>5, <2>6 DEF TodoOK
    <2>8. Allowed(r, h)
      BY <2>3, <2>4, <2>6, <2>7 DEF Allowed
    <2>9. minted \subseteq ProposalIds /\ faults \in 0 .. MaxFaults
      BY DEF IInv, TypeOK
    <2> QED BY <2>1, <2>3, <2>4, <2>6, <2>8, <2>9, RequestMoves
  <1> QED BY <1>1, <1>2

(* A crash forgets the requests and nothing on disk.                          *)
LEMMA CrashStep ==
  ASSUME IInv, Crash
  PROVE  IInv'
  <1>1. /\ req' = [h \in Handlers |-> Idle]
        /\ UNCHANGED <<tree, index, head, minted, acked, landed>>
        /\ faults' \in 0 .. MaxFaults
    BY FaultsAreCounted DEF Crash, Fault, vault, IInv, TypeOK
  <1>2. \A i : Filed(i)' = Filed(i)
    BY <1>1 DEF Filed, FiledIds, Pending, PendingIds, Rejected, RejectedIds
  <1>3. TypeOK'
    BY <1>1 DEF IInv, TypeOK, IsRequest
  <1>4. TodosOK' /\ NotYetFiled' /\ DecidesFiled' /\ RemovesOnRecord' /\ RemovedWhenDone'
    BY <1>1 DEF TodosOK, Committed, NotYetFiled, Filing, DecidesFiled, Deciding,
                RemovesOnRecord, RemovedWhenDone, Idle
  <1>5. InboxIsStaged' /\ DecidedStaysDecided' /\ IdsAreMinted'
    BY <1>1, <1>2 DEF IInv, InboxIsStaged, DecidedStaysDecided, IdsAreMinted
  <1> QED BY <1>3, <1>4, <1>5 DEF IInv

(* The owner's editor touches pages only.                                     *)
LEMMA OwnerStep ==
  ASSUME IInv, OwnerSavesPage
  PROVE  IInv'
  <1>1. PICK slug \in Slugs, page \in Page :
          tree' = [tree EXCEPT ![PagePath(slug)] = page]
    BY DEF OwnerSavesPage, SaveInEditor
  <1>2. UNCHANGED <<index, head, req, minted, acked, landed, faults>>
    BY DEF OwnerSavesPage, SaveInEditor
  <1>3. /\ tree' = [path \in Paths |-> tree'[path]]
        /\ tree'[PagePath(slug)] = page
        /\ \A path \in Paths \ {PagePath(slug)} : tree'[path] = tree[path]
    BY <1>1, PathsAreDistinct DEF IInv, TypeOK
  <1>4. \A i \in ProposalIds :
          /\ tree'[ReviewPath(i)] = tree[ReviewPath(i)]
          /\ tree'[RejectedPath(i)] = tree[RejectedPath(i)]
    BY <1>3, PathsAreDistinct
  <1>5. \A i \in ProposalIds :
          /\ Pending(i)' = Pending(i) /\ Rejected(i)' = Rejected(i)
          /\ Filed(i)' = Filed(i) /\ (i \in PendingIds)' = (i \in PendingIds)
    BY <1>2, <1>4 DEF Filed, FiledIds, Pending, PendingIds, Rejected, RejectedIds
  <1>6. TypeOK'
    <2>1. \A t \in Slugs : tree'[PagePath(t)] \in Page \cup {Absent}
      <3> SUFFICES ASSUME NEW t \in Slugs PROVE tree'[PagePath(t)] \in Page \cup {Absent}
        OBVIOUS
      <3>1. CASE t = slug
        BY <1>3, <3>1
      <3>2. CASE t # slug
        BY <1>3, <3>2, PathsAreDistinct DEF IInv, TypeOK
      <3> QED BY <3>1, <3>2
    <2> QED BY <1>2, <1>3, <1>4, <2>1 DEF IInv, TypeOK
  <1>7. \A h \in Handlers : req[h] # Idle => req[h].id \in ProposalIds
    BY DEF IInv, TypeOK, IsRequest
  <1>8. TodosOK' /\ InboxIsStaged' /\ DecidedStaysDecided' /\ IdsAreMinted'
    BY <1>2, <1>4, <1>5, <1>7
       DEF IInv, TodosOK, InboxIsStaged, DecidedStaysDecided, IdsAreMinted, TypeOK
  <1>9. NotYetFiled' /\ DecidesFiled' /\ RemovesOnRecord' /\ RemovedWhenDone'
    BY <1>2, <1>5, <1>7
       DEF IInv, NotYetFiled, Filing, DecidesFiled, Deciding, RemovesOnRecord,
           RemovedWhenDone, Idle
  <1> QED BY <1>6, <1>8, <1>9 DEF IInv

(* The end of a commit: what is staged becomes HEAD.                          *)
LEMMA FinishStep ==
  ASSUME IInv, NEW h \in Handlers, Finish(h)
  PROVE  IInv'
  <1>1. /\ req[h].pc = "committing" /\ req[h].todo = << >>
        /\ head' = index /\ UNCHANGED <<tree, index, minted, landed, faults>>
        /\ req' = [req EXCEPT ![h] = Idle]
        /\ acked' = acked \cup {i \in {req[h].id} : req[h].op # "propose"}
    BY DEF Finish, RecordIndex, Answer
  <1>2. /\ req'[h] = Idle
        /\ \A other \in Handlers \ {h} : req'[other] = req[other]
    BY <1>1 DEF IInv, TypeOK
  <1>3. req[h].id \in minted /\ req[h].id \in ProposalIds /\ req[h] # Idle
    BY <1>1 DEF IInv, TypeOK, IsRequest, IdsAreMinted, Idle
  <1>4. /\ \A i : /\ Pending(i)' = Pending(i) /\ Rejected(i)' = Rejected(i)
                  /\ Filed(i)' = Filed(i)
        /\ PendingIds' = PendingIds
    BY <1>1 DEF Filed, FiledIds, Pending, PendingIds, Rejected, RejectedIds
  <1>5. TypeOK'
    <2>1. acked' \cup landed' \subseteq minted' /\ minted' \subseteq ProposalIds
      BY <1>1, <1>3 DEF IInv, TypeOK
    <2>2. req' = [x \in Handlers |-> req'[x]] /\ \A x \in Handlers : IsRequest(req'[x])
      BY <1>1, <1>2 DEF IInv, TypeOK, IsRequest
    <2> QED BY <1>1, <2>1, <2>2 DEF IInv, TypeOK
  <1>6. TodosOK' /\ InboxIsStaged' /\ IdsAreMinted' /\ DecidesFiled'
    BY <1>1, <1>2, <1>4
       DEF IInv, TodosOK, Committed, InboxIsStaged, IdsAreMinted, DecidesFiled, Deciding,
           Idle
  <1>7. RemovesOnRecord' /\ RemovedWhenDone'
    BY <1>1, <1>2, <1>4 DEF IInv, RemovesOnRecord, RemovedWhenDone, Deciding, Idle
  <1>8. req[h].op # "propose" => ~ Pending(req[h].id) /\ Filed(req[h].id)
    <2>1. req[h].op # "propose" => Deciding(h)
      BY <1>1 DEF IInv, TypeOK, IsRequest, Deciding, Idle
    <2> QED BY <1>1, <1>3, <2>1 DEF IInv, RemovedWhenDone, DecidesFiled, PendingIds
  <1>9. DecidedStaysDecided'
    <2> SUFFICES ASSUME NEW i \in acked'
                 PROVE  /\ tree[ReviewPath(i)] = Absent /\ index[ReviewPath(i)] = Absent
      BY <1>1 DEF DecidedStaysDecided
    <2>1. CASE i \in acked
      BY <2>1 DEF IInv, DecidedStaysDecided
    <2>2. CASE i \notin acked
      <3>1. i = req[h].id /\ ~ Pending(i) /\ i \in ProposalIds
        BY <1>1, <1>3, <1>8, <2>2
      <3> QED BY <3>1 DEF Pending, IInv, InboxIsStaged
    <2> QED BY <2>1, <2>2
  <1>10. NotYetFiled'
    <2> SUFFICES ASSUME NEW x \in Handlers, Filing(x)'
                 PROVE  /\ ~ Filed(req'[x].id) /\ req'[x].id \notin acked'
                        /\ \A y \in Handlers \ {x} :
                             req'[y] = Idle \/ req'[y].id # req'[x].id
      BY <1>4 DEF NotYetFiled
    <2>1. x # h /\ req'[x] = req[x] /\ Filing(x)
      BY <1>2 DEF Filing, Idle
    <2>2. /\ ~ Filed(req[x].id) /\ req[x].id \notin acked
          /\ \A y \in Handlers \ {x} : req[y] = Idle \/ req[y].id # req[x].id
      BY <2>1 DEF IInv, NotYetFiled
    <2>3. req[x].id # req[h].id
      BY <1>3, <2>1, <2>2
    <2> QED BY <1>1, <1>2, <2>1, <2>2, <2>3
  <1> QED BY <1>5, <1>6, <1>7, <1>9, <1>10 DEF IInv

------------------------------------------------------------------------------
(* Commit, one file at a time.                                                *)

(* What a write at one path leaves of a store.                                *)
LEMMA OnePathWritten ==
  ASSUME NEW store, store = [q \in Paths |-> store[q]], NEW path \in Paths, NEW data,
         NEW new, new = [store EXCEPT ![path] = data]
  PROVE  /\ new = [q \in Paths |-> new[q]] /\ new[path] = data
         /\ \A q \in Paths \ {path} : new[q] = store[q]
  OBVIOUS

(* A store all of whose files suit their paths, as TypeOK has it.             *)
WellFormed(store) ==
  /\ store = [path \in Paths |-> store[path]]
  /\ \A slug \in Slugs : store[PagePath(slug)] \in Page \cup {Absent}
  /\ \A i \in ProposalIds :
       /\ store[ReviewPath(i)] # Absent => IsProposal(store[ReviewPath(i)])
       /\ store[RejectedPath(i)] # Absent => IsProposal(store[RejectedPath(i)])

Suits(data, path) ==
  /\ \A s \in Slugs : path = PagePath(s) => data \in Page \cup {Absent}
  /\ \A i \in ProposalIds :
       path = ReviewPath(i) \/ path = RejectedPath(i) => data = Absent \/ IsProposal(data)

LEMMA WellFormedWrite ==
  ASSUME NEW store, WellFormed(store), NEW path \in Paths, NEW data, Suits(data, path),
         NEW new, new = [store EXCEPT ![path] = data]
  PROVE  WellFormed(new)
  <1>1. /\ new = [q \in Paths |-> new[q]] /\ new[path] = data
        /\ \A q \in Paths \ {path} : new[q] = store[q]
    BY OnePathWritten DEF WellFormed
  <1>2. ASSUME NEW s \in Slugs PROVE new[PagePath(s)] \in Page \cup {Absent}
    <2>1. CASE path = PagePath(s)
      BY <1>1, <2>1 DEF Suits
    <2>2. CASE path # PagePath(s)
      BY <1>1, <2>2, PathsAreDistinct DEF WellFormed
    <2> QED BY <2>1, <2>2
  <1>3. ASSUME NEW i \in ProposalIds, NEW q \in {ReviewPath(i), RejectedPath(i)}
        PROVE  new[q] # Absent => IsProposal(new[q])
    <2>1. CASE path = q
      BY <1>1, <2>1 DEF Suits
    <2>2. CASE path # q
      <3>1. new[q] = store[q]
        BY <1>1, <2>2, PathsAreDistinct
      <3> QED BY <3>1 DEF WellFormed
    <2> QED BY <2>1, <2>2
  <1> QED BY <1>1, <1>2, <1>3 DEF WellFormed

(* What one step of a commit must do to keep the invariant: the request goes  *)
(* on, and the sets of proposals pending, rejected and landed move as a       *)
(* filing or a decision moves them.                                           *)
LEMMA CommitKeeps ==
  ASSUME IInv, NEW h \in Handlers, Committed(req[h]),
         NEW r, IsRequest(r), Committed(r), r.id = req[h].id, r.op = req[h].op,
         req' = [req EXCEPT ![h] = r], UNCHANGED <<head, minted, acked, faults>>,
         WellFormed(tree'), WellFormed(index'), landed' \subseteq landed \cup {r.id},
         TodoOK(r), r.pc = "written" => r.todo # << >> /\ r.todo[1].data # Absent,
         InboxIsStaged',
         landed \subseteq landed', RejectedIds \subseteq RejectedIds',
         FiledIds \subseteq FiledIds', FiledIds' \subseteq FiledIds \cup {r.id},
         PendingIds' \subseteq PendingIds \cup {r.id},
         \/ /\ r.op = "propose" /\ (r.pc = "written" \/ r.todo = << >>)
            /\ r.id \notin acked \/ PendingIds' \subseteq PendingIds
         \/ /\ r.op \in Decisions /\ PendingIds' \subseteq PendingIds
            /\ Wrote(r) => r.id \in landed' \cup RejectedIds'
            /\ r.pc = "committing" /\ r.todo = << >> => r.id \notin PendingIds',
         req[h].op = "propose" =>
           \/ PendingIds' \subseteq PendingIds /\ FiledIds' \subseteq FiledIds
           \/ \A x \in Handlers \ {h} : req[x] = Idle \/ req[x].id # r.id
  PROVE  IInv'
  <1>1. /\ req' = [x \in Handlers |-> req'[x]] /\ req'[h] = r
        /\ \A other \in Handlers \ {h} : req'[other] = req[other]
    BY DEF IInv, TypeOK
  <1>2. /\ req[h] # Idle /\ r # Idle /\ r.id \in minted /\ r.id \in ProposalIds
        /\ req[h].id = r.id
    BY DEF Committed, Idle, IInv, IdsAreMinted, TypeOK
  <1>3. "propose" \notin Decisions
    BY DEF Decisions
  <1>4. TypeOK'
    <2>1. \A x \in Handlers : IsRequest(req'[x])
      BY <1>1 DEF IInv, TypeOK
    <2>2. WellFormed(head)
      BY DEF IInv, TypeOK, WellFormed
    <2> QED BY <1>1, <1>2, <2>1, <2>2, ZenonT(30) DEF IInv, TypeOK, WellFormed
  <1>5. TodosOK'
    BY <1>1 DEF IInv, TodosOK, Committed
  <1>6. IdsAreMinted'
    BY <1>1, <1>2 DEF IInv, IdsAreMinted, Filed
  <1>7. ASSUME NEW x \in Handlers \ {h}, Filing(x)
        PROVE  req[x].id # r.id
    BY <1>2, <1>7 DEF IInv, NotYetFiled
  <1>8. NotYetFiled'
    <2> SUFFICES ASSUME NEW x \in Handlers, Filing(x)'
                 PROVE  /\ req'[x].id \notin FiledIds' /\ req'[x].id \notin acked
                        /\ \A y \in Handlers \ {x} :
                             req'[y] = Idle \/ req'[y].id # req'[x].id
      BY DEF NotYetFiled, Filed
    <2>1. x # h
      BY <1>1, <1>3 DEF Filing, Committed
    <2>2. req'[x] = req[x] /\ Filing(x)
      BY <1>1, <2>1 DEF Filing
    <2>3. /\ req[x].id \notin FiledIds /\ req[x].id \notin acked
          /\ \A y \in Handlers \ {x} : req[y] = Idle \/ req[y].id # req[x].id
      BY <2>2 DEF IInv, NotYetFiled, Filed
    <2>4. req[x].id # r.id
      BY <1>7, <2>1, <2>2
    <2> QED BY <1>1, <2>1, <2>2, <2>3, <2>4
  <1>9. DecidesFiled'
    <2> SUFFICES ASSUME NEW x \in Handlers, Deciding(x)' PROVE req'[x].id \in FiledIds'
      BY DEF DecidesFiled, Filed
    <2>1. Deciding(x) /\ req'[x].id = req[x].id
      BY <1>1, <1>2 DEF Deciding, Committed
    <2> QED BY <2>1 DEF IInv, DecidesFiled, Filed
  <1>10. RemovesOnRecord'
    <2> SUFFICES ASSUME NEW x \in Handlers, Deciding(x)', Wrote(req'[x])
                 PROVE  req'[x].id \in landed' \cup RejectedIds'
      BY DEF RemovesOnRecord, Rejected, Wrote
    <2>1. CASE x # h
      BY <1>1, <2>1 DEF IInv, RemovesOnRecord, Deciding, Rejected
    <2>2. CASE x = h
      BY <1>1, <1>3, <2>2 DEF Deciding
    <2> QED BY <2>1, <2>2
  <1>11. RemovedWhenDone'
    <2> SUFFICES ASSUME NEW x \in Handlers, Deciding(x)', req'[x].pc = "committing",
                        req'[x].todo = << >>
                 PROVE  req'[x].id \notin PendingIds'
      BY DEF RemovedWhenDone
    <2>1. CASE x # h
      <3>1. /\ Deciding(x) /\ req[x].todo = << >> /\ req[x].pc = "committing"
            /\ req'[x].id = req[x].id /\ req[x] # Idle
        BY <1>1, <2>1 DEF Deciding, Idle
      <3>2. req[x].id \notin PendingIds
        BY <3>1 DEF IInv, RemovedWhenDone
      <3> QED BY <1>2, <2>1, <3>1, <3>2
    <2>2. CASE x = h
      BY <1>1, <1>3, <2>2 DEF Deciding
    <2> QED BY <2>1, <2>2
  <1>12. DecidedStaysDecided'
    <2> SUFFICES ASSUME NEW j \in acked
                 PROVE  /\ tree'[ReviewPath(j)] = Absent /\ index'[ReviewPath(j)] = Absent
                        /\ head'[ReviewPath(j)] = Absent
      BY DEF DecidedStaysDecided
    <2>1. /\ j \in ProposalIds /\ j \notin PendingIds /\ head[ReviewPath(j)] = Absent
      BY DEF IInv, TypeOK, DecidedStaysDecided, PendingIds, Pending
    <2>2. j \notin PendingIds'
      BY <1>3, <2>1
    <2>3. tree'[ReviewPath(j)] = Absent
      BY <2>1, <2>2 DEF PendingIds, Pending
    <2> QED BY <2>1, <2>3 DEF InboxIsStaged
  <1> QED BY <1>4, <1>5, <1>6, <1>8, <1>9, <1>10, <1>11, <1>12 DEF IInv

(* What a step of a commit means for the inbox: a proposal is filed, landed,  *)
(* copied or taken out, or nothing it shows changes.                          *)
InboxStep(i) ==
  \/ /\ PendingIds' = PendingIds /\ landed' = landed /\ RejectedIds' = RejectedIds
  \/ /\ i \notin FiledIds /\ PendingIds' = PendingIds \cup {i}
     /\ landed' = landed /\ RejectedIds' = RejectedIds
  \/ /\ i \in FiledIds /\ landed' = landed \cup {i}
     /\ PendingIds' = PendingIds /\ RejectedIds' = RejectedIds
  \/ /\ i \in FiledIds /\ RejectedIds' = RejectedIds \cup {i}
     /\ PendingIds' = PendingIds /\ landed' = landed
  \/ /\ i \in landed \cup RejectedIds /\ PendingIds' = PendingIds \ {i}
     /\ landed' = landed /\ RejectedIds' = RejectedIds

\* No other request has the id a propose request is about to file under.
FilesItsOwn ==
  \A h \in Handlers : Filing(h) =>
    \A other \in Handlers \ {h} : req[other] = Idle \/ req[other].id # req[h].id

\* What the requests hold to beside an extraction run too.
WInv == TypeOK /\ TodosOK /\ FilesItsOwn

LEMMA InvariantStands == IInv => WInv
  BY DEF IInv, WInv, NotYetFiled, FilesItsOwn

(* The request of a commit before its next step.                              *)
LEMMA CommitIs ==
  ASSUME WInv, NEW h \in Handlers, Committed(req[h])
  PROVE  /\ req[h].id \in ProposalIds /\ req[h] # Idle
         /\ req[h].op \in Decisions \cup {"propose"} /\ TodoOK(req[h])
         /\ req[h] = [pc |-> req[h].pc, op |-> req[h].op, id |-> req[h].id,
                      todo |-> req[h].todo]
         /\ req[h].pc = "written" => req[h].todo # << >> /\ req[h].todo[1].data # Absent
         /\ Filing(h) => \A x \in Handlers \ {h} : req[x] = Idle \/ req[x].id # req[h].id
         /\ WellFormed(tree) /\ WellFormed(index)
  <1>1. req[h] # Idle
    BY DEF Committed, Idle
  <1>2. IsRequest(req[h])
    BY DEF WInv, TypeOK
  <1>3. /\ req[h].id \in ProposalIds /\ req[h].op \in Decisions \cup {"propose"}
        /\ req[h] = [pc |-> req[h].pc, op |-> req[h].op, id |-> req[h].id,
                     todo |-> req[h].todo]
    BY <1>1, <1>2 DEF IsRequest, Committed
  <1>4. /\ TodoOK(req[h])
        /\ req[h].pc = "written" => req[h].todo # << >> /\ req[h].todo[1].data # Absent
    BY DEF WInv, TodosOK
  <1>5. WellFormed(tree) /\ WellFormed(index)
    BY DEF WInv, TypeOK, WellFormed
  <1> QED BY <1>1, <1>3, <1>4, <1>5 DEF WInv, FilesItsOwn

(* The same, of one that no run can have got in the way of.                   *)
LEMMA CommitRequest ==
  ASSUME IInv, NEW h \in Handlers, Committed(req[h])
  PROVE  /\ req[h].id \in ProposalIds /\ req[h].id \in minted /\ req[h] # Idle
         /\ req[h].op \in Decisions \cup {"propose"} /\ TodoOK(req[h])
         /\ req[h] = [pc |-> req[h].pc, op |-> req[h].op, id |-> req[h].id,
                      todo |-> req[h].todo]
         /\ req[h].pc = "written" => req[h].todo # << >> /\ req[h].todo[1].data # Absent
         /\ req[h].op \in Decisions => req[h].id \in FiledIds
         /\ req[h].op \in Decisions /\ Wrote(req[h]) => req[h].id \in landed \cup RejectedIds
         /\ Filing(h) => /\ req[h].id \notin FiledIds /\ req[h].id \notin acked
                         /\ \A x \in Handlers \ {h} : req[x] = Idle \/ req[x].id # req[h].id
         /\ WellFormed(tree) /\ WellFormed(index)
  <1>1. /\ req[h].id \in ProposalIds /\ req[h] # Idle
        /\ req[h].op \in Decisions \cup {"propose"} /\ TodoOK(req[h])
        /\ req[h] = [pc |-> req[h].pc, op |-> req[h].op, id |-> req[h].id,
                     todo |-> req[h].todo]
        /\ req[h].pc = "written" => req[h].todo # << >> /\ req[h].todo[1].data # Absent
        /\ WellFormed(tree) /\ WellFormed(index)
    BY InvariantStands, CommitIs
  <1>2. req[h].id \in minted
    BY <1>1 DEF IInv, IdsAreMinted
  <1>3. req[h].op \in Decisions => Deciding(h)
    BY DEF Deciding, Committed
  <1>4. req[h].op \in Decisions => req[h].id \in FiledIds
    BY <1>3 DEF IInv, DecidesFiled, Filed
  <1>5. req[h].op \in Decisions /\ Wrote(req[h]) => req[h].id \in landed \cup RejectedIds
    BY <1>3 DEF IInv, RemovesOnRecord, Rejected
  <1>6. Filing(h) => /\ req[h].id \notin FiledIds /\ req[h].id \notin acked
                     /\ \A x \in Handlers \ {h} : req[x] = Idle \/ req[x].id # req[h].id
    BY DEF IInv, NotYetFiled, Filed
  <1> QED BY <1>1, <1>2, <1>4, <1>5, <1>6

(* The next change of a commit, by the kind of request.                       *)
LEMMA NextChange ==
  ASSUME TodosOK, NEW h \in Handlers, Committed(req[h]), req[h].todo # << >>
  PROVE  LET i == req[h].id
             change == Head(req[h].todo)
             rest == Tail(req[h].todo)
         IN /\ change = req[h].todo[1]
            /\ \/ /\ req[h].op = "propose" /\ rest = << >>
                  /\ change.path = ReviewPath(i) /\ IsProposal(change.data)
               \/ /\ req[h].op \in {"accept", "editAccept"} /\ rest = <<Removal(i)>>
                  /\ change.data \in Page
                  /\ \E slug \in Slugs : change.path = PagePath(slug)
               \/ /\ req[h].op = "reject" /\ rest = <<Removal(i)>>
                  /\ change.path = RejectedPath(i) /\ IsProposal(change.data)
               \/ /\ req[h].op \in Decisions /\ rest = << >>
                  /\ req[h].todo = <<Removal(i)>> /\ change = Removal(i)
  <1> DEFINE r == req[h]
             i == r.id
  <1>1. TodoOK(r)
    BY DEF TodosOK
  <1>2. CASE r.op = "propose" /\ r.todo = <<r.todo[1]>> /\ FilesProposal(r.todo[1], i)
    <2>1. Head(r.todo) = r.todo[1] /\ Tail(r.todo) = << >>
      BY <1>2, ShortTodos
    <2>2. r.todo[1].path = ReviewPath(i) /\ IsProposal(r.todo[1].data)
      BY <1>2 DEF FilesProposal, Change
    <2> QED BY <1>2, <2>1, <2>2
  <1>3. CASE r.op \in Decisions /\ r.todo = <<Removal(i)>>
    <2>1. /\ Head(r.todo) = Removal(i) /\ r.todo[1] = Removal(i) /\ Tail(r.todo) = << >>
      BY <1>3
    <2> QED BY <1>3, <2>1
  <1>4. CASE /\ r.op \in {"accept", "editAccept"}
             /\ r.todo = <<r.todo[1], Removal(i)>> /\ WritesPage(r.todo[1])
    <2>1. Head(r.todo) = r.todo[1] /\ Tail(r.todo) = <<Removal(i)>>
      BY <1>4, ShortTodos
    <2>2. r.todo[1].data \in Page /\ \E slug \in Slugs : r.todo[1].path = PagePath(slug)
      BY <1>4 DEF WritesPage, Change
    <2> QED BY <1>4, <2>1, <2>2
  <1>5. CASE /\ r.op = "reject"
             /\ r.todo = <<r.todo[1], Removal(i)>> /\ WritesCopy(r.todo[1], i)
    <2>1. Head(r.todo) = r.todo[1] /\ Tail(r.todo) = <<Removal(i)>>
      BY <1>5, ShortTodos
    <2>2. r.todo[1].path = RejectedPath(i) /\ IsProposal(r.todo[1].data)
      BY <1>5 DEF WritesCopy, Change
    <2> QED BY <1>5, <2>1, <2>2
  <1> QED BY <1>1, <1>2, <1>3, <1>4, <1>5 DEF TodoOK

(* Taking the proposal out of the inbox.                                      *)
LEMMA RemoveStep ==
  ASSUME IInv, NEW h \in Handlers, RemoveNext(h)
  PROVE  IInv' /\ req[h].id \in ProposalIds /\ InboxStep(req[h].id)
  <1> DEFINE i == req[h].id
             path == Head(req[h].todo).path
             r == [pc |-> "committing", op |-> req[h].op, id |-> i, todo |-> Tail(req[h].todo)]
  <1>1. /\ req[h].pc = "committing" /\ req[h].todo # << >> /\ Head(req[h].todo).data = Absent
        /\ StageRemoval(path) /\ req' = [req EXCEPT ![h] = r]
        /\ UNCHANGED <<head, minted, acked, landed, faults>>
    BY DEF RemoveNext, Committing
  <1>2. Committed(req[h])
    BY <1>1 DEF Committed
  <1>3. /\ req[h].op \in Decisions /\ Tail(req[h].todo) = << >>
        /\ req[h].todo = <<Removal(i)>> /\ Head(req[h].todo) = Removal(i)
    BY <1>1, <1>2, NextChange, WritesAreNotRemovals DEF IInv
  <1>4. path = ReviewPath(i) /\ i \in ProposalIds /\ path \in Paths
    <2>1. path = ReviewPath(i)
      BY <1>3 DEF Removal, Change
    <2>2. i \in ProposalIds
      BY <1>2, CommitRequest
    <2> QED BY <2>1, <2>2, PathsAreDistinct
  <1>5. i \in landed \cup RejectedIds
    <2>1. Len(req[h].todo) <= 1
      BY <1>3
    <2>2. Wrote(req[h])
      BY <1>1, <2>1 DEF Wrote
    <2> QED BY <1>2, <1>3, <2>2, CommitRequest
  <1>6. r.pc = "committing" /\ r.op = req[h].op /\ r.id = i /\ r.todo = << >>
    BY <1>3
  <1>7. IsRequest(r)
    BY <1>3, <1>4 DEF IsRequest
  <1> HIDE DEF r, path
  <1>8. TodoOK(r) /\ Committed(r)
    BY <1>6 DEF TodoOK, Committed
  <1>9. /\ WellFormed(tree') /\ WellFormed(index') /\ InboxIsStaged'
        /\ RejectedIds' = RejectedIds /\ PendingIds' = PendingIds \ {i}
    <2>1. WellFormed(tree) /\ WellFormed(index) /\ InboxIsStaged
      BY <1>2, CommitRequest DEF IInv
    <2>2. CASE tree[path] = Absent
      <3>1. UNCHANGED <<tree, index>> /\ ~ Pending(i)
        BY <1>1, <1>4, <2>2 DEF StageRemoval, Pending, path
      <3>2. WellFormed(tree') /\ WellFormed(index') /\ InboxIsStaged'
        BY <2>1, <3>1 DEF InboxIsStaged
      <3> QED BY <3>1, <3>2 DEF RejectedIds, PendingIds, Pending
    <2>3. CASE tree[path] # Absent
      <3>1. /\ tree' = [tree EXCEPT ![path] = Absent]
            /\ index' = [index EXCEPT ![path] = Absent]
        BY <1>1, <2>3 DEF StageRemoval, path
      <3>2. Suits(Absent, path)
        BY DEF Suits
      <3>3. WellFormed(tree') /\ WellFormed(index')
        BY <1>4, <2>1, <3>1, <3>2, WellFormedWrite
      <3>4. /\ tree'[path] = Absent /\ index'[path] = Absent
            /\ \A q \in Paths \ {path} : tree'[q] = tree[q] /\ index'[q] = index[q]
        BY <1>4, <2>1, <3>1, OnePathWritten DEF WellFormed
      <3>5. /\ \A j \in ProposalIds : tree'[RejectedPath(j)] = tree[RejectedPath(j)]
            /\ \A j \in ProposalIds \ {i} : /\ tree'[ReviewPath(j)] = tree[ReviewPath(j)]
                                            /\ index'[ReviewPath(j)] = index[ReviewPath(j)]
        BY <1>4, <3>4, PathsAreDistinct
      <3>6. InboxIsStaged'
        BY <1>4, <2>1, <3>4, <3>5 DEF InboxIsStaged
      <3> QED BY <1>4, <3>3, <3>4, <3>5, <3>6 DEF RejectedIds, PendingIds, Pending
    <2> QED BY <2>2, <2>3
  <1>10. IInv'
    <2>1. req[h].op # "propose"
      BY <1>3 DEF Decisions
    <2> QED BY <1>1, <1>2, <1>3, <1>5, <1>6, <1>7, <1>8, <1>9, <2>1, CommitKeeps DEF FiledIds
  <1> QED BY <1>1, <1>4, <1>5, <1>9, <1>10 DEF InboxStep

(* Staging what was written.                                                  *)
LEMMA AddStep ==
  ASSUME IInv, NEW h \in Handlers, AddNext(h)
  PROVE  IInv' /\ UNCHANGED <<tree, landed>>
  <1>1. CASE Refuse(h)
    BY <1>1, RefuseStep DEF Refuse, vault
  <1>2. CASE ~ Refuse(h)
    <2> DEFINE i == req[h].id
               path == Head(req[h].todo).path
               r == [pc |-> "committing", op |-> req[h].op, id |-> i,
                     todo |-> Tail(req[h].todo)]
    <2>1. /\ req[h].pc = "written" /\ index' = [index EXCEPT ![path] = tree[path]]
          /\ req' = [req EXCEPT ![h] = r]
          /\ UNCHANGED <<tree, head, minted, acked, landed, faults>>
      BY <1>2 DEF AddNext, Add, Committing
    <2>2. Committed(req[h])
      BY <2>1 DEF Committed
    <2>3. /\ req[h].todo # << >> /\ Head(req[h].todo).data # Absent
          /\ req[h].op \in Decisions \cup {"propose"} /\ i \in ProposalIds
      BY <2>1, <2>2, CommitRequest, NextChange DEF IInv
    <2>4. /\ path \in Paths
          /\ \/ req[h].op = "propose" /\ Tail(req[h].todo) = << >>
             \/ req[h].op \in Decisions /\ Tail(req[h].todo) = <<Removal(i)>>
      <3>1. Removal(i).data = Absent
        BY DEF Removal, Change
      <3>2. /\ \/ path = ReviewPath(i) \/ path = RejectedPath(i)
               \/ \E slug \in Slugs : path = PagePath(slug)
            /\ \/ req[h].op = "propose" /\ Tail(req[h].todo) = << >>
               \/ /\ req[h].op \in {"accept", "editAccept", "reject"}
                  /\ Tail(req[h].todo) = <<Removal(i)>>
        BY <2>2, <2>3, <3>1, NextChange DEF IInv
      <3> HIDE DEF path
      <3> QED BY <2>3, <3>2, PathsAreDistinct DEF Decisions
    <2>5. req[h].op \in Decisions => i \in landed \cup RejectedIds
      <3>1. req[h].pc = "written"
        BY <2>1
      <3>2. Wrote(req[h])
        BY <3>1 DEF Wrote
      <3> QED BY <2>2, <3>2, CommitRequest
    <2>6. /\ r.pc = "committing" /\ r.op = req[h].op /\ r.id = i
          /\ r.todo = Tail(req[h].todo)
      OBVIOUS
    <2>7. IsRequest(r)
      BY <2>3 DEF IsRequest
    <2> HIDE DEF r, path
    <2>8. TodoOK(r) /\ Committed(r)
      BY <2>4, <2>6 DEF TodoOK, Committed
    <2>9. /\ RejectedIds' = RejectedIds /\ PendingIds' = PendingIds /\ FiledIds' = FiledIds
      BY <2>1 DEF RejectedIds, PendingIds, Pending, FiledIds
    <2>10. WellFormed(tree) /\ WellFormed(index) /\ InboxIsStaged
      BY <2>2, CommitRequest DEF IInv
    <2>11. WellFormed(index') /\ InboxIsStaged'
      <3>1. Suits(tree[path], path)
        BY <2>10 DEF WellFormed, Suits
      <3>2. \A q \in Paths : index'[q] \in {index[q], tree[q]}
        BY <2>1, <2>4, <2>10, OnePathWritten DEF WellFormed
      <3>3. InboxIsStaged'
        BY <2>1, <2>10, <3>2, PathsAreDistinct DEF InboxIsStaged
      <3> QED BY <2>1, <2>4, <2>10, <3>1, <3>3, WellFormedWrite
    <2>12. << >> # <<Removal(i)>> /\ "propose" \notin Decisions
      BY DEF Decisions
    <2> QED BY <2>1, <2>2, <2>4, <2>5, <2>6, <2>7, <2>8, <2>9, <2>10, <2>11, <2>12, CommitKeeps
  <1> QED BY <1>1, <1>2

(* Writing a proposal, a page or a rejected copy.                             *)
LEMMA WriteStep ==
  ASSUME IInv, NEW h \in Handlers, WriteNext(h)
  PROVE  IInv' /\ req[h].id \in ProposalIds /\ InboxStep(req[h].id)
  <1> DEFINE i == req[h].id
             data == Head(req[h].todo).data
             path == Head(req[h].todo).path
             r == [pc |-> "written", op |-> req[h].op, id |-> i, todo |-> req[h].todo]
  <1>1. /\ req[h].pc = "committing" /\ req[h].todo # << >> /\ data # Absent
        /\ tree' = [tree EXCEPT ![path] = data]
        /\ landed' = landed \cup {j \in {i} : path[1] = "page"}
        /\ req' = [req EXCEPT ![h].pc = "written"]
        /\ UNCHANGED <<index, head, minted, acked, faults>>
    BY DEF WriteNext, WriteFile
  <1>2. Committed(req[h])
    BY <1>1 DEF Committed
  <1>3. /\ i \in ProposalIds /\ TodoOK(req[h]) /\ WellFormed(tree) /\ WellFormed(index)
        /\ req[h].op \in Decisions \cup {"propose"} /\ InboxIsStaged
        /\ req[h].op \in Decisions => i \in FiledIds
    BY <1>2, CommitRequest DEF IInv
  <1>4. req' = [req EXCEPT ![h] = r]
    <2>1. [req[h] EXCEPT !.pc = "written"] = r
      <3>1. req[h] = [pc |-> req[h].pc, op |-> req[h].op, id |-> i, todo |-> req[h].todo]
        BY <1>2, CommitRequest
      <3> QED BY <3>1
    <2>2. req' = [req EXCEPT ![h] = [req[h] EXCEPT !.pc = "written"]]
      BY <1>1
    <2> QED BY <2>1, <2>2
  <1>5. /\ r.pc = "written" /\ r.op = req[h].op /\ r.id = i /\ r.todo = req[h].todo
    OBVIOUS
  <1>6. IsRequest(r)
    BY <1>3 DEF IsRequest
  <1>7. data = req[h].todo[1].data
    BY <1>1, <1>2, NextChange DEF IInv
  <1> HIDE DEF r, data, path
  <1>8. TodoOK(r) /\ Committed(r) /\ r.todo # << >> /\ r.todo[1].data # Absent
    BY <1>1, <1>3, <1>5, <1>7 DEF TodoOK, Committed
  <1>9. \/ req[h].op = "propose" /\ path = ReviewPath(i) /\ IsProposal(data)
        \/ /\ req[h].op \in {"accept", "editAccept"} /\ data \in Page
           /\ \E slug \in Slugs : path = PagePath(slug)
        \/ req[h].op = "reject" /\ path = RejectedPath(i) /\ IsProposal(data)
    <2>1. Removal(i).data = Absent
      BY DEF Removal, Change
    <2> QED BY <1>1, <1>2, <2>1, NextChange DEF IInv, data, path
  <1>10. path \in Paths /\ Suits(data, path)
    BY <1>3, <1>9, PathsAreDistinct DEF Suits
  <1>11. /\ WellFormed(tree') /\ tree'[path] = data
         /\ \A q \in Paths \ {path} : tree'[q] = tree[q]
    BY <1>1, <1>3, <1>10, WellFormedWrite, OnePathWritten DEF WellFormed
  <1>12. WellFormed(index')
    BY <1>1, <1>3
  <1>13. "propose" \notin Decisions /\ "reject" \in Decisions
         /\ {"accept", "editAccept"} \subseteq Decisions
    BY DEF Decisions
  <1> USE <1>1, <1>2, <1>3, <1>4, <1>5, <1>6, <1>8, <1>11, <1>12, <1>13
  <1>14. CASE req[h].op = "propose" /\ path = ReviewPath(i) /\ IsProposal(data)
    <2>1. /\ i \notin FiledIds /\ i \notin acked
          /\ \A x \in Handlers \ {h} : req[x] = Idle \/ req[x].id # i
      BY <1>14, CommitRequest DEF Filing
    <2>2. /\ \A j \in ProposalIds : tree'[RejectedPath(j)] = tree[RejectedPath(j)]
          /\ \A j \in ProposalIds \ {i} : tree'[ReviewPath(j)] = tree[ReviewPath(j)]
      BY <1>14, PathsAreDistinct
    <2>3. /\ RejectedIds' = RejectedIds /\ PendingIds' = PendingIds \cup {i}
          /\ landed' = landed
      BY <1>14, <2>2, PathsAreDistinct DEF RejectedIds, PendingIds, Pending
    <2>4. InboxIsStaged'
      <3>1. index[ReviewPath(i)] = Absent
        BY <2>1 DEF InboxIsStaged, FiledIds, PendingIds, Pending
      <3> QED BY <2>2, <3>1 DEF InboxIsStaged
    <2>5. FiledIds' = FiledIds \cup {r.id} /\ PendingIds' = PendingIds \cup {r.id}
      BY <2>3 DEF FiledIds
    <2>6. r.op = "propose" /\ r.id \notin acked
      BY <1>14, <2>1
    <2>7. \A x \in Handlers \ {h} : req[x] = Idle \/ req[x].id # r.id
      BY <2>1
    <2>8. /\ landed' = landed /\ RejectedIds' = RejectedIds
      BY <2>3
    <2>9. IInv'
      BY <2>4, <2>5, <2>6, <2>7, <2>8, CommitKeeps
    <2> QED BY <2>1, <2>3, <2>9 DEF InboxStep
  <1>15. CASE /\ req[h].op \in {"accept", "editAccept"} /\ data \in Page
              /\ \E slug \in Slugs : path = PagePath(slug)
    <2>1. \A j \in ProposalIds : /\ tree'[RejectedPath(j)] = tree[RejectedPath(j)]
                                 /\ tree'[ReviewPath(j)] = tree[ReviewPath(j)]
      BY <1>15, PathsAreDistinct
    <2>2. RejectedIds' = RejectedIds /\ PendingIds' = PendingIds /\ InboxIsStaged'
      BY <2>1 DEF RejectedIds, PendingIds, Pending, InboxIsStaged
    <2>3. landed' = landed \cup {i}
      BY <1>15, PathsAreDistinct
    <2>4. IInv'
      BY <1>15, <2>2, <2>3, CommitKeeps DEF FiledIds
    <2> QED BY <1>15, <2>2, <2>3, <2>4 DEF InboxStep
  <1>16. CASE req[h].op = "reject" /\ path = RejectedPath(i) /\ IsProposal(data)
    <2>1. /\ \A j \in ProposalIds \ {i} : tree'[RejectedPath(j)] = tree[RejectedPath(j)]
          /\ \A j \in ProposalIds : tree'[ReviewPath(j)] = tree[ReviewPath(j)]
      BY <1>16, PathsAreDistinct
    <2>2. /\ RejectedIds' = RejectedIds \cup {i} /\ PendingIds' = PendingIds
          /\ landed' = landed
      BY <1>16, <2>1, PathsAreDistinct DEF RejectedIds, PendingIds, Pending
    <2>3. InboxIsStaged'
      BY <2>1 DEF InboxIsStaged
    <2>4. IInv'
      BY <1>16, <2>2, <2>3, CommitKeeps DEF FiledIds
    <2> QED BY <1>16, <2>2, <2>4 DEF InboxStep
  <1> QED BY <1>9, <1>14, <1>15, <1>16

------------------------------------------------------------------------------
(* The vault the server starts on.                                            *)
LEMMA InitiallyInvariant == Init => IInv
  <1> SUFFICES ASSUME Init PROVE IInv
    OBVIOUS
  <1>1. /\ tree = [path \in Paths |-> tree[path]] /\ index = tree /\ head = tree
        /\ req = [h \in Handlers |-> Idle] /\ minted = DOMAIN Legacy
        /\ acked = {} /\ landed = {} /\ faults = 0
    BY DEF Init
  <1>2. \A s \in Slugs : tree[PagePath(s)] \in Page \cup {Absent}
    <2> SUFFICES ASSUME NEW s \in Slugs PROVE tree[PagePath(s)] \in Page \cup {Absent}
      OBVIOUS
    <2>1. PagePath(s) \in Paths /\ PagePath(s)[1] = "page" /\ PagePath(s)[2] = s
      BY PathsAreDistinct DEF PagePath
    <2>2. tree[PagePath(s)] = Pages[s]
      BY <2>1 DEF Init
    <2> QED BY <2>2, VaultStartsWellFormed
  <1>3. \A i \in ProposalIds :
          /\ tree[ReviewPath(i)] # Absent => i \in DOMAIN Legacy /\ IsProposal(tree[ReviewPath(i)])
          /\ tree[RejectedPath(i)] = Absent
    <2> SUFFICES ASSUME NEW i \in ProposalIds
                 PROVE  /\ tree[ReviewPath(i)] # Absent =>
                             i \in DOMAIN Legacy /\ IsProposal(tree[ReviewPath(i)])
                        /\ tree[RejectedPath(i)] = Absent
      OBVIOUS
    <2>1. /\ ReviewPath(i) \in Paths /\ ReviewPath(i)[1] = "review" /\ ReviewPath(i)[2] = i
          /\ RejectedPath(i) \in Paths /\ RejectedPath(i)[1] = "review/.rejected"
      BY PathsAreDistinct DEF ReviewPath, RejectedPath
    <2>2. tree[RejectedPath(i)] = Absent
      BY <2>1 DEF Init
    <2>3. CASE i \in DOMAIN Legacy
      <3>1. tree[ReviewPath(i)] = Legacy[i]
        BY <2>1, <2>3 DEF Init
      <3> QED BY <2>2, <2>3, <3>1, VaultStartsWellFormed
    <2>4. CASE i \notin DOMAIN Legacy
      <3>1. tree[ReviewPath(i)] = Absent
        BY <2>1, <2>4 DEF Init
      <3> QED BY <2>2, <3>1
    <2> QED BY <2>3, <2>4
  <1>4. TypeOK
    BY <1>1, <1>2, <1>3, VaultStartsWellFormed, FaultsAreCounted DEF TypeOK, IsRequest
  <1>5. TodosOK /\ NotYetFiled /\ DecidesFiled /\ RemovesOnRecord /\ RemovedWhenDone
    BY <1>1 DEF TodosOK, Committed, NotYetFiled, Filing, DecidesFiled, Deciding,
                RemovesOnRecord, RemovedWhenDone, Idle
  <1>6. InboxIsStaged /\ DecidedStaysDecided
    BY <1>1 DEF InboxIsStaged, DecidedStaysDecided
  <1>7. IdsAreMinted
    BY <1>1, <1>3 DEF IdsAreMinted, Filed, FiledIds, PendingIds, Pending, RejectedIds
  <1> QED BY <1>4, <1>5, <1>6, <1>7 DEF IInv

(* Every step keeps the invariant.                                            *)
LEMMA StepsKeepInvariant == IInv /\ [Next]_vars => IInv'
  <1> SUFFICES ASSUME IInv, [Next]_vars PROVE IInv'
    OBVIOUS
  <1>1. ASSUME NEW h \in Handlers, Handle(h) PROVE IInv'
    <2>1. CASE Load(h)      BY <2>1, LoadStep
    <2>2. CASE Accept(h)    BY <2>2, AcceptStep
    <2>3. CASE Reject(h)    BY <2>3, RejectStep
    <2>4. CASE Build(h)     BY <2>4, BuildStep
    <2>5. CASE Propose(h)   BY <2>5, ProposeStep
    <2>6. CASE RemoveNext(h) BY <2>6, RemoveStep
    <2>7. CASE WriteNext(h) BY <2>7, WriteStep
    <2>8. CASE AddNext(h)   BY <2>8, AddStep
    <2>9. CASE Finish(h)    BY <2>9, FinishStep
    <2>10. CASE Fail(h)     BY <2>10, RefuseStep
    <2> QED BY <1>1, <2>1, <2>2, <2>3, <2>4, <2>5, <2>6, <2>7, <2>8, <2>9, <2>10 DEF Handle
  <1>2. CASE Crash
    BY <1>2, CrashStep
  <1>3. CASE OwnerSavesPage
    BY <1>3, OwnerStep
  <1>4. CASE UNCHANGED vars
    <2>1. UNCHANGED <<tree, index, head, req, minted, acked, landed, faults>>
      BY <1>4 DEF vars
    <2> USE <2>1 DEF IInv
    <2>2. TypeOK' /\ TodosOK'
      BY DEF TypeOK, TodosOK, Committed
    <2>3. InboxIsStaged' /\ DecidedStaysDecided'
      BY DEF InboxIsStaged, DecidedStaysDecided
    <2>4. PendingIds' = PendingIds /\ RejectedIds' = RejectedIds /\ FiledIds' = FiledIds
      BY DEF PendingIds, Pending, RejectedIds, FiledIds
    <2>5. IdsAreMinted' /\ NotYetFiled' /\ DecidesFiled'
      BY <2>4 DEF IdsAreMinted, NotYetFiled, Filing, DecidesFiled, Deciding, Filed
    <2>6. RemovesOnRecord' /\ RemovedWhenDone'
      BY <2>4 DEF RemovesOnRecord, RemovedWhenDone, Deciding, Rejected
    <2> QED BY <2>2, <2>3, <2>5, <2>6
  <1> QED BY <1>1, <1>2, <1>3, <1>4 DEF Next

(* The invariant holds in every reachable state.                              *)
THEOREM Invariant == Spec => []IInv
  BY InitiallyInvariant, StepsKeepInvariant, PTL DEF Spec

(* The vault and the requests stay well formed (TypeOK).                      *)
THEOREM TypeCorrect == Spec => []TypeOK
  <1>1. IInv => TypeOK
    BY DEF IInv
  <1> QED BY Invariant, <1>1, PTL

(* A decision answered with 200 is final, on disk and in HEAD, with any       *)
(* number of requests in flight, failures and restarts (DecidedStaysDecided). *)
THEOREM DecisionsAreFinal == Spec => []DecidedStaysDecided
  <1>1. IInv => DecidedStaysDecided
    BY DEF IInv
  <1> QED BY Invariant, <1>1, PTL

------------------------------------------------------------------------------
(* Refinement: module Inbox under the mapping OnRecord.                       *)
LEMMA MappedInbox ==
  /\ StatusOf = [i \in ProposalIds |-> IF i \in PendingIds THEN "pending"
                                       ELSE IF i \in FiledIds THEN "closed"
                                       ELSE "unfiled"]
  /\ RecordOf = [i \in ProposalIds |->
                    {fate \in {"landed", "rejected"} :
                       IF fate = "landed" THEN i \in landed ELSE i \in RejectedIds}]
  BY DEF StatusOf, RecordOf, FiledIds, PendingIds, RejectedIds

(* What keeps the three sets is a stuttering step of the inbox.               *)
LEMMA SameSetsStutter ==
  ASSUME PendingIds' = PendingIds, RejectedIds' = RejectedIds, landed' = landed
  PROVE  UNCHANGED <<StatusOf, RecordOf>>
  <1>1. FiledIds' = FiledIds
    BY DEF FiledIds
  <1>2. /\ StatusOf' = [i \in ProposalIds |-> IF i \in PendingIds' THEN "pending"
                                        ELSE IF i \in FiledIds' THEN "closed"
                                        ELSE "unfiled"]
        /\ RecordOf' = [i \in ProposalIds |->
             {fate \in {"landed", "rejected"} :
                IF fate = "landed" THEN i \in landed' ELSE i \in RejectedIds'}]
    BY DEF StatusOf, RecordOf, FiledIds, PendingIds, RejectedIds
  <1>3. StatusOf' = StatusOf
    BY <1>1, <1>2, MappedInbox
  <1>4. RecordOf' = RecordOf
    BY <1>2, MappedInbox
  <1> QED BY <1>3, <1>4

(* Each of the four changes is an action of the inbox, or shows nothing new.  *)
LEMMA InboxStepRefines ==
  ASSUME NEW i \in ProposalIds, InboxStep(i),
         landed \subseteq ProposalIds
  PROVE  [OnRecord!Next]_<<StatusOf, RecordOf>>
  <1> DEFINE S  == StatusOf
             R  == RecordOf
             sn == [j \in ProposalIds |-> IF j \in PendingIds' THEN "pending"
                                         ELSE IF j \in FiledIds' THEN "closed"
                                         ELSE "unfiled"]
             rn == [j \in ProposalIds |->
                      {fate \in {"landed", "rejected"} :
                         IF fate = "landed" THEN j \in landed' ELSE j \in RejectedIds'}]
  <1>1. StatusOf' = sn /\ RecordOf' = rn
    BY DEF StatusOf, RecordOf, FiledIds, PendingIds, RejectedIds
  <1>2. FiledIds' = PendingIds' \cup landed' \cup RejectedIds'
    BY DEF FiledIds
  <1>3. CASE /\ i \notin FiledIds /\ PendingIds' = PendingIds \cup {i}
             /\ landed' = landed /\ RejectedIds' = RejectedIds
    <2>1. S[i] = "unfiled"
      BY <1>3, MappedInbox DEF FiledIds
    <2>2. sn = [S EXCEPT ![i] = "pending"]
      BY <1>2, <1>3, MappedInbox DEF FiledIds
    <2>3. rn = R
      BY <1>3, MappedInbox
    <2>4. OnRecord!File(i)
      BY <1>1, <2>1, <2>2, <2>3 DEF OnRecord!File
    <2> QED BY <2>4 DEF OnRecord!Next
  <1>4. ASSUME NEW fate \in {"landed", "rejected"}, i \in FiledIds, PendingIds' = PendingIds,
               FiledIds' = FiledIds, rn = [R EXCEPT ![i] = @ \cup {fate}]
        PROVE  [OnRecord!Next]_<<StatusOf, RecordOf>>
    <2>1. S[i] # "unfiled" /\ sn = S
      BY <1>4, MappedInbox
    <2>2. CASE fate \in R[i]
      <3>1. rn = R
        BY <1>4, <2>2, MappedInbox
      <3> QED BY <1>1, <2>1, <3>1
    <2>3. CASE fate \notin R[i]
      <3>1. OnRecord!Record(i)
        BY <1>1, <1>4, <2>1, <2>3 DEF OnRecord!Record, OnRecord!Fates
      <3> QED BY <3>1 DEF OnRecord!Next
    <2> QED BY <2>2, <2>3
  <1>5. CASE /\ i \in FiledIds /\ landed' = landed \cup {i}
             /\ PendingIds' = PendingIds /\ RejectedIds' = RejectedIds
    <2>1. FiledIds' = FiledIds
      BY <1>2, <1>5 DEF FiledIds
    <2>2. rn = [R EXCEPT ![i] = @ \cup {"landed"}]
      BY <1>5, MappedInbox
    <2> QED BY <1>4, <1>5, <2>1, <2>2
  <1>6. CASE /\ i \in FiledIds /\ RejectedIds' = RejectedIds \cup {i}
             /\ PendingIds' = PendingIds /\ landed' = landed
    <2>1. FiledIds' = FiledIds
      BY <1>2, <1>6 DEF FiledIds
    <2>2. rn = [R EXCEPT ![i] = @ \cup {"rejected"}]
      BY <1>6, MappedInbox
    <2> QED BY <1>4, <1>6, <2>1, <2>2
  <1>7. CASE /\ i \in landed \cup RejectedIds /\ PendingIds' = PendingIds \ {i}
             /\ landed' = landed /\ RejectedIds' = RejectedIds
    <2>1. CASE i \notin PendingIds
      <3>1. PendingIds' = PendingIds
        BY <1>7, <2>1
      <3> QED BY <1>7, <3>1, SameSetsStutter
    <2>2. CASE i \in PendingIds
      <3>1. S[i] = "pending" /\ R[i] # {} /\ rn = R
        BY <1>7, <2>2, MappedInbox
      <3>2. sn = [S EXCEPT ![i] = "closed"]
        BY <1>2, <1>7, MappedInbox DEF FiledIds
      <3>3. OnRecord!Close(i)
        BY <1>1, <3>1, <3>2 DEF OnRecord!Close
      <3> QED BY <3>3 DEF OnRecord!Next
    <2> QED BY <2>1, <2>2
  <1>8. CASE PendingIds' = PendingIds /\ landed' = landed /\ RejectedIds' = RejectedIds
    BY <1>8, SameSetsStutter
  <1> QED BY <1>3, <1>5, <1>6, <1>7, <1>8 DEF InboxStep

(* The vault at the start is an inbox nobody has decided on.                  *)
LEMMA InitRefines == Init => OnRecord!Init
  <1> SUFFICES ASSUME Init PROVE OnRecord!Init
    OBVIOUS
  <1>1. landed = {} /\ RejectedIds = {}
    <2>1. \A i \in ProposalIds :
            RejectedPath(i) \in Paths /\ RejectedPath(i)[1] = "review/.rejected"
      BY PathsAreDistinct DEF RejectedPath
    <2> QED BY <2>1 DEF Init, RejectedIds
  <1>2. FiledIds = PendingIds
    BY <1>1 DEF FiledIds
  <1>3. StatusOf \in [ProposalIds -> {"unfiled", "pending"}]
    BY <1>2, MappedInbox
  <1>4. RecordOf = [i \in ProposalIds |-> {}]
    BY <1>1, MappedInbox
  <1> QED BY <1>3, <1>4 DEF OnRecord!Init

(* Every step of the requests, the owner and the crash maps to one step of    *)
(* the inbox or to none.                                                      *)
LEMMA StepsRefine == IInv /\ [Next]_vars => [OnRecord!Next]_<<StatusOf, RecordOf>>
  <1> SUFFICES ASSUME IInv, [Next]_vars PROVE [OnRecord!Next]_<<StatusOf, RecordOf>>
    OBVIOUS
  <1>1. ASSUME UNCHANGED <<tree, landed>> PROVE UNCHANGED <<StatusOf, RecordOf>>
    BY <1>1, SameSetsStutter DEF PendingIds, Pending, RejectedIds
  <1>2. CASE OwnerSavesPage
    <2>1. PICK slug \in Slugs, page \in Page :
            tree' = [tree EXCEPT ![PagePath(slug)] = page] /\ UNCHANGED landed
      BY <1>2 DEF OwnerSavesPage, SaveInEditor
    <2>2. \A i \in ProposalIds : /\ tree'[ReviewPath(i)] = tree[ReviewPath(i)]
                                 /\ tree'[RejectedPath(i)] = tree[RejectedPath(i)]
      BY <2>1, PathsAreDistinct DEF IInv, TypeOK
    <2> QED BY <2>1, <2>2, SameSetsStutter DEF PendingIds, Pending, RejectedIds
  <1>3. ASSUME NEW h \in Handlers, RemoveNext(h) \/ WriteNext(h)
        PROVE  [OnRecord!Next]_<<StatusOf, RecordOf>>
    BY <1>3, RemoveStep, WriteStep, InboxStepRefines DEF IInv, TypeOK
  <1>4. ASSUME NEW h \in Handlers, Handle(h), ~ RemoveNext(h), ~ WriteNext(h)
        PROVE  UNCHANGED <<tree, landed>>
    <2>1. CASE AddNext(h)
      BY <2>1, AddStep
    <2> QED BY <1>4, <2>1 DEF Handle, Load, Accept, Reject, Build, Propose, Finish, Fail,
                              Refuse, RecordIndex, vault
  <1>5. CASE Crash \/ UNCHANGED vars
    BY <1>1, <1>5 DEF Crash, vault, vars
  <1> QED BY <1>1, <1>2, <1>3, <1>4, <1>5 DEF Next

(* The detailed inbox, with its unlocked requests, staged commits, failures   *)
(* and crashes, implements the abstract one: nothing leaves review/ before    *)
(* its fate is on record, and nothing decided comes back.                     *)
THEOREM ReviewImplementsInbox == Spec => InboxKeepsItsPromise
  <1>1. Spec => []IInv
    BY Invariant
  <1> QED BY <1>1, InitRefines, StepsRefine, PTL
          DEF Spec, InboxKeepsItsPromise, OnRecord!Spec

--------------------------------------------------------------------------------
(* What the inbox does to pages: the environment those theorems are about.    *)

Mine(i) == {Wording[i], Rewording[i]}

Quotes(page, i) == Claimed(page, i) # {}

Once(page, i) == \A j, k \in Claimed(page, i) : j = k

\* Texts tell whose proposal they came with.
TextsAreApart ==
  /\ \A i, j \in ProposalIds : i # j => Mine(i) \cap Mine(j) = {}
  /\ \A i \in DOMAIN Legacy, j \in ProposalIds : i # j => Brings(Legacy[i].change) \cap Mine(j) = {}

VaultStartsUnproposed ==
  \A slug \in Slugs, i \in ProposalIds : Pages[slug] # Absent => ~ Quotes(Pages[slug], i)

\* The owner moves, drops and rewrites claims, and types in no proposal's.
OwnerAddsNone ==
  \A found \in Page, i \in ProposalIds : \A saved \in OwnerSaves(found) \cap Page :
    /\ Quotes(saved, i) => Quotes(found, i)
    /\ Once(found, i) => Once(saved, i)

Environment == TextsAreApart /\ VaultStartsUnproposed /\ OwnerAddsNone

\* What was filed before TargetVersion existed has no pin.
LegacyIsUnpinned == \A i \in DOMAIN Legacy : Legacy[i].pin = Unpinned

------------------------------------------------------------------------------
(* The inductive invariant about pages.  AppliedAtMostOnce is not inductive   *)
(* alone: an accept under way still holds the page it is about to write, and  *)
(* a proposal waiting in the inbox the page it is pinned to.                  *)

\* A page quotes only proposals that landed (or are about to), once if pinned.
PageOK(page, ids) ==
  \A i \in ProposalIds :
    /\ Quotes(page, i) => i \in ids
    /\ i \in PinnedIds => Once(page, i)

StoreOK(store) ==
  \A slug \in Slugs : store[PagePath(slug)] # Absent => PageOK(store[PagePath(slug)], landed)

\* A proposal as it was filed: it adds its own claim and retires claims as R has
\* it; the page a pin names lacks the claim.
Original(i, p, R) ==
  IF i \in DOMAIN Legacy
  THEN p = Legacy[i]
  ELSE /\ p.change.add = Additions(i) /\ p.change.reword = << >> /\ p.change.retire \in R
       /\ \/ p.kind = "new_page" /\ p.pin = Unpinned
          \/ p.kind = "claims" /\ p.pin \in Page /\ ~ Quotes(p.pin, i)

Accepting(r) == Committed(r) /\ r.op \in {"accept", "editAccept"} /\ Len(r.todo) = 2

Proposing(r) == Committed(r) /\ r.op = "propose" /\ r.todo # << >>

Judged(r) == r.pc \in {"loaded", "built"}

\* One claim more than the page it was built against.
Extends(page, pin) ==
  /\ page.body = pin.body
  /\ Len(page.claims) = Len(pin.claims) + 1
  /\ \A k \in 1 .. Len(pin.claims) : page.claims[k] = pin.claims[k]

\* What a request holds, with these files on disk and these proposals landed.
RequestOK(R, r, files, ids) ==
  LET filed == files[ReviewPath(r.id)]
  IN /\ Judged(r) => Original(r.id, r.proposal, R)
     /\ r.pc = "loaded" /\ filed # Absent => filed = r.proposal
     /\ Proposing(r) => Original(r.id, r.todo[1].data, R)
     /\ Accepting(r) => PageOK(r.todo[1].data, ids \cup {r.id})
     /\ /\ Accepting(r) /\ filed # Absent /\ r.id \in PinnedIds
        /\ filed.pin # Unpinned /\ filed.change.retire = {}
        => Extends(r.todo[1].data, filed.pin)

InboxOK(R) == \A i \in ProposalIds : Pending(i) => Original(i, tree[ReviewPath(i)], R)

\* What an agent's proposal retires.
Nothing == {{}}

PInv(R) ==
  /\ StoreOK(tree) /\ StoreOK(index) /\ StoreOK(head)
  /\ InboxOK(R) /\ DOMAIN Legacy \subseteq minted
  /\ \A h \in Handlers : RequestOK(R, req[h], tree, landed)

------------------------------------------------------------------------------
(* The inductive invariant of one request at a time without failures.         *)

Serial == (\A g, h \in Handlers : g = h) /\ MaxFaults = 0

LegacyOnePerTarget ==
  \A i, j \in DOMAIN Legacy : Legacy[i].target = Legacy[j].target => i = j

\* The page or the copy is on disk, the proposal not yet out of the inbox.
Settling(r) == Committed(r) /\ r.op \in Decisions /\ Wrote(r) /\ r.todo # << >>

\* What a request rests on, with these files on disk and these proposals landed.
SerialRequest(r, files, ids) ==
  /\ r.pc = "loaded" \/ (r.pc = "committing" /\ r.op \in Decisions /\ Len(r.todo) = 2) =>
       /\ files[ReviewPath(r.id)] # Absent /\ files[RejectedPath(r.id)] = Absent
       /\ r.id \notin ids
  /\ r.pc = "committing" /\ r.op = "propose" /\ r.todo # << >> =>
       \A i \in ProposalIds : files[ReviewPath(i)] # Absent =>
         files[ReviewPath(i)].target # r.todo[1].data.target
  /\ r.pc = "written" => files[r.todo[1].path] # Absent

\* Where the working tree may be ahead of what is staged, pages aside.
Unstaged(r, path) == r.pc = "written" /\ path = r.todo[1].path

OneEach ==
  \A i, j \in ProposalIds :
    Pending(i) /\ Pending(j) /\ tree[ReviewPath(i)].target = tree[ReviewPath(j)].target => i = j

SInv ==
  /\ \A h \in Handlers : SerialRequest(req[h], tree, landed)
  /\ \A i \in ProposalIds :
       (i \in landed \/ tree[RejectedPath(i)] # Absent) /\ tree[ReviewPath(i)] # Absent =>
         \E h \in Handlers : req[h].id = i /\ Settling(req[h])
  /\ \A path \in Paths : path[1] # "page" =>
       tree[path] = index[path] \/ \E h \in Handlers : Unstaged(req[h], path)
  /\ (\A h \in Handlers : ~ Committed(req[h])) => index = head
  /\ LegacyOnePerTarget => OneEach
  /\ OneDecision
  /\ NeverHalfAccepted

------------------------------------------------------------------------------
(* What an accept writes.                                                     *)

(* The accepted page quotes what its target did, and the proposal; a pinned   *)
(* one it quotes once, after the claims of the page it was built against.     *)
LEMMA AcceptedPage ==
  ASSUME TextsAreApart, NEW ids, NEW page \in Page, PageOK(page, ids),
         NEW R, NEW i \in ProposalIds, NEW p, IsProposal(p), Original(i, p, R),
         p.kind = "new_page" => page.claims = << >>,
         p.kind # "new_page" => p.pin \in {Unpinned, page},
         NEW edits, \A id \in DOMAIN edits : edits[id] = Rewording[i],
         EditsAllowed(ApplyClaims(page.claims, p.change), edits),
         NEW written,
         written = [page EXCEPT !.claims =
                      ClaimsOf(ApplyClaimEdits(ApplyClaims(page.claims, p.change), edits))]
  PROVE  /\ PageOK(written, ids \cup {i})
         /\ i \in PinnedIds /\ p.pin # Unpinned /\ p.change.retire = {} =>
              Extends(written, p.pin)
  <1> DEFINE claims == ClaimsOf(ApplyClaimEdits(ApplyClaims(page.claims, p.change), edits))
             n      == Len(page.claims)
  <1>1. /\ page.claims \in Seq(Claim) /\ IsChange(p.change)
        /\ n \in Nat /\ Len(p.change.add) \in Nat /\ DOMAIN page.claims = 1 .. n
        /\ DOMAIN p.change.add = 1 .. Len(p.change.add)
    BY DEF Page, IsProposal, IsChange
  <1>2. written.claims = claims /\ written.body = page.body
    BY DEF Page
  <1>3. /\ DOMAIN claims = 1 .. n + Len(p.change.add)
        /\ \A k \in DOMAIN claims :
             \/ k \in 1 .. n /\ claims[k].text = page.claims[k].text
             \/ claims[k].text \in Brings(p.change) \cup {edits[id] : id \in DOMAIN edits}
    BY <1>1, AcceptedTexts, ZenonT(30)
  <1>4. {edits[id] : id \in DOMAIN edits} \subseteq Mine(i)
    BY DEF Mine
  <1>5. i \in PinnedIds => /\ i \notin DOMAIN Legacy /\ p.change.reword = << >>
                          /\ Len(p.change.add) = 1 /\ Brings(p.change) = {Wording[i]}
    <2> SUFFICES ASSUME i \in PinnedIds
                 PROVE  /\ i \notin DOMAIN Legacy /\ p.change.reword = << >>
                        /\ Len(p.change.add) = 1 /\ Brings(p.change) = {Wording[i]}
      OBVIOUS
    <2>1. i \notin DOMAIN Legacy
      BY DEF PinnedIds
    <2>2. /\ p.change.reword = << >>
          /\ p.change.add = <<[text |-> Wording[i], status |-> "active"]>>
      BY <2>1 DEF Original, Additions
    <2>3. /\ DOMAIN p.change.reword = {} /\ Len(p.change.add) = 1
          /\ DOMAIN p.change.add = {1} /\ p.change.add[1].text = Wording[i]
      BY <2>2
    <2>4. Brings(p.change) = {Wording[i]}
      BY <2>3 DEF Brings
    <2> QED BY <2>1, <2>2, <2>3, <2>4
  <1>6. \A j \in ProposalIds \ {i} : Brings(p.change) \cap Mine(j) = {}
    <2>1. CASE i \in PinnedIds
      BY <1>5, <2>1 DEF TextsAreApart, Mine
    <2>2. CASE i \notin PinnedIds
      <3>1. i \in DOMAIN Legacy /\ p = Legacy[i]
        BY <2>2 DEF PinnedIds, Original
      <3> QED BY <3>1 DEF TextsAreApart
    <2> QED BY <2>1, <2>2
  <1> HIDE DEF claims, n
  <1>7. ASSUME NEW j \in ProposalIds \ {i}
        PROVE  Claimed(written, j) \subseteq Claimed(page, j)
    <2> SUFFICES ASSUME NEW k \in DOMAIN claims, claims[k].text \in Mine(j)
                 PROVE  k \in DOMAIN page.claims /\ page.claims[k].text \in Mine(j)
      BY <1>2 DEF Claimed, Mine
    <2>1. claims[k].text \notin Brings(p.change) \cup {edits[id] : id \in DOMAIN edits}
      BY <1>4, <1>6 DEF TextsAreApart
    <2> QED BY <1>1, <1>3, <2>1 DEF n
  <1>8. i \in PinnedIds => ~ Quotes(page, i)
    <2> SUFFICES ASSUME i \in PinnedIds PROVE ~ Quotes(page, i)
      OBVIOUS
    <2>1. CASE p.kind = "new_page"
      BY <2>1 DEF Quotes, Claimed
    <2>2. CASE p.kind # "new_page"
      <3>1. p.pin \in Page /\ ~ Quotes(p.pin, i)
        BY <2>2 DEF Original, PinnedIds
      <3> QED BY <2>2, <3>1, UnpinnedIsNoVersion
    <2> QED BY <2>1, <2>2
  <1>9. i \in PinnedIds => Claimed(written, i) \subseteq {n + 1}
    <2> SUFFICES ASSUME i \in PinnedIds, NEW k \in Claimed(written, i) PROVE k = n + 1
      OBVIOUS
    <2>1. k \in DOMAIN claims /\ claims[k].text \in Mine(i)
      BY <1>2 DEF Claimed, Mine
    <2>2. DOMAIN claims = 1 .. n + 1 /\ n \in Nat
      BY <1>1, <1>3, <1>5 DEF n
    <2>3. k \notin 1 .. n
      <3> SUFFICES ASSUME k \in 1 .. n PROVE FALSE
        OBVIOUS
      <3>1. claims[k].text = page.claims[k].text
        <4>1. \A m \in 1 .. Len(page.claims) : claims[m].text = page.claims[m].text
          BY <1>1, <1>5, AddingKeepsTheTexts DEF claims
        <4> QED BY <4>1 DEF n
      <3>2. k \in Claimed(page, i)
        BY <1>1, <2>1, <3>1 DEF Claimed, Mine, n
      <3> QED BY <1>8, <3>2 DEF Quotes
    <2> QED BY <2>1, <2>2, <2>3
  <1>10. PageOK(written, ids \cup {i})
    BY <1>7, <1>9 DEF PageOK, Quotes, Once
  <1>11. ASSUME i \in PinnedIds, p.pin # Unpinned, p.change.retire = {}
         PROVE  Extends(written, p.pin)
    <2>1. p.pin = page
      BY <1>11 DEF Original, PinnedIds
    <2>2. \A k \in 1 .. n : claims[k] = page.claims[k]
      BY <1>1, <1>5, <1>11, AddingKeepsThePage DEF claims, n
    <2>3. Len(claims) = n + 1
      <3>1. DOMAIN claims = 1 .. n + 1 /\ n \in Nat
        BY <1>1, <1>3, <1>5, <1>11 DEF n
      <3>2. \E m : claims \in [1 .. n + 1 -> {claims[k] : k \in 1 .. n + 1}]
        BY <3>1 DEF claims, ClaimsOf
      <3> QED BY <3>1, <3>2
    <2> QED BY <1>2, <2>1, <2>2, <2>3 DEF Extends, n
  <1> QED BY <1>10, <1>11

------------------------------------------------------------------------------
(* A page that is fine stays fine as more proposals land.                     *)
LEMMA PageStaysOK ==
  ASSUME NEW page, NEW ids, NEW more, PageOK(page, ids), ids \subseteq more
  PROVE  PageOK(page, more)
  BY DEF PageOK

(* A request that does not move stays fine: its proposal is in the inbox as   *)
(* it was, or gone.                                                           *)
LEMMA RequestStaysOK ==
  ASSUME NEW R, NEW r, RequestOK(R, r, tree, landed), landed \subseteq landed',
         tree'[ReviewPath(r.id)] \in {Absent, tree[ReviewPath(r.id)]}
  PROVE  RequestOK(R, r, tree', landed')
  <1>2. Accepting(r) => PageOK(r.todo[1].data, landed' \cup {r.id})
    BY PageStaysOK DEF RequestOK
  <1> QED BY <1>2 DEF RequestOK

(* What is left of a store's pages when one that is no page is written.       *)
LEMMA StoreStaysOK ==
  ASSUME NEW store, StoreOK(store), NEW new, landed \subseteq landed',
         \A s \in Slugs : new[PagePath(s)] = store[PagePath(s)]
  PROVE  \A s \in Slugs : new[PagePath(s)] # Absent => PageOK(new[PagePath(s)], landed')
  BY PageStaysOK DEF StoreOK

(* A step of one request that writes nothing.                                 *)
LEMMA RequestMovesOn ==
  ASSUME NEW R, WInv, PInv(R), NEW h \in Handlers, NEW r, RequestOK(R, r, tree, landed),
         req' = [req EXCEPT ![h] = r], UNCHANGED <<tree, index, head, landed>>,
         minted \subseteq minted'
  PROVE  PInv(R)'
  <1>1. /\ req'[h] = r
        /\ \A x \in Handlers \ {h} : req'[x] = req[x]
    BY DEF WInv, TypeOK
  <1>2. \A x \in Handlers : RequestOK(R, req'[x], tree, landed)
    BY <1>1 DEF PInv
  <1>3. (\A x \in Handlers : RequestOK(R, req[x], tree, landed))'
    BY <1>2
  <1>4. StoreOK(tree)' /\ StoreOK(index)' /\ StoreOK(head)'
    BY DEF PInv, StoreOK
  <1>5. InboxOK(R)' /\ DOMAIN Legacy \subseteq minted'
    BY DEF PInv, InboxOK, Pending
  <1> QED BY <1>3, <1>4, <1>5 DEF PInv

(* A request that is over, or has not begun, holds nothing.                   *)
LEMMA IdleIsOK == \A R, files, ids : RequestOK(R, Idle, files, ids)
  BY DEF RequestOK, Idle, Judged, Proposing, Accepting, Committed

(* A request that ends, and a crash, which ends all of them.                  *)
LEMMA EndsKeepPages ==
  ASSUME NEW R, WInv, PInv(R), (\E h \in Handlers : Refuse(h) \/ Fail(h)) \/ Crash
  PROVE  PInv(R)'
  <1>1. ASSUME NEW h \in Handlers, Refuse(h) \/ Fail(h) PROVE PInv(R)'
    BY <1>1, RequestMovesOn, IdleIsOK DEF Refuse, Fail, Answer, vault
  <1>2. CASE Crash
    <2>1. /\ req' = [h \in Handlers |-> Idle]
          /\ UNCHANGED <<tree, index, head, landed, minted>>
      BY <1>2 DEF Crash, vault
    <2>2. (\A h \in Handlers : RequestOK(R, req[h], tree, landed))'
      BY <2>1, IdleIsOK
    <2> QED BY <2>1, <2>2 DEF PInv, StoreOK, InboxOK, Pending
  <1> QED BY <1>1, <1>2

(* A decision loads the proposal as it was filed.                             *)
LEMMA LoadKeepsPages ==
  ASSUME NEW R, WInv, PInv(R), NEW h \in Handlers, Load(h)
  PROVE  PInv(R)'
  <1>1. PICK op \in Decisions, i \in ProposalIds :
          /\ Pending(i)
          /\ req' = [req EXCEPT ![h] = [pc |-> "loaded", op |-> op, id |-> i,
                                       proposal |-> tree[ReviewPath(i)]]]
          /\ UNCHANGED <<vault, minted, acked, landed, faults>>
    BY DEF Load
  <1> DEFINE r == [pc |-> "loaded", op |-> op, id |-> i, proposal |-> tree[ReviewPath(i)]]
  <1>2. Original(i, tree[ReviewPath(i)], R)
    BY <1>1 DEF PInv, InboxOK
  <1>3. r.pc = "loaded" /\ r.id = i /\ r.proposal = tree[ReviewPath(i)]
    OBVIOUS
  <1> HIDE DEF r
  <1>4. RequestOK(R, r, tree, landed)
    BY <1>2, <1>3 DEF RequestOK, Judged, Proposing, Accepting, Committed
  <1> QED BY <1>1, <1>4, RequestMovesOn DEF r, vault

(* A decision that starts its commit with a page or a copy, then the removal. *)
LEMMA AcceptKeepsPages ==
  ASSUME TextsAreApart, NEW R, WInv, PInv(R), NEW h \in Handlers, Accept(h)
  PROVE  PInv(R)'
  <1>1. CASE Refuse(h)
    BY <1>1, EndsKeepPages
  <1>2. CASE ~ Refuse(h)
    <2> DEFINE i    == req[h].id
               p    == req[h].proposal
               page == TargetPage(p)
    <2>1. /\ req[h].pc = "loaded" /\ req[h].op \in {"accept", "editAccept"}
          /\ i \in ProposalIds /\ IsProposal(p) /\ TargetFits(p) /\ page \in Page
          /\ UNCHANGED <<vault, minted, acked, landed, faults>>
      BY <1>2, AcceptCommits DEF WInv
    <2>2. PICK edits :
            /\ \A id \in DOMAIN edits : edits[id] = Rewording[i]
            /\ EditsAllowed(ApplyClaims(page.claims, p.change), edits)
            /\ Committing(h, <<Change(PagePath(p.target),
                                 [page EXCEPT !.claims = ClaimsOf(ApplyClaimEdits(
                                    ApplyClaims(page.claims, p.change), edits))]),
                              Removal(i)>>)
      BY <1>2, AcceptCommits DEF WInv
    <2> DEFINE written == [page EXCEPT !.claims =
                             ClaimsOf(ApplyClaimEdits(ApplyClaims(page.claims, p.change), edits))]
               write   == Change(PagePath(p.target), written)
               r       == [pc |-> "committing", op |-> req[h].op, id |-> i,
                           todo |-> <<write, Removal(i)>>]
    <2>3. Original(i, p, R) /\ (tree[ReviewPath(i)] # Absent => tree[ReviewPath(i)] = p)
      BY <2>1 DEF PInv, RequestOK, Judged
    <2>4. PageOK(page, landed)
      <3>1. CASE p.kind = "new_page"
        BY <3>1 DEF TargetPage, PageOK, Quotes, Once, Claimed
      <3>2. CASE p.kind # "new_page"
        BY <2>1, <3>2 DEF TargetPage, TargetFits, PInv, StoreOK, IsProposal
      <3> QED BY <3>1, <3>2
    <2>5. /\ p.kind = "new_page" => page.claims = << >>
          /\ p.kind # "new_page" => p.pin \in {Unpinned, page}
      BY <2>1 DEF TargetPage, TargetFits
    <2> HIDE DEF page
    <2>6. /\ PageOK(written, landed \cup {i})
          /\ i \in PinnedIds /\ p.pin # Unpinned /\ p.change.retire = {} =>
               Extends(written, p.pin)
      <3> HIDE DEF i, p
      <3> QED BY <2>1, <2>2, <2>3, <2>4, <2>5, AcceptedPage
    <2>7. /\ req' = [req EXCEPT ![h] = r]
      BY <2>2 DEF Committing
    <2>8. /\ r.pc = "committing" /\ r.op \in {"accept", "editAccept"} /\ r.id = i
          /\ r.todo[1].data = written
      BY <2>1 DEF Change
    <2> HIDE DEF r, written, p
    <2>9. RequestOK(R, r, tree, landed)
      <3> HIDE DEF i
      <3> QED BY <2>3, <2>6, <2>8 DEF RequestOK, Judged, Proposing, Accepting, Committed
    <2> QED BY <2>1, <2>7, <2>9, RequestMovesOn DEF vault
  <1> QED BY <1>1, <1>2

(* A rejection writes no page.                                                *)
LEMMA RejectKeepsPages ==
  ASSUME NEW R, WInv, PInv(R), NEW h \in Handlers, Reject(h)
  PROVE  PInv(R)'
  <1>1. CASE Refuse(h)
    BY <1>1, EndsKeepPages
  <1>2. CASE ~ Refuse(h)
    <2> DEFINE r == [pc |-> "committing", op |-> req[h].op, id |-> req[h].id,
                     todo |-> << Change(RejectedPath(req[h].id), req[h].proposal),
                                 Change(ReviewPath(req[h].id), Absent) >>]
    <2>1. /\ req[h].op = "reject" /\ req' = [req EXCEPT ![h] = r]
          /\ UNCHANGED <<vault, minted, acked, landed, faults>>
      BY <1>2 DEF Reject, Committing
    <2>2. r.pc = "committing" /\ r.op = "reject"
      BY <2>1
    <2> HIDE DEF r
    <2>3. RequestOK(R, r, tree, landed)
      BY <2>2 DEF RequestOK, Judged, Proposing, Accepting, Committed
    <2> QED BY <2>1, <2>3, RequestMovesOn DEF vault
  <1> QED BY <1>1, <1>2

(* The pin of a new proposal is the page as it is, without the proposal.      *)
LEMMA BuildKeepsPages ==
  ASSUME NEW R, {} \in R, WInv, PInv(R), NEW h \in Handlers, Build(h)
  PROVE  PInv(R)'
  <1>1. PICK i \in ProposalIds \ minted, slug \in Slugs :
          LET found    == tree[PagePath(slug)]
              proposal == IF found = Absent
                          THEN Proposal("new_page", slug, Unpinned, AddOnly(i))
                          ELSE Proposal("claims", slug, found, AddOnly(i))
          IN /\ req' = [req EXCEPT ![h] = [pc |-> "built", op |-> "propose", id |-> i,
                                          proposal |-> proposal]]
             /\ minted' = minted \cup {i}
             /\ UNCHANGED <<vault, acked, landed, faults>>
    BY DEF Build
  <1> DEFINE found    == tree[PagePath(slug)]
             proposal == IF found = Absent
                         THEN Proposal("new_page", slug, Unpinned, AddOnly(i))
                         ELSE Proposal("claims", slug, found, AddOnly(i))
             r        == [pc |-> "built", op |-> "propose", id |-> i, proposal |-> proposal]
  <1>2. i \notin DOMAIN Legacy /\ i \notin landed
    BY DEF PInv, WInv, TypeOK
  <1>3. found \in Page \cup {Absent} /\ (found # Absent => ~ Quotes(found, i))
    BY <1>2 DEF WInv, TypeOK, PInv, StoreOK, PageOK
  <1>4. Original(i, proposal, R)
    <2>1. /\ AddOnly(i).add = Additions(i) /\ AddOnly(i).reword = << >>
          /\ AddOnly(i).retire \in R
      BY DEF AddOnly
    <2>2. CASE found = Absent
      BY <1>2, <2>1, <2>2 DEF Original, Proposal
    <2>3. CASE found # Absent
      BY <1>2, <1>3, <2>1, <2>3 DEF Original, Proposal
    <2> QED BY <2>2, <2>3
  <1>5. r.pc = "built" /\ r.op = "propose" /\ r.id = i /\ r.proposal = proposal
    OBVIOUS
  <1>6. req' = [req EXCEPT ![h] = r]
    BY <1>1
  <1> HIDE DEF r, proposal
  <1>7. RequestOK(R, r, tree, landed)
    BY <1>4, <1>5 DEF RequestOK, Judged, Proposing, Accepting, Committed
  <1> QED BY <1>1, <1>6, <1>7, RequestMovesOn DEF vault

(* A new proposal is pinned to a page that does not quote it.                 *)
LEMMA ProposeKeepsPages ==
  ASSUME NEW R, WInv, PInv(R), NEW h \in Handlers, Propose(h)
  PROVE  PInv(R)'
  <1>1. CASE Refuse(h)
    BY <1>1, EndsKeepPages
  <1>2. CASE ~ Refuse(h)
    <2> DEFINE write == Change(ReviewPath(req[h].id), req[h].proposal)
               r == [pc |-> "committing", op |-> req[h].op, id |-> req[h].id,
                     todo |-> <<write>>]
    <2>1. /\ req[h].pc = "built" /\ req' = [req EXCEPT ![h] = r]
          /\ UNCHANGED <<vault, minted, acked, landed, faults>>
      BY <1>2 DEF Propose, Committing
    <2>2. Original(req[h].id, req[h].proposal, R) /\ req[h].op = "propose"
      <3>1. Original(req[h].id, req[h].proposal, R)
        BY <2>1 DEF PInv, RequestOK, Judged
      <3>2. req[h].op = "propose"
        BY <2>1 DEF WInv, TypeOK, IsRequest, Idle
      <3> QED BY <3>1, <3>2
    <2>3. r.pc = "committing" /\ r.op = "propose" /\ r.id = req[h].id
          /\ r.todo[1].data = req[h].proposal
      BY <2>2 DEF Change
    <2> HIDE DEF r
    <2>4. RequestOK(R, r, tree, landed)
      BY <2>2, <2>3 DEF RequestOK, Judged, Proposing, Accepting, Committed
    <2> QED BY <2>1, <2>4, RequestMovesOn DEF vault
  <1> QED BY <1>1, <1>2

------------------------------------------------------------------------------
(* The steps of a commit.                                                     *)

(* How one step of a commit keeps the pages: it leaves no page that quotes    *)
(* what has not landed, and of the inbox only its own proposal changes.       *)
LEMMA CommitKeepsPages ==
  ASSUME NEW R, WInv, PInv(R), NEW h \in Handlers, NEW r, r.id = req[h].id,
         req' = [req EXCEPT ![h] = r], landed \subseteq landed', UNCHANGED minted,
         StoreOK(tree)', StoreOK(index)', StoreOK(head)', RequestOK(R, r, tree', landed'),
         req[h].id \in ProposalIds,
         \A i \in ProposalIds \ {r.id} : tree'[ReviewPath(i)] \in {Absent, tree[ReviewPath(i)]},
         \/ tree'[ReviewPath(r.id)] \in {Absent, tree[ReviewPath(r.id)]}
         \/ /\ Original(r.id, tree'[ReviewPath(r.id)], R)
            /\ \A x \in Handlers \ {h} : req[x] = Idle \/ req[x].id # r.id
  PROVE  PInv(R)'
  <1>1. /\ req'[h] = r
        /\ \A x \in Handlers \ {h} : req'[x] = req[x]
    BY DEF WInv, TypeOK
  <1>2. ASSUME NEW x \in Handlers PROVE RequestOK(R, req'[x], tree', landed')
    <2>1. CASE x = h
      BY <1>1, <2>1
    <2>2. CASE x # h /\ req[x] = Idle
      BY <1>1, <2>2, IdleIsOK
    <2>3. CASE x # h /\ req[x] # Idle
      <3>1. /\ req'[x] = req[x] /\ RequestOK(R, req[x], tree, landed)
            /\ req[x].id \in ProposalIds
        BY <1>1, <2>3 DEF PInv, WInv, TypeOK, IsRequest
      <3>2. tree'[ReviewPath(req[x].id)] \in {Absent, tree[ReviewPath(req[x].id)]}
        BY <2>3, <3>1
      <3> QED BY <3>1, <3>2, RequestStaysOK
    <2> QED BY <2>1, <2>2, <2>3
  <1>3. InboxOK(R)'
    <2> SUFFICES ASSUME NEW i \in ProposalIds, tree'[ReviewPath(i)] # Absent
                 PROVE  Original(i, tree'[ReviewPath(i)], R)
      BY DEF InboxOK, Pending, Original, Quotes, Claimed
    <2>1. CASE tree'[ReviewPath(i)] = tree[ReviewPath(i)]
      BY <2>1 DEF PInv, InboxOK, Pending
    <2>2. CASE tree'[ReviewPath(i)] # tree[ReviewPath(i)]
      BY <2>2
    <2> QED BY <2>1, <2>2
  <1> QED BY <1>2, <1>3 DEF PInv

(* The commit's steps: a removal takes a proposal out of the inbox ...        *)
LEMMA RemoveKeepsPages ==
  ASSUME NEW R, WInv, PInv(R), NEW h \in Handlers, RemoveNext(h)
  PROVE  PInv(R)'
  <1> DEFINE i    == req[h].id
             path == Head(req[h].todo).path
             r    == [pc |-> "committing", op |-> req[h].op, id |-> i,
                      todo |-> Tail(req[h].todo)]
  <1>1. /\ req[h].pc = "committing" /\ req[h].todo # << >> /\ Head(req[h].todo).data = Absent
        /\ StageRemoval(path) /\ req' = [req EXCEPT ![h] = r]
        /\ UNCHANGED <<head, minted, acked, landed, faults>>
    BY DEF RemoveNext, Committing
  <1>2. Committed(req[h])
    BY <1>1 DEF Committed
  <1>3. Tail(req[h].todo) = << >> /\ Head(req[h].todo) = Removal(i)
    BY <1>1, <1>2, NextChange, WritesAreNotRemovals DEF WInv
  <1>4. path = ReviewPath(i) /\ i \in ProposalIds /\ path \in Paths
    <2>1. path = ReviewPath(i)
      BY <1>3 DEF Removal, Change
    <2>2. i \in ProposalIds
      BY <1>2, CommitIs
    <2> QED BY <2>1, <2>2, PathsAreDistinct
  <1>5. /\ r.pc = "committing" /\ r.id = i /\ r.todo = << >> /\ r.op = req[h].op
    BY <1>3
  <1> HIDE DEF r, path
  <1>6. \A q \in Paths :
          /\ tree'[q] = IF q = path THEN Absent ELSE tree[q]
          /\ index'[q] = index[q] \/ q = path
    <2>1. WellFormed(tree) /\ WellFormed(index)
      BY <1>2, CommitIs
    <2>2. CASE tree[path] = Absent
      BY <1>1, <1>4, <2>2 DEF StageRemoval, path
    <2>3. CASE tree[path] # Absent
      <3>1. /\ tree' = [tree EXCEPT ![path] = Absent]
            /\ index' = [index EXCEPT ![path] = Absent]
        BY <1>1, <2>3 DEF StageRemoval, path
      <3> QED BY <1>4, <2>1, <3>1, OnePathWritten DEF WellFormed
    <2> QED BY <2>2, <2>3
  <1>7. /\ \A s \in Slugs : /\ tree'[PagePath(s)] = tree[PagePath(s)]
                            /\ index'[PagePath(s)] = index[PagePath(s)]
        /\ \A j \in ProposalIds : tree'[ReviewPath(j)] \in {Absent, tree[ReviewPath(j)]}
    BY <1>4, <1>6, PathsAreDistinct
  <1>8. StoreOK(tree)' /\ StoreOK(index)' /\ StoreOK(head)'
    <2>1. \A s \in Slugs : tree'[PagePath(s)] # Absent => PageOK(tree'[PagePath(s)], landed')
      BY <1>1, <1>7 DEF PInv, StoreOK
    <2>2. \A s \in Slugs : index'[PagePath(s)] # Absent => PageOK(index'[PagePath(s)], landed')
      BY <1>1, <1>7 DEF PInv, StoreOK
    <2>3. \A s \in Slugs : head'[PagePath(s)] # Absent => PageOK(head'[PagePath(s)], landed')
      BY <1>1 DEF PInv, StoreOK
    <2> QED BY <2>1, <2>2, <2>3 DEF StoreOK, PageOK, Quotes, Once, Claimed
  <1>9. RequestOK(R, r, tree', landed')
    <2>1. Len(r.todo) = 0
      BY <1>5
    <2> QED BY <1>5, <2>1 DEF RequestOK, Judged, Proposing, Accepting, Committed
  <1> QED BY <1>1, <1>4, <1>5, <1>7, <1>8, <1>9, CommitKeepsPages

(* ... an add stages a file as it is on disk ...                              *)
LEMMA AddKeepsPages ==
  ASSUME NEW R, WInv, PInv(R), NEW h \in Handlers, AddNext(h)
  PROVE  PInv(R)'
  <1>1. CASE Refuse(h)
    BY <1>1, EndsKeepPages
  <1>2. CASE ~ Refuse(h)
    <2> DEFINE i    == req[h].id
               path == Head(req[h].todo).path
               r    == [pc |-> "committing", op |-> req[h].op, id |-> i,
                        todo |-> Tail(req[h].todo)]
    <2>1. /\ req[h].pc = "written" /\ index' = [index EXCEPT ![path] = tree[path]]
          /\ req' = [req EXCEPT ![h] = r]
          /\ UNCHANGED <<tree, head, minted, acked, landed, faults>>
      BY <1>2 DEF AddNext, Add, Committing
    <2>2. Committed(req[h])
      BY <2>1 DEF Committed
    <2>3. /\ req[h].todo # << >> /\ i \in ProposalIds /\ WellFormed(index)
          /\ Tail(req[h].todo) \in {<< >>, <<Removal(i)>>}
          /\ req[h].op = "propose" => Tail(req[h].todo) = << >>
      BY <2>1, <2>2, CommitIs, NextChange DEF WInv, Decisions
    <2>4. /\ r.pc = "committing" /\ r.op = req[h].op /\ r.id = i
          /\ r.todo = Tail(req[h].todo)
      OBVIOUS
    <2> HIDE DEF r, path
    <2>5. \A q \in Paths : index'[q] \in {index[q], tree[q]}
      BY <2>1, <2>3 DEF WellFormed
    <2>6. StoreOK(index)' /\ StoreOK(tree)' /\ StoreOK(head)'
      <3>1. \A s \in Slugs : index'[PagePath(s)] \in {index[PagePath(s)], tree[PagePath(s)]}
        BY <2>5, PathsAreDistinct
      <3> QED BY <2>1, <3>1 DEF PInv, StoreOK
    <2>7. RequestOK(R, r, tree', landed')
      <3>1. Len(<< >>) = 0 /\ Len(<<Removal(i)>>) = 1
        OBVIOUS
      <3>2. Len(r.todo) # 2 /\ (r.op = "propose" => r.todo = << >>)
        <4>1. CASE r.todo = << >>
          BY <3>1, <4>1
        <4>2. CASE r.todo = <<Removal(i)>>
          <5>1. r.todo # << >> /\ Len(r.todo) # 2
            BY <3>1, <4>2
          <5> QED BY <2>3, <2>4, <5>1
        <4> QED BY <2>3, <2>4, <4>1, <4>2
      <3> QED BY <2>4, <3>2 DEF RequestOK, Judged, Proposing, Accepting, Committed
    <2> QED BY <2>1, <2>3, <2>4, <2>6, <2>7, CommitKeepsPages
  <1> QED BY <1>1, <1>2

(* ... and a write puts on disk what the request was holding.                 *)
LEMMA WriteKeepsPages ==
  ASSUME NEW R, WInv, PInv(R), NEW h \in Handlers, WriteNext(h)
  PROVE  PInv(R)'
  <1> DEFINE i == req[h].id
             data == Head(req[h].todo).data
             path == Head(req[h].todo).path
             r == [pc |-> "written", op |-> req[h].op, id |-> i, todo |-> req[h].todo]
  <1>1. /\ req[h].pc = "committing" /\ req[h].todo # << >> /\ data # Absent
        /\ tree' = [tree EXCEPT ![path] = data]
        /\ landed' = landed \cup {j \in {i} : path[1] = "page"}
        /\ req' = [req EXCEPT ![h].pc = "written"]
        /\ UNCHANGED <<index, head, minted, acked, faults>>
    BY DEF WriteNext, WriteFile
  <1>2. Committed(req[h])
    BY <1>1 DEF Committed
  <1>3. /\ i \in ProposalIds /\ TodoOK(req[h]) /\ WellFormed(tree)
        /\ req[h] = [pc |-> req[h].pc, op |-> req[h].op, id |-> i, todo |-> req[h].todo]
    BY <1>2, CommitIs
  <1>4. req' = [req EXCEPT ![h] = r]
    <2>1. [req[h] EXCEPT !.pc = "written"] = r
      BY <1>3
    <2> QED BY <1>1, <2>1
  <1>5. /\ r.pc = "written" /\ r.op = req[h].op /\ r.id = i /\ r.todo = req[h].todo
    OBVIOUS
  <1>6. data = req[h].todo[1].data /\ path = req[h].todo[1].path
    BY <1>1, <1>2, NextChange DEF WInv
  <1> HIDE DEF r, data, path
  <1>7. RequestOK(R, req[h], tree, landed) /\ landed \subseteq landed'
    BY <1>1 DEF PInv
  <1>8. /\ Proposing(r) = Proposing(req[h]) /\ Accepting(r) = Accepting(req[h])
        /\ Committed(r) /\ ~ Judged(r)
    BY <1>1, <1>5 DEF Proposing, Accepting, Committed, Judged
  <1>9. StoreOK(index)' /\ StoreOK(head)'
    BY <1>1, <1>7, PageStaysOK DEF PInv, StoreOK
  <1>10. ASSUME path \in Paths PROVE \A q \in Paths : tree'[q] = IF q = path THEN data ELSE tree[q]
    BY <1>1, <1>3, <1>10 DEF WellFormed
  <1>11. ASSUME req[h].op \notin {"accept", "editAccept"}
         PROVE  RequestOK(R, r, tree', landed')
    BY <1>5, <1>7, <1>8, <1>11 DEF RequestOK, Accepting
  <1>12. CASE req[h].op = "propose" /\ path = ReviewPath(i)
    <2>1. path \in Paths
      BY <1>3, <1>12, PathsAreDistinct
    <2>2. /\ \A s \in Slugs : tree'[PagePath(s)] = tree[PagePath(s)]
          /\ \A j \in ProposalIds \ {i} : tree'[ReviewPath(j)] = tree[ReviewPath(j)]
          /\ tree'[ReviewPath(i)] = data
      BY <1>3, <1>10, <1>12, <2>1, PathsAreDistinct
    <2>3. StoreOK(tree)'
      BY <1>7, <2>2, PageStaysOK DEF PInv, StoreOK
    <2>4. Original(i, data, R)
      BY <1>1, <1>2, <1>6, <1>7, <1>12 DEF RequestOK, Proposing
    <2>5. \A x \in Handlers \ {h} : req[x] = Idle \/ req[x].id # i
      BY <1>1, <1>2, <1>12, CommitIs DEF Filing
    <2>6. RequestOK(R, r, tree', landed')
      BY <1>11, <1>12
    <2>7. /\ \A j \in ProposalIds \ {r.id} :
               tree'[ReviewPath(j)] \in {Absent, tree[ReviewPath(j)]}
          /\ Original(r.id, tree'[ReviewPath(r.id)], R)
          /\ \A x \in Handlers \ {h} : req[x] = Idle \/ req[x].id # r.id
      BY <1>5, <2>2, <2>4, <2>5
    <2> QED BY <1>1, <1>3, <1>4, <1>5, <1>7, <1>9, <2>3, <2>6, <2>7, CommitKeepsPages
  <1>13. CASE /\ req[h].op \in {"accept", "editAccept"}
              /\ req[h].todo = <<req[h].todo[1], Removal(i)>>
              /\ \E slug \in Slugs : path = PagePath(slug)
    <2>1. PICK slug \in Slugs : path = PagePath(slug)
      BY <1>13
    <2>2. path \in Paths /\ landed' = landed \cup {i}
      BY <1>1, <2>1, PathsAreDistinct
    <2>3. /\ \A s \in Slugs : tree'[PagePath(s)] \in {data, tree[PagePath(s)]}
          /\ \A j \in ProposalIds : tree'[ReviewPath(j)] = tree[ReviewPath(j)]
      BY <1>3, <1>10, <2>1, <2>2, PathsAreDistinct
    <2>4. Accepting(req[h])
      BY <1>2, <1>13, ShortTodos DEF Accepting
    <2>5. PageOK(data, landed')
      BY <1>6, <1>7, <2>2, <2>4 DEF RequestOK
    <2>6. StoreOK(tree)'
      BY <1>7, <2>3, <2>5, PageStaysOK DEF PInv, StoreOK
    <2>7. RequestOK(R, r, tree', landed')
      <3>1. landed' \cup {i} = landed \cup {i}
        BY <2>2
      <3> QED BY <1>3, <1>5, <1>7, <1>8, <2>3, <3>1 DEF RequestOK
    <2>8. \A j \in ProposalIds : tree'[ReviewPath(j)] \in {Absent, tree[ReviewPath(j)]}
      BY <2>3
    <2> QED BY <1>1, <1>3, <1>4, <1>5, <1>7, <1>9, <2>6, <2>7, <2>8, CommitKeepsPages
  <1>14. CASE req[h].op = "reject" /\ path = RejectedPath(i)
    <2>1. path \in Paths
      BY <1>3, <1>14, PathsAreDistinct
    <2>2. /\ \A s \in Slugs : tree'[PagePath(s)] = tree[PagePath(s)]
          /\ \A j \in ProposalIds : tree'[ReviewPath(j)] \in {Absent, tree[ReviewPath(j)]}
      BY <1>10, <1>14, <2>1, PathsAreDistinct
    <2>3. StoreOK(tree)'
      BY <1>7, <2>2, PageStaysOK DEF PInv, StoreOK
    <2>4. RequestOK(R, r, tree', landed')
      BY <1>11, <1>14
    <2> QED BY <1>1, <1>3, <1>4, <1>5, <1>7, <1>9, <2>2, <2>3, <2>4, CommitKeepsPages
  <1>15. req[h].todo # <<Removal(i)>>
    BY <1>1, <1>6 DEF Removal, Change
  <1>16. \/ req[h].op = "propose" /\ FilesProposal(req[h].todo[1], i)
         \/ /\ req[h].op \in {"accept", "editAccept"}
            /\ req[h].todo = <<req[h].todo[1], Removal(i)>> /\ WritesPage(req[h].todo[1])
         \/ req[h].op = "reject" /\ WritesCopy(req[h].todo[1], i)
    BY <1>1, <1>3, <1>15 DEF TodoOK
  <1>17. /\ FilesProposal(req[h].todo[1], i) => path = ReviewPath(i)
         /\ WritesPage(req[h].todo[1]) => \E slug \in Slugs : path = PagePath(slug)
         /\ WritesCopy(req[h].todo[1], i) => path = RejectedPath(i)
    <2> DEFINE change == req[h].todo[1]
    <2>1. path = change.path
      BY <1>6
    <2> HIDE DEF change
    <2>2. \A q, d : change = Change(q, d) => path = q
      BY <2>1 DEF Change
    <2> QED BY <2>2 DEF FilesProposal, WritesPage, WritesCopy, change
  <1> QED BY <1>12, <1>13, <1>14, <1>16, <1>17

(* The end of a commit: what is staged becomes HEAD.                          *)
LEMMA FinishKeepsPages ==
  ASSUME NEW R, WInv, PInv(R), NEW h \in Handlers, Finish(h)
  PROVE  PInv(R)'
  <1>1. /\ req' = [req EXCEPT ![h] = Idle]
        /\ head' = index /\ UNCHANGED <<tree, index, landed, minted>>
    BY DEF Finish, RecordIndex, Answer
  <1>2. \A x \in Handlers : req'[x] \in {Idle, req[x]}
    BY <1>1 DEF WInv, TypeOK
  <1>3. (\A x \in Handlers : RequestOK(R, req[x], tree, landed))'
    BY <1>1, <1>2, IdleIsOK DEF PInv
  <1> QED BY <1>1, <1>3 DEF PInv, StoreOK, InboxOK, Pending

(* The owner's editor brings no proposal's claim in.                          *)
LEMMA OwnerKeepsPages ==
  ASSUME OwnerAddsNone, NEW R, WInv, PInv(R), OwnerSavesPage
  PROVE  PInv(R)'
  <1>1. PICK slug \in Slugs, page \in Page :
          /\ tree[PagePath(slug)] # Absent /\ page \in OwnerSaves(tree[PagePath(slug)])
          /\ tree' = [tree EXCEPT ![PagePath(slug)] = page]
          /\ UNCHANGED <<index, head, req, minted, acked, landed, faults>>
    BY DEF OwnerSavesPage, SaveInEditor
  <1>2. /\ tree'[PagePath(slug)] = page
        /\ \A path \in Paths \ {PagePath(slug)} : tree'[path] = tree[path]
    BY <1>1, PathsAreDistinct DEF WInv, TypeOK
  <1>3. PageOK(page, landed)
    <2>1. tree[PagePath(slug)] \in Page /\ PageOK(tree[PagePath(slug)], landed)
      BY <1>1 DEF WInv, TypeOK, PInv, StoreOK
    <2> QED BY <1>1, <2>1 DEF OwnerAddsNone, PageOK
  <1>4. StoreOK(tree)'
    <2> SUFFICES ASSUME NEW s \in Slugs, tree'[PagePath(s)] # Absent
                 PROVE  PageOK(tree'[PagePath(s)], landed)
      BY <1>1 DEF StoreOK
    <2>1. CASE s = slug
      BY <1>2, <1>3, <2>1
    <2>2. CASE s # slug
      BY <1>2, <2>2, PathsAreDistinct DEF PInv, StoreOK
    <2> QED BY <2>1, <2>2
  <1>5. \A i \in ProposalIds : tree'[ReviewPath(i)] = tree[ReviewPath(i)]
    BY <1>2, PathsAreDistinct
  <1>6. ASSUME NEW x \in Handlers PROVE RequestOK(R, req'[x], tree', landed')
    <2>1. CASE req[x] = Idle
      BY <1>1, <2>1, IdleIsOK
    <2>2. CASE req[x] # Idle
      <3>1. req[x].id \in ProposalIds /\ RequestOK(R, req[x], tree, landed)
        BY <2>2 DEF PInv, WInv, TypeOK, IsRequest
      <3> QED BY <1>1, <1>5, <3>1, RequestStaysOK
    <2> QED BY <2>1, <2>2
  <1> QED BY <1>1, <1>4, <1>5, <1>6 DEF PInv, StoreOK, InboxOK, Pending

------------------------------------------------------------------------------
(* The vault at the start quotes no proposal, and its inbox is as filed.      *)
LEMMA PagesStartOK ==
  ASSUME NEW R, VaultStartsUnproposed, Init
  PROVE  PInv(R)
  <1>1. /\ index = tree /\ head = tree /\ landed = {} /\ minted = DOMAIN Legacy
        /\ \A h \in Handlers : req[h] = Idle
    BY DEF Init
  <1>2. \A s \in Slugs : tree[PagePath(s)] = Pages[s]
    <2> SUFFICES ASSUME NEW s \in Slugs PROVE tree[PagePath(s)] = Pages[s]
      OBVIOUS
    <2>1. PagePath(s) \in Paths /\ PagePath(s)[1] = "page" /\ PagePath(s)[2] = s
      BY PathsAreDistinct DEF PagePath
    <2> QED BY <2>1 DEF Init
  <1>3. StoreOK(tree)
    BY <1>2 DEF StoreOK, VaultStartsUnproposed, PageOK, Once, Quotes
  <1>4. ASSUME NEW i \in ProposalIds, Pending(i) PROVE Original(i, tree[ReviewPath(i)], R)
    <2>1. /\ ReviewPath(i) \in Paths /\ ReviewPath(i)[1] = "review" /\ ReviewPath(i)[2] = i
      BY PathsAreDistinct DEF ReviewPath
    <2>2. CASE i \in DOMAIN Legacy
      <3>1. tree[ReviewPath(i)] = Legacy[i]
        BY <2>1, <2>2 DEF Init
      <3> QED BY <2>2, <3>1 DEF Original
    <2>3. CASE i \notin DOMAIN Legacy
      <3>1. tree[ReviewPath(i)] = Absent
        BY <2>1, <2>3 DEF Init
      <3> QED BY <1>4, <3>1 DEF Pending
    <2> QED BY <2>2, <2>3
  <1> QED BY <1>1, <1>3, <1>4, IdleIsOK DEF PInv, InboxOK, StoreOK

(* Every step keeps the pages.                                                *)
LEMMA StepsKeepPages ==
  ASSUME NEW R, {} \in R, Environment, WInv, PInv(R), [Next]_vars
  PROVE  PInv(R)'
  <1> USE DEF Environment
  <1>1. ASSUME NEW h \in Handlers, Handle(h) PROVE PInv(R)'
    <2>1. CASE Load(h)       BY <2>1, LoadKeepsPages
    <2>2. CASE Accept(h)     BY <2>2, AcceptKeepsPages
    <2>3. CASE Reject(h)     BY <2>3, RejectKeepsPages
    <2>4. CASE Build(h)      BY <2>4, BuildKeepsPages
    <2>5. CASE Propose(h)    BY <2>5, ProposeKeepsPages
    <2>6. CASE RemoveNext(h) BY <2>6, RemoveKeepsPages
    <2>7. CASE WriteNext(h)  BY <2>7, WriteKeepsPages
    <2>8. CASE AddNext(h)    BY <2>8, AddKeepsPages
    <2>9. CASE Finish(h)     BY <2>9, FinishKeepsPages
    <2>10. CASE Fail(h)      BY <2>10, EndsKeepPages
    <2> QED BY <1>1, <2>1, <2>2, <2>3, <2>4, <2>5, <2>6, <2>7, <2>8, <2>9, <2>10 DEF Handle
  <1>2. CASE Crash
    BY <1>2, EndsKeepPages
  <1>3. CASE OwnerSavesPage
    BY <1>3, OwnerKeepsPages
  <1>4. CASE UNCHANGED vars
    BY <1>4 DEF vars, PInv, StoreOK, InboxOK, Pending
  <1> QED BY <1>1, <1>2, <1>3, <1>4 DEF Next

(* git.go:113-173, review.go:192-257: PInv holds all along, with any number   *)
(* of requests in flight, failures and restarts.                              *)
THEOREM PagesInvariant ==
  ASSUME Environment
  PROVE  Spec => [](IInv /\ PInv(Nothing))
  <1>1. Init => IInv /\ PInv(Nothing)
    BY InitiallyInvariant, PagesStartOK DEF Environment
  <1>2. IInv /\ PInv(Nothing) /\ [Next]_vars => (IInv /\ PInv(Nothing))'
    <2> SUFFICES ASSUME IInv, PInv(Nothing), [Next]_vars PROVE IInv' /\ PInv(Nothing)'
      OBVIOUS
    <2>1. {} \in Nothing
      BY DEF Nothing
    <2> QED BY <2>1, InvariantStands, StepsKeepInvariant, StepsKeepPages
  <1> QED BY <1>1, <1>2, PTL DEF Spec

(* A set without two members is empty or a singleton.                         *)
LEMMA AtMostOne ==
  ASSUME NEW S, \A a, b \in S : a = b
  PROVE  Cardinality(S) <= 1
  <1>1. CASE S = {}
    BY <1>1, FS_EmptySet
  <1>2. CASE S # {}
    <2>1. PICK a \in S : S = {a}
      BY <1>2
    <2>2. Cardinality({a}) = 1
      BY FS_Singleton
    <2> QED BY <2>1, <2>2
  <1> QED BY <1>1, <1>2

LEMMA LandsOnce ==
  ASSUME NEW R, PInv(R)
  PROVE  AppliedAtMostOnce
  <1> SUFFICES ASSUME NEW slug \in Slugs, NEW i \in PinnedIds, NEW store \in {tree, index, head},
                      store[PagePath(slug)] # Absent
               PROVE  Cardinality(Claimed(store[PagePath(slug)], i)) <= 1
    BY DEF AppliedAtMostOnce
  <1>1. Once(store[PagePath(slug)], i)
    BY DEF PInv, StoreOK, PageOK, PinnedIds
  <1> QED BY <1>1, AtMostOne DEF Once

(* However many requests run at once and whatever fails, no page, on disk,    *)
(* staged or in HEAD, holds a pinned proposal's claims twice                  *)
(* (AppliedAtMostOnce).                                                       *)
THEOREM ProposalsLandOnce ==
  ASSUME Environment
  PROVE  Spec => []AppliedAtMostOnce
  <1>1. PInv(Nothing) => AppliedAtMostOnce
    BY LandsOnce
  <1> QED BY <1>1, PagesInvariant, PTL

(* What an accept is about to write is the page its proposal was built on     *)
(* plus the proposal's claim (WritesBuildOnPin).                              *)
THEOREM AcceptsBuildOnPin ==
  ASSUME Environment, LegacyIsUnpinned
  PROVE  Spec => []WritesBuildOnPin
  <1>1. ASSUME IInv, PInv(Nothing) PROVE WritesBuildOnPin
    <2> SUFFICES ASSUME NEW h \in Handlers,
                        req[h].pc \in {"committing", "written"},
                        req[h].op \in {"accept", "editAccept"}, Len(req[h].todo) = 2,
                        Pending(req[h].id), tree[ReviewPath(req[h].id)].pin # Unpinned
                 PROVE  LET pin  == tree[ReviewPath(req[h].id)].pin
                            page == Head(req[h].todo).data
                        IN /\ page.body = pin.body
                           /\ Len(page.claims) = Len(pin.claims) + 1
                           /\ SubSeq(page.claims, 1, Len(pin.claims)) = pin.claims
      BY DEF WritesBuildOnPin
    <2> DEFINE i    == req[h].id
               pin  == tree[ReviewPath(i)].pin
               page == Head(req[h].todo).data
    <2>1. Committed(req[h])
      BY DEF Committed
    <2>2. i \in ProposalIds /\ Accepting(req[h])
      BY <1>1, <2>1, CommitRequest DEF Accepting
    <2>3. i \in PinnedIds /\ pin \in Page
      <3>1. Original(i, tree[ReviewPath(i)], Nothing)
        BY <1>1, <2>2 DEF PInv, InboxOK
      <3>2. i \notin DOMAIN Legacy
        BY <3>1 DEF Original, LegacyIsUnpinned
      <3> QED BY <2>2, <3>1, <3>2 DEF Original, PinnedIds
    <2>4. req[h].todo # << >> /\ Head(req[h].todo) = req[h].todo[1]
      <3>1. Len(<< >>) # 2
        OBVIOUS
      <3>2. req[h].todo # << >>
        BY <3>1
      <3> QED BY <1>1, <2>1, <3>2, NextChange DEF IInv
    <2>5. Extends(page, pin)
      <3>1. RequestOK(Nothing, req[h], tree, landed)
        BY <1>1 DEF PInv
      <3>2. tree[ReviewPath(i)].change.retire = {}
        BY <1>1, <2>2, <2>3 DEF PInv, InboxOK, Original, PinnedIds, Nothing
      <3> QED BY <2>2, <2>3, <2>4, <3>1, <3>2 DEF RequestOK, Pending
    <2>6. page \in Page
      <3>1. req[h].todo = <<req[h].todo[1], Removal(i)>> /\ WritesPage(req[h].todo[1])
        <4>1. TodoOK(req[h]) /\ req[h].op # "propose" /\ req[h].op # "reject"
          BY <1>1, <2>1, CommitRequest
        <4>2. \A a : Len(<<a>>) # 2
          OBVIOUS
        <4>3. req[h].todo # << >> /\ req[h].todo # <<Removal(i)>>
          BY <4>2
        <4> QED BY <4>1, <4>3 DEF TodoOK
      <3> QED BY <2>4, <3>1 DEF WritesPage
    <2> HIDE DEF page, pin
    <2>7. SubSeq(page.claims, 1, Len(pin.claims)) = pin.claims
      BY <2>3, <2>5, <2>6 DEF Page, Extends
    <2> QED BY <2>5, <2>7 DEF Extends, page, pin
  <1> QED BY <1>1, PagesInvariant, PTL

------------------------------------------------------------------------------
(* One request at a time, without failures.                                   *)

(* What the one request's step must do to keep the invariant.                 *)
LEMMA SerialKeeps ==
  ASSUME Serial, IInv, SInv, NEW h \in Handlers, NEW r, req' = [req EXCEPT ![h] = r],
         SerialRequest(r, tree', landed'),
         \A i \in ProposalIds :
           (i \in landed' \/ tree'[RejectedPath(i)] # Absent) /\ tree'[ReviewPath(i)] # Absent =>
             r.id = i /\ Settling(r),
         \A path \in Paths : path[1] # "page" =>
           tree'[path] = index'[path] \/ Unstaged(r, path),
         Committed(r) \/ index' = head',
         LegacyOnePerTarget => OneEach', OneDecision', NeverHalfAccepted'
  PROVE  SInv'
  <1>1. req'[h] = r /\ \A x \in Handlers : x = h
    BY DEF IInv, TypeOK, Serial
  <1>2. (\A x \in Handlers : SerialRequest(req[x], tree, landed))'
    BY <1>1
  <1>3. (\A i \in ProposalIds :
           (i \in landed \/ tree[RejectedPath(i)] # Absent) /\ tree[ReviewPath(i)] # Absent =>
             \E x \in Handlers : req[x].id = i /\ Settling(req[x]))'
    BY <1>1
  <1>4. (\A path \in Paths : path[1] # "page" =>
           tree[path] = index[path] \/ \E x \in Handlers : Unstaged(req[x], path))'
    BY <1>1
  <1>5. ((\A x \in Handlers : ~ Committed(req[x])) => index = head)'
    BY <1>1
  <1> QED BY <1>2, <1>3, <1>4, <1>5 DEF SInv, LegacyOnePerTarget

(* What the invariant says about the vault while its one request is at work.  *)
LEMMA SerialVault ==
  ASSUME Serial, IInv, SInv, NEW h \in Handlers
  PROVE  /\ SerialRequest(req[h], tree, landed)
         /\ \A i \in ProposalIds :
              (i \in landed \/ tree[RejectedPath(i)] # Absent) /\ tree[ReviewPath(i)] # Absent =>
                req[h].id = i /\ Settling(req[h])
         /\ \A path \in Paths : path[1] # "page" =>
              tree[path] = index[path] \/ Unstaged(req[h], path)
         /\ Committed(req[h]) \/ index = head
         /\ LegacyOnePerTarget => OneEach
         /\ OneDecision /\ NeverHalfAccepted
  <1>1. \A x \in Handlers : x = h
    BY DEF Serial
  <1> QED BY <1>1 DEF SInv

(* A step on the way to the commit: nothing on disk changes.                  *)
LEMMA SerialMovesOn ==
  ASSUME Serial, IInv, SInv, NEW h \in Handlers, ~ Committed(req[h]), NEW r,
         req' = [req EXCEPT ![h] = r], UNCHANGED <<tree, index, head, landed>>,
         SerialRequest(r, tree, landed)
  PROVE  SInv'
  <1>1. ~ Settling(req[h]) /\ \A path : ~ Unstaged(req[h], path)
    BY DEF Settling, Unstaged, Committed
  <1>2. /\ (LegacyOnePerTarget => OneEach) = (LegacyOnePerTarget => OneEach')
        /\ OneDecision' = OneDecision /\ NeverHalfAccepted' = NeverHalfAccepted
    BY DEF OneEach, Pending, OneDecision, NeverHalfAccepted, Claimed
  <1>3. /\ \A i \in ProposalIds :
             (i \in landed \/ tree[RejectedPath(i)] # Absent) => tree[ReviewPath(i)] = Absent
        /\ \A path \in Paths : path[1] # "page" => tree[path] = index[path]
        /\ index = head
    BY <1>1, SerialVault
  <1> QED BY <1>2, <1>3, SerialVault, SerialKeeps

(* Without a request nothing is half done.                                    *)
LEMMA SerialIdle == \A files, ids : SerialRequest(Idle, files, ids)
  BY DEF SerialRequest, Idle

(* The handlers of one request at a time, up to their commit.                 *)
LEMMA SerialLoad ==
  ASSUME Serial, IInv, SInv, NEW h \in Handlers, Load(h)
  PROVE  SInv'
  <1>1. PICK op \in Decisions, i \in ProposalIds :
          /\ Pending(i) /\ req[h] = Idle
          /\ req' = [req EXCEPT ![h] = [pc |-> "loaded", op |-> op, id |-> i,
                                       proposal |-> tree[ReviewPath(i)]]]
          /\ UNCHANGED <<vault, minted, acked, landed, faults>>
    BY DEF Load
  <1> DEFINE r == [pc |-> "loaded", op |-> op, id |-> i, proposal |-> tree[ReviewPath(i)]]
  <1>2. ~ Committed(req[h]) /\ ~ Settling(req[h])
    BY <1>1 DEF Idle, Committed, Settling
  <1>3. tree[ReviewPath(i)] # Absent /\ i \notin landed /\ tree[RejectedPath(i)] = Absent
    BY <1>1, <1>2, SerialVault DEF Pending
  <1>4. r.pc = "loaded" /\ r.id = i
    OBVIOUS
  <1> HIDE DEF r
  <1>5. SerialRequest(r, tree, landed)
    BY <1>3, <1>4 DEF SerialRequest
  <1> QED BY <1>1, <1>2, <1>5, SerialMovesOn DEF r, vault

(* An accept or a rejection begins its commit with all else committed.        *)
LEMMA SerialDecide ==
  ASSUME Serial, IInv, SInv, NEW h \in Handlers, Accept(h) \/ Reject(h)
  PROVE  SInv'
  <1>1. req[h].pc = "loaded" /\ ~ Committed(req[h])
    BY DEF Accept, Reject, Committed
  <1>2. CASE Refuse(h)
    BY <1>1, <1>2, SerialIdle, SerialMovesOn DEF Refuse, Answer, vault
  <1>3. CASE ~ Refuse(h)
    <2>1. PICK todo : /\ Committing(h, todo) /\ UNCHANGED <<vault, landed>>
                      /\ req[h].op \in Decisions
      BY <1>3, Zenon DEF Accept, Reject, Decisions
    <2> DEFINE r == [pc |-> "committing", op |-> req[h].op, id |-> req[h].id, todo |-> todo]
    <2>2. /\ req' = [req EXCEPT ![h] = r]
          /\ r.pc = "committing" /\ r.op \in Decisions /\ r.id = req[h].id
      BY <2>1 DEF Committing
    <2> HIDE DEF r
    <2>3. SerialRequest(r, tree, landed)
      <3>1. SerialRequest(req[h], tree, landed) /\ r.op # "propose"
        BY <2>2, SerialVault DEF Decisions
      <3> QED BY <1>1, <2>2, <3>1 DEF SerialRequest
    <2> QED BY <1>1, <2>1, <2>2, <2>3, SerialMovesOn DEF vault
  <1> QED BY <1>2, <1>3

(* So does a proposal once it is built, which is the first for its page.      *)
LEMMA SerialPropose ==
  ASSUME Serial, IInv, SInv, NEW h \in Handlers, Build(h) \/ Propose(h)
  PROVE  SInv'
  <1>1. ~ Committed(req[h])
    BY DEF Build, Propose, Committed, Idle
  <1>2. CASE Refuse(h)
    BY <1>1, <1>2, SerialIdle, SerialMovesOn DEF Refuse, Answer, vault
  <1>3. CASE Build(h)
    <2>1. PICK r : /\ r.pc = "built" /\ req' = [req EXCEPT ![h] = r]
                   /\ UNCHANGED <<vault, landed>>
      BY <1>3 DEF Build
    <2>2. SerialRequest(r, tree, landed)
      BY <2>1 DEF SerialRequest
    <2> QED BY <1>1, <2>1, <2>2, SerialMovesOn DEF vault
  <1>4. CASE Propose(h) /\ ~ Refuse(h)
    <2> DEFINE p == req[h].proposal
               r == [pc |-> "committing", op |-> req[h].op, id |-> req[h].id,
                     todo |-> <<Change(ReviewPath(req[h].id), p)>>]
    <2>1. /\ PendingFor(p.target) = {} /\ req' = [req EXCEPT ![h] = r]
          /\ UNCHANGED <<vault, landed>> /\ req[h].op = "propose"
      BY <1>4 DEF Propose, Committing, IInv, TypeOK, IsRequest, Idle
    <2>2. /\ r.pc = "committing" /\ r.op = "propose" /\ r.todo[1].data = p
      BY <2>1 DEF Change
    <2> HIDE DEF r, p
    <2>3. SerialRequest(r, tree, landed)
      BY <2>1, <2>2 DEF SerialRequest, PendingFor, Pending, Decisions
    <2> QED BY <1>1, <2>1, <2>3, SerialMovesOn DEF vault
  <1> QED BY <1>2, <1>3, <1>4

(* Taking the decided proposal out leaves none that is decided and pending.   *)
LEMMA SerialRemove ==
  ASSUME Serial, IInv, SInv, NEW h \in Handlers, RemoveNext(h)
  PROVE  SInv'
  <1> DEFINE i    == req[h].id
             path == Head(req[h].todo).path
             r    == [pc |-> "committing", op |-> req[h].op, id |-> i,
                      todo |-> Tail(req[h].todo)]
  <1>1. /\ req[h].pc = "committing" /\ req[h].todo # << >> /\ Head(req[h].todo).data = Absent
        /\ StageRemoval(path) /\ req' = [req EXCEPT ![h] = r]
        /\ UNCHANGED <<head, minted, acked, landed, faults>>
    BY DEF RemoveNext, Committing
  <1>2. Committed(req[h]) /\ \A q : ~ Unstaged(req[h], q)
    BY <1>1 DEF Committed, Unstaged
  <1>3. Tail(req[h].todo) = << >> /\ Head(req[h].todo) = Removal(i)
    BY <1>1, <1>2, NextChange, WritesAreNotRemovals DEF IInv
  <1>4. path = ReviewPath(i) /\ i \in ProposalIds /\ path \in Paths
    <2>1. path = ReviewPath(i)
      BY <1>3 DEF Removal, Change
    <2>2. i \in ProposalIds
      BY <1>2, CommitRequest
    <2> QED BY <2>1, <2>2, PathsAreDistinct
  <1>5. /\ r.pc = "committing" /\ r.id = i /\ r.todo = << >> /\ r.op = req[h].op
    BY <1>3
  <1> HIDE DEF r, path
  <1>6. \A q \in Paths :
          /\ tree'[q] = IF q = path THEN Absent ELSE tree[q]
          /\ q[1] # "page" => tree'[q] = index'[q]
    <2>1. /\ WellFormed(tree) /\ WellFormed(index)
          /\ \A q \in Paths : q[1] # "page" => tree[q] = index[q]
      BY <1>2, CommitRequest, SerialVault
    <2>2. CASE tree[path] = Absent
      BY <1>1, <1>4, <2>1, <2>2 DEF StageRemoval, path
    <2>3. CASE tree[path] # Absent
      <3>1. /\ tree' = [tree EXCEPT ![path] = Absent]
            /\ index' = [index EXCEPT ![path] = Absent]
        BY <1>1, <2>3 DEF StageRemoval, path
      <3> QED BY <1>4, <2>1, <3>1, OnePathWritten DEF WellFormed
    <2> QED BY <2>2, <2>3
  <1>7. \A j \in ProposalIds : /\ tree'[RejectedPath(j)] = tree[RejectedPath(j)]
                               /\ j # i => tree'[ReviewPath(j)] = tree[ReviewPath(j)]
                               /\ tree'[ReviewPath(i)] = Absent
    BY <1>4, <1>6, PathsAreDistinct
  <1>8. \A j \in ProposalIds :
          (j \in landed' \/ tree'[RejectedPath(j)] # Absent) => tree'[ReviewPath(j)] = Absent
    BY <1>1, <1>7, SerialVault
  <1>9. (LegacyOnePerTarget => OneEach') /\ OneDecision' /\ NeverHalfAccepted'
    <2>1. LegacyOnePerTarget => OneEach'
      BY <1>7, SerialVault DEF OneEach, Pending
    <2>2. OneDecision'
      BY <1>1, <1>7, SerialVault DEF OneDecision, IInv, TypeOK
    <2>3. NeverHalfAccepted'
      BY <1>1, SerialVault DEF NeverHalfAccepted, Claimed
    <2> QED BY <2>1, <2>2, <2>3
  <1>10. SerialRequest(r, tree', landed')
    <2>1. Len(r.todo) # 2
      BY <1>5
    <2> QED BY <1>5, <2>1 DEF SerialRequest
  <1>11. Committed(r)
    BY <1>5 DEF Committed
  <1> QED BY <1>1, <1>6, <1>8, <1>9, <1>10, <1>11, SerialKeeps

(* What was written gets staged: the two stores agree again off the pages.    *)
LEMMA SerialAdd ==
  ASSUME Serial, IInv, SInv, NEW h \in Handlers, AddNext(h)
  PROVE  SInv'
  <1> DEFINE i    == req[h].id
             path == Head(req[h].todo).path
             r    == [pc |-> "committing", op |-> req[h].op, id |-> i,
                      todo |-> Tail(req[h].todo)]
  <1>1. req[h].pc = "written" /\ Committed(req[h])
    BY DEF AddNext, Committed
  <1>2. /\ req[h].todo # << >> /\ req[h].todo[1].data # Absent
        /\ i \in ProposalIds /\ WellFormed(index) /\ "propose" \notin Decisions
        /\ Head(req[h].todo) = req[h].todo[1]
        /\ \/ req[h].op = "propose" /\ Tail(req[h].todo) = << >>
           \/ req[h].op \in Decisions /\ Tail(req[h].todo) = <<Removal(i)>>
    <2>1. /\ req[h].todo # << >> /\ req[h].todo[1].data # Absent
          /\ i \in ProposalIds /\ WellFormed(index) /\ "propose" \notin Decisions
          /\ {"accept", "editAccept", "reject"} \subseteq Decisions
      BY <1>1, CommitRequest DEF Decisions
    <2>2. Removal(i).data = Absent
      BY DEF Removal, Change
    <2> QED BY <1>1, <2>1, <2>2, NextChange DEF IInv
  <1>3. tree[path] # Absent
    <2>1. SerialRequest(req[h], tree, landed)
      BY SerialVault
    <2> QED BY <1>1, <1>2, <2>1 DEF SerialRequest
  <1>4. /\ index' = [index EXCEPT ![path] = tree[path]] /\ req' = [req EXCEPT ![h] = r]
        /\ UNCHANGED <<tree, head, landed, minted>>
    BY <1>3 DEF AddNext, CanAdd, Add, Committing
  <1>5. /\ r.pc = "committing" /\ r.op = req[h].op /\ r.id = i
        /\ r.todo = Tail(req[h].todo) /\ Committed(r)
    BY DEF Committed
  <1>6. path = req[h].todo[1].path
    BY <1>2
  <1> HIDE DEF r, path
  <1>7. Len(r.todo) <= 1 /\ Len(r.todo) # 2 /\ (r.op \in Decisions => r.todo # << >>)
    <2>1. CASE r.todo = << >>
      <3>1. r.op \notin Decisions
        <4>1. <<Removal(i)>> # << >>
          OBVIOUS
        <4> QED BY <1>2, <1>5, <2>1, <4>1, Zenon
      <3>2. Len(r.todo) = 0
        BY <2>1
      <3> QED BY <3>1, <3>2
    <2>2. CASE r.todo = <<Removal(i)>>
      <3>1. r.todo # << >> /\ Len(r.todo) = 1
        BY <2>2
      <3> QED BY <3>1
    <2> QED BY <1>2, <1>5, <2>1, <2>2
  <1>8. SerialRequest(r, tree', landed')
    BY <1>2, <1>5, <1>7 DEF SerialRequest
  <1>9. \A j \in ProposalIds :
          (j \in landed' \/ tree'[RejectedPath(j)] # Absent) /\ tree'[ReviewPath(j)] # Absent =>
            r.id = j /\ Settling(r)
    <2> SUFFICES ASSUME NEW j \in ProposalIds, req[h].id = j, Settling(req[h])
                 PROVE  r.id = j /\ Settling(r)
      BY <1>4, SerialVault
    <2> QED BY <1>5, <1>7 DEF Settling, Wrote
  <1>10. \A q \in Paths : q[1] # "page" => tree'[q] = index'[q]
    <2> SUFFICES ASSUME NEW q \in Paths, q[1] # "page" PROVE tree[q] = index'[q]
      BY <1>4
    <2>1. tree[q] = index[q] \/ q = path
      BY <1>6, SerialVault DEF Unstaged
    <2> QED BY <1>2, <1>4, <2>1 DEF WellFormed
  <1>11. (LegacyOnePerTarget => OneEach') /\ OneDecision' /\ NeverHalfAccepted'
    BY <1>4, SerialVault DEF OneEach, Pending, OneDecision, NeverHalfAccepted, Claimed
  <1> QED BY <1>4, <1>5, <1>8, <1>9, <1>10, <1>11, SerialKeeps

(* A file is written: the proposal, its target's page, or the rejected copy.  *)
LEMMA SerialWrite ==
  ASSUME Serial, IInv, SInv, NEW h \in Handlers, WriteNext(h)
  PROVE  SInv'
  <1> DEFINE i == req[h].id
             data == Head(req[h].todo).data
             path == Head(req[h].todo).path
             r == [pc |-> "written", op |-> req[h].op, id |-> i, todo |-> req[h].todo]
  <1>1. /\ req[h].pc = "committing" /\ req[h].todo # << >> /\ data # Absent
        /\ tree' = [tree EXCEPT ![path] = data]
        /\ landed' = landed \cup {j \in {i} : path[1] = "page"}
        /\ req' = [req EXCEPT ![h].pc = "written"]
        /\ UNCHANGED <<index, head, minted, acked, faults>>
    BY DEF WriteNext, WriteFile
  <1>2. Committed(req[h])
    BY <1>1 DEF Committed
  <1>3. /\ i \in ProposalIds /\ TodoOK(req[h]) /\ WellFormed(tree)
        /\ req[h] = [pc |-> req[h].pc, op |-> req[h].op, id |-> i, todo |-> req[h].todo]
    BY <1>2, CommitRequest
  <1>4. req' = [req EXCEPT ![h] = r]
    <2>1. [req[h] EXCEPT !.pc = "written"] = r
      BY <1>3
    <2> QED BY <1>1, <2>1
  <1>5. /\ r.pc = "written" /\ r.op = req[h].op /\ r.id = i /\ r.todo = req[h].todo
        /\ Committed(r)
    BY DEF Committed
  <1>6. data = req[h].todo[1].data /\ path = req[h].todo[1].path
    BY <1>1, <1>2, NextChange DEF IInv
  <1> HIDE DEF r, data, path
  <1>7. req[h].todo # <<Removal(i)>>
    BY <1>1, <1>6 DEF Removal, Change
  <1>8. \/ /\ req[h].op = "propose" /\ path = ReviewPath(i)
        \/ /\ req[h].op \in {"accept", "editAccept"} /\ \E s \in Slugs : path = PagePath(s)
           /\ req[h].todo = <<req[h].todo[1], Removal(i)>>
        \/ /\ req[h].op = "reject" /\ path = RejectedPath(i)
           /\ req[h].todo = <<req[h].todo[1], Removal(i)>>
    <2> DEFINE change == req[h].todo[1]
    <2>1. path = change.path
      BY <1>6
    <2> HIDE DEF change
    <2>2. \A q, d : change = Change(q, d) => path = q
      BY <2>1 DEF Change
    <2>3. /\ FilesProposal(change, i) => path = ReviewPath(i)
          /\ WritesPage(change) => \E s \in Slugs : path = PagePath(s)
          /\ WritesCopy(change, i) => path = RejectedPath(i)
      BY <2>2 DEF FilesProposal, WritesPage, WritesCopy
    <2> QED BY <1>1, <1>3, <1>7, <2>3 DEF TodoOK, change
  <1>9. path \in Paths
    BY <1>3, <1>8, PathsAreDistinct
  <1>10. \A q \in Paths : tree'[q] = IF q = path THEN data ELSE tree[q]
    BY <1>1, <1>3, <1>9 DEF WellFormed
  <1>11. SerialRequest(r, tree', landed')
    BY <1>1, <1>5, <1>6, <1>9, <1>10 DEF SerialRequest
  <1>12. \A q \in Paths : q[1] # "page" => tree'[q] = index'[q] \/ Unstaged(r, q)
    <2>1. \A q \in Paths : q[1] # "page" => tree[q] = index[q]
      BY <1>1, SerialVault DEF Unstaged
    <2> QED BY <1>1, <1>5, <1>6, <1>10, <2>1 DEF Unstaged
  <1>13. NeverHalfAccepted'
    BY <1>1, SerialVault DEF NeverHalfAccepted, Claimed
  <1>14. SerialRequest(req[h], tree, landed) /\ OneDecision /\ (LegacyOnePerTarget => OneEach)
    BY SerialVault
  <1> USE <1>1, <1>3, <1>9, <1>10
  <1>15. CASE req[h].op = "propose" /\ path = ReviewPath(i)
    <2>1. /\ \A j \in ProposalIds : tree'[RejectedPath(j)] = tree[RejectedPath(j)]
          /\ \A j \in ProposalIds \ {i} : tree'[ReviewPath(j)] = tree[ReviewPath(j)]
          /\ tree'[ReviewPath(i)] = data /\ landed' = landed
      BY <1>15, PathsAreDistinct
    <2>2. /\ i \notin landed /\ tree[RejectedPath(i)] = Absent
      BY <1>2, <1>15, CommitRequest DEF Filing, FiledIds, RejectedIds
    <2>3. \A j \in ProposalIds :
            j \in landed' \/ tree'[RejectedPath(j)] # Absent => tree'[ReviewPath(j)] = Absent
      <3>1. ~ Settling(req[h])
        BY <1>15 DEF Settling, Decisions
      <3> QED BY <2>1, <2>2, <3>1, SerialVault
    <2>4. LegacyOnePerTarget => OneEach'
      <3>1. \A j \in ProposalIds : tree[ReviewPath(j)] # Absent =>
              tree[ReviewPath(j)].target # data.target
        BY <1>6, <1>14, <1>15 DEF SerialRequest
      <3> QED BY <1>14, <2>1, <3>1 DEF OneEach, Pending
    <2>5. OneDecision'
      BY <1>14, <2>1, SMTT(30) DEF OneDecision, IInv, TypeOK
    <2>6. \A j \in ProposalIds :
            (j \in landed' \/ tree'[RejectedPath(j)] # Absent) /\ tree'[ReviewPath(j)] # Absent =>
              r.id = j /\ Settling(r)
      BY <2>3
    <2> QED BY <1>4, <1>5, <1>11, <1>12, <1>13, <2>4, <2>5, <2>6, SerialKeeps, ZenonT(30)
  <1>16. CASE req[h].op # "propose"
    <2>1. Len(req[h].todo) = 2 /\ req[h].op \in Decisions
      BY <1>8, <1>16, ShortTodos DEF Decisions
    <2>2. /\ tree[ReviewPath(i)] # Absent /\ tree[RejectedPath(i)] = Absent /\ i \notin landed
      BY <1>14, <2>1 DEF SerialRequest
    <2>3. \A j \in ProposalIds : tree'[ReviewPath(j)] = tree[ReviewPath(j)]
      BY <1>8, <1>16, PathsAreDistinct
    <2>4. \A j \in ProposalIds \ {i} : /\ tree'[RejectedPath(j)] = tree[RejectedPath(j)]
                                       /\ j \in landed' => j \in landed
      BY <1>8, <1>16, PathsAreDistinct
    <2>5. Settling(r)
      BY <1>5, <2>1 DEF Settling, Wrote
    <2>6. \A j \in ProposalIds :
            (j \in landed' \/ tree'[RejectedPath(j)] # Absent) /\ tree'[ReviewPath(j)] # Absent =>
              r.id = j /\ Settling(r)
      BY <1>5, <2>3, <2>4, <2>5, SerialVault
    <2>7. LegacyOnePerTarget => OneEach'
      BY <1>14, <2>3 DEF OneEach, Pending
    <2>8. OneDecision'
      <3> SUFFICES ASSUME NEW j \in landed' PROVE tree'[RejectedPath(j)] = Absent
        BY DEF OneDecision
      <3>1. CASE j # i
        BY <1>14, <2>4, <3>1, SMTT(30) DEF OneDecision, IInv, TypeOK
      <3>2. CASE j = i
        <4>1. path # RejectedPath(i)
          BY <1>8, <2>2, <3>2, PathsAreDistinct
        <4> QED BY <2>2, <3>2, <4>1, PathsAreDistinct
      <3> QED BY <3>1, <3>2
    <2> QED BY <1>4, <1>5, <1>11, <1>12, <1>13, <2>6, <2>7, <2>8, SerialKeeps, ZenonT(30)
  <1> QED BY <1>8, <1>15, <1>16

(* The commit: no decided proposal is left pending, so HEAD has none either.  *)
LEMMA SerialFinish ==
  ASSUME Serial, IInv, PInv(Nothing), SInv, NEW h \in Handlers, Finish(h)
  PROVE  SInv'
  <1>1. /\ req[h].pc = "committing" /\ req[h].todo = << >>
        /\ req' = [req EXCEPT ![h] = Idle]
        /\ head' = index /\ UNCHANGED <<tree, index, landed, minted>>
    BY DEF Finish, RecordIndex, Answer
  <1>2. ~ Settling(req[h]) /\ \A path : ~ Unstaged(req[h], path)
    BY <1>1 DEF Settling, Unstaged
  <1>3. \A i \in ProposalIds :
          i \in landed \/ tree[RejectedPath(i)] # Absent => tree[ReviewPath(i)] = Absent
    BY <1>2, SerialVault
  <1>4. NeverHalfAccepted'
    <2> SUFFICES ASSUME NEW slug \in Slugs, NEW i \in ProposalIds,
                        index[PagePath(slug)] # Absent,
                        Claimed(index[PagePath(slug)], i) # {}
                 PROVE  index[ReviewPath(i)] = Absent
      BY <1>1 DEF NeverHalfAccepted, Claimed
    <2>1. i \in landed
      BY DEF PInv, StoreOK, PageOK, Quotes
    <2>2. index[ReviewPath(i)] \in {Absent, tree[ReviewPath(i)]}
      BY DEF IInv, InboxIsStaged
    <2> QED BY <1>3, <2>1, <2>2
  <1>5. (LegacyOnePerTarget => OneEach') /\ OneDecision'
    BY <1>1, SerialVault DEF OneEach, Pending, OneDecision
  <1>6. \A path \in Paths : path[1] # "page" => tree'[path] = index'[path]
    BY <1>1, <1>2, SerialVault
  <1>7. \A i \in ProposalIds :
          (i \in landed' \/ tree'[RejectedPath(i)] # Absent) => tree'[ReviewPath(i)] = Absent
    BY <1>1, <1>3
  <1> QED BY <1>1, <1>4, <1>5, <1>6, <1>7, SerialIdle, SerialKeeps

(* The owner's editor touches pages on disk only.                             *)
LEMMA SerialOwner ==
  ASSUME IInv, SInv, OwnerSavesPage
  PROVE  SInv'
  <1>1. PICK slug \in Slugs, page \in Page :
          /\ tree' = [tree EXCEPT ![PagePath(slug)] = page]
          /\ UNCHANGED <<index, head, req, minted, acked, landed, faults>>
    BY DEF OwnerSavesPage, SaveInEditor
  <1>2. /\ tree'[PagePath(slug)] = page /\ page # Absent
        /\ \A path \in Paths \ {PagePath(slug)} : tree'[path] = tree[path]
    BY <1>1, PathsAreDistinct, WritesAreNotRemovals DEF IInv, TypeOK
  <1>3. /\ \A i \in ProposalIds : /\ tree'[ReviewPath(i)] = tree[ReviewPath(i)]
                                  /\ tree'[RejectedPath(i)] = tree[RejectedPath(i)]
        /\ \A path \in Paths : path[1] # "page" => tree'[path] = tree[path]
    BY <1>2, PathsAreDistinct
  <1>4. ASSUME NEW h \in Handlers PROVE SerialRequest(req'[h], tree', landed')
    <2>1. CASE req[h] = Idle
      BY <1>1, <2>1, SerialIdle
    <2>2. CASE req[h] # Idle
      <3>1. req[h].id \in ProposalIds /\ SerialRequest(req[h], tree, landed)
        BY <2>2 DEF SInv, IInv, TypeOK, IsRequest
      <3>2. req[h].pc = "written" => tree'[req[h].todo[1].path] # Absent
        <4> SUFFICES ASSUME req[h].pc = "written" PROVE tree'[req[h].todo[1].path] # Absent
          OBVIOUS
        <4>1. tree[req[h].todo[1].path] # Absent
          BY <3>1 DEF SerialRequest
        <4>2. req[h].todo[1].path \in Paths
          <5>1. Committed(req[h]) /\ req[h].todo # << >> /\ req[h].id \in ProposalIds
            BY <3>1, CommitRequest DEF Committed
          <5>2. Head(req[h].todo).path \in Paths
            <6>1. Removal(req[h].id).path = ReviewPath(req[h].id)
              BY DEF Removal, Change
            <6> QED BY <5>1, <6>1, NextChange, PathsAreDistinct DEF IInv
          <5> QED BY <5>1, <5>2, NextChange DEF IInv
        <4> QED BY <1>2, <4>1, <4>2
      <3> QED BY <1>1, <1>3, <3>1, <3>2 DEF SerialRequest
    <2> QED BY <2>1, <2>2
  <1>5. (LegacyOnePerTarget => OneEach') /\ OneDecision' /\ NeverHalfAccepted'
    BY <1>1, <1>3 DEF SInv, OneEach, Pending, OneDecision, NeverHalfAccepted, Claimed,
                      IInv, TypeOK
  <1>6. (\A h \in Handlers : SerialRequest(req[h], tree, landed))'
    BY <1>4
  <1>7. (\A i \in ProposalIds :
           (i \in landed \/ tree[RejectedPath(i)] # Absent) /\ tree[ReviewPath(i)] # Absent =>
             \E h \in Handlers : req[h].id = i /\ Settling(req[h]))'
    BY <1>1, <1>3 DEF SInv
  <1>8. (\A path \in Paths : path[1] # "page" =>
           tree[path] = index[path] \/ \E h \in Handlers : Unstaged(req[h], path))'
    BY <1>1, <1>3 DEF SInv
  <1>9. ((\A h \in Handlers : ~ Committed(req[h])) => index = head)'
    BY <1>1 DEF SInv
  <1> QED BY <1>5, <1>6, <1>7, <1>8, <1>9 DEF SInv, LegacyOnePerTarget

(* The vault to begin with.                                                   *)
LEMMA SerialStart == VaultStartsUnproposed /\ Init => SInv
  <1> SUFFICES ASSUME VaultStartsUnproposed, Init PROVE SInv
    OBVIOUS
  <1>1. /\ index = tree /\ head = tree /\ landed = {} /\ \A h \in Handlers : req[h] = Idle
    BY DEF Init
  <1>2. \A i \in ProposalIds :
          /\ tree[RejectedPath(i)] = Absent
          /\ i \in DOMAIN Legacy => tree[ReviewPath(i)] = Legacy[i]
          /\ i \notin DOMAIN Legacy => tree[ReviewPath(i)] = Absent
    <2> SUFFICES ASSUME NEW i \in ProposalIds
                 PROVE  /\ tree[RejectedPath(i)] = Absent
                        /\ i \in DOMAIN Legacy => tree[ReviewPath(i)] = Legacy[i]
                        /\ i \notin DOMAIN Legacy => tree[ReviewPath(i)] = Absent
      OBVIOUS
    <2>1. /\ ReviewPath(i) \in Paths /\ ReviewPath(i)[1] = "review" /\ ReviewPath(i)[2] = i
          /\ RejectedPath(i) \in Paths /\ RejectedPath(i)[1] = "review/.rejected"
      BY PathsAreDistinct DEF ReviewPath, RejectedPath
    <2> QED BY <2>1 DEF Init
  <1>3. LegacyOnePerTarget => OneEach
    BY <1>2 DEF LegacyOnePerTarget, OneEach, Pending
  <1>4. NeverHalfAccepted
    <2>1. PInv(Nothing)
      BY PagesStartOK
    <2> QED BY <1>1, <2>1 DEF PInv, StoreOK, PageOK, Quotes, NeverHalfAccepted
  <1> QED BY <1>1, <1>2, <1>3, <1>4, SerialIdle DEF SInv, OneDecision

(* Every step of the one request keeps SInv.                                  *)
LEMMA StepsKeepSerial == Serial /\ IInv /\ PInv(Nothing) /\ SInv /\ [Next]_vars => SInv'
  <1> SUFFICES ASSUME Serial, IInv, PInv(Nothing), SInv, [Next]_vars PROVE SInv'
    OBVIOUS
  <1>1. ~ Fault
    BY DEF Serial, Fault, IInv, TypeOK
  <1>2. ASSUME NEW h \in Handlers, Handle(h) PROVE SInv'
    <2>1. CASE Load(h)                BY <2>1, SerialLoad
    <2>2. CASE Accept(h) \/ Reject(h) BY <2>2, SerialDecide
    <2>3. CASE Build(h) \/ Propose(h) BY <2>3, SerialPropose
    <2>4. CASE RemoveNext(h)          BY <2>4, SerialRemove
    <2>5. CASE WriteNext(h)           BY <2>5, SerialWrite
    <2>6. CASE AddNext(h)             BY <2>6, SerialAdd
    <2>7. CASE Finish(h)              BY <2>7, SerialFinish
    <2>8. CASE Fail(h)                BY <1>1, <2>8 DEF Fail
    <2> QED BY <1>2, <2>1, <2>2, <2>3, <2>4, <2>5, <2>6, <2>7, <2>8 DEF Handle
  <1>3. CASE OwnerSavesPage
    BY <1>3, SerialOwner
  <1>4. CASE Crash
    BY <1>1, <1>4 DEF Crash
  <1>5. CASE UNCHANGED vars
    <2>1. UNCHANGED <<tree, index, head, req, landed>>
      BY <1>5 DEF vars
    <2>2. OneEach' = OneEach /\ OneDecision' = OneDecision
          /\ NeverHalfAccepted' = NeverHalfAccepted
      BY <2>1 DEF OneEach, Pending, OneDecision, NeverHalfAccepted, Claimed
    <2> QED BY <2>1, <2>2 DEF SInv, LegacyOnePerTarget
  <1> QED BY <1>2, <1>3, <1>4, <1>5 DEF Next

(* The same handlers one at a time and without failures: SInv says what each  *)
(* step of a commit has put on disk, in the index and in HEAD.                *)
THEOREM SerialInvariant ==
  ASSUME Serial, Environment
  PROVE  Spec => []SInv
  <1>1. Init => SInv
    BY SerialStart DEF Environment
  <1>2. IInv /\ PInv(Nothing) /\ SInv /\ [Next]_vars => SInv'
    BY StepsKeepSerial
  <1> QED BY <1>1, <1>2, PagesInvariant, PTL DEF Spec

(* With requests one at a time and no failed call, no commit puts a page in   *)
(* HEAD without taking its proposal out (NeverHalfAccepted).                  *)
THEOREM AcceptsAreWhole ==
  ASSUME Serial, Environment
  PROVE  Spec => []NeverHalfAccepted
  <1>1. SInv => NeverHalfAccepted
    BY DEF SInv
  <1> QED BY <1>1, SerialInvariant, PTL

(* And a proposal is accepted or rejected, never both (OneDecision).          *)
THEOREM DecisionsAreSingle ==
  ASSUME Serial, Environment
  PROVE  Spec => []OneDecision
  <1>1. SInv => OneDecision
    BY DEF SInv
  <1> QED BY <1>1, SerialInvariant, PTL

(* And when no request is at work all is committed (QuietVaultIsCommitted).   *)
THEOREM QuietMeansCommitted ==
  ASSUME Serial, Environment
  PROVE  Spec => []QuietVaultIsCommitted
  <1>1. ASSUME SInv PROVE QuietVaultIsCommitted
    <2> SUFFICES ASSUME \A h \in Handlers : req[h] = Idle
                 PROVE  /\ index = head
                        /\ \A path \in Paths : path[1] # "page" => tree[path] = head[path]
      BY DEF QuietVaultIsCommitted
    <2>1. \A h \in Handlers : ~ Committed(req[h]) /\ \A path : ~ Unstaged(req[h], path)
      BY DEF Committed, Unstaged, Idle
    <2> QED BY <1>1, <2>1 DEF SInv
  <1> QED BY <1>1, SerialInvariant, PTL

(* And no page has two pending proposals, if none had at the start            *)
(* (OnePendingPerTarget).                                                     *)
THEOREM OnePendingEach ==
  ASSUME Serial, Environment, LegacyOnePerTarget
  PROVE  Spec => []OnePendingPerTarget
  <1>1. SInv => OnePendingPerTarget
    BY AtMostOne DEF SInv, OneEach, OnePendingPerTarget, PendingFor
  <1> QED BY <1>1, SerialInvariant, PTL

================================================================================
