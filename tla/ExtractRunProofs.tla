--------------------------- MODULE ExtractRunProofs ---------------------------
(* Machine-checked proofs about module ExtractRun, with any number of pages,  *)
(* ids and concurrent requests: the skip state speaks only of proposals that  *)
(* were filed, nothing a run supersedes is lost while no call fails, a run    *)
(* without requests beside it leaves one proposal for each page, and with     *)
(* requests beside it no proposal lands on a page twice.                      *)
EXTENDS ExtractRun, ReviewProofs

(* Beside a run the invariant of ReviewProofs fails: a run takes a proposal   *)
(* out of review/ that a reviewer has loaded.  This much of it stands.        *)
RequestInv ==
  /\ TypeOK
  /\ TodosOK
  /\ PendingIds \subseteq minted
  /\ \A h \in Handlers : req[h] # Idle => req[h].id \in minted

(* The changes of a run's commits. *)

Files(change) == (\E i \in ProposalIds : change.path = ReviewPath(i)) /\ change.data # Absent

Removes(change, i) == change.path = ReviewPath(i) /\ change.data = Absent

Copies(change, i) == change.path = RejectedPath(i) /\ change.data # Absent

\* The change files a proposal made from this body of this page.
Answers(change, slug, body) ==
  Files(change) /\ change.data.target = slug /\ change.data.pin.body = body

IsState(state) ==
  DOMAIN state \subseteq Slugs /\ \A s \in DOMAIN state : state[s] \in Bodies

\* With these ids given out.
IsRunChange(change, ids) ==
  \/ \E i \in ids : change.path = ReviewPath(i) /\ IsProposal(change.data) /\ change.data.pin \in Page
  \/ \E i \in ProposalIds : Removes(change, i)
  \/ \E i \in ProposalIds : change.path = RejectedPath(i) /\ IsProposal(change.data)
  \/ change.path = StatePath /\ IsState(change.data)

IsList(list) == list \in Seq({list[k] : k \in 1 .. Len(list)})

IsBatch(list, ids) ==
  IsList(list) /\ \A k \in 1 .. Len(list) : IsRunChange(list[k], ids)

Candidates == [slug : Slugs, page : Page]

Looking == run.pc \in {"idle", "scan"}

CommitsNow == run.pc \in {"commit", "written"}

\* What a run has decided on and not yet put on disk.
Left ==
  CASE CommitsNow -> run.writes
    [] run.pc = "extract" -> run.batch
    [] OTHER -> << >>

ProcessInv ==
  /\ run = [pc |-> run.pc, todo |-> run.todo, attempted |-> run.attempted,
            state |-> run.state, old |-> run.old, batch |-> run.batch,
            writes |-> run.writes, fresh |-> run.fresh]
  /\ run.pc \in {"idle", "scan", "extract", "commit", "written"}
  /\ run.todo \subseteq Candidates
  /\ \A c, d \in run.todo : c.slug = d.slug => c = d
  /\ IsState(run.state)
  /\ DOMAIN run.old \subseteq Slugs
  /\ \A s \in DOMAIN run.old :
       run.old[s].id \in ProposalIds /\ IsProposal(run.old[s].proposal)
  /\ IsBatch(run.batch, minted) /\ IsBatch(run.writes, minted)
  /\ Looking => run.batch = << >>
  /\ run.pc = "written" => run.writes # << >> /\ run.writes[1].data # Absent
  /\ filed \subseteq Slugs \X Bodies
  /\ removed \subseteq ProposalIds
  /\ \A store \in {tree, index, head} :
       store[StatePath] # Absent => IsState(store[StatePath])

(* RecordedMeansFiled is not inductive: the state about to be written must    *)
(* come last, and speak of nothing but what is filed or comes before it.      *)
RecordInv ==
  /\ RecordedMeansFiled
  /\ \A k \in 1 .. Len(run.batch) : run.batch[k].path # StatePath
  /\ CommitsNow =>
       \A k \in 1 .. Len(run.writes) : run.writes[k].path = StatePath =>
         k = Len(run.writes) /\ run.writes[k].data = run.state
  /\ ~ Looking =>
       \A s \in DOMAIN run.state :
         \/ <<s, run.state[s]>> \in filed
         \/ \E k \in 1 .. Len(Left) : Answers(Left[k], s, run.state[s])
  /\ run.pc = "written" /\ Files(run.writes[1]) =>
       <<run.writes[1].data.target, run.writes[1].data.pin.body>> \in filed

\* A removal and the rejected copy come together.
CopyInv ==
  /\ \A k \in 1 .. Len(Left), i \in ProposalIds : Removes(Left[k], i) =>
       k + 1 \in 1 .. Len(Left) /\ Copies(Left[k + 1], i)
  /\ \A i \in removed :
       \/ tree[RejectedPath(i)] # Absent
       \/ faults > 0
       \/ run.pc = "commit" /\ run.writes # << >> /\ Copies(run.writes[1], i)

\* These changes take the proposal out of review/.
Leaves(list, i) == \E k \in 1 .. Len(list) : Removes(list[k], i)

Pends(files, i, slug) ==
  files[ReviewPath(i)] # Absent /\ files[ReviewPath(i)].target = slug

\* Of two proposals for one page at least one is about to go.
OneStays(files, list) ==
  \A i, j \in ProposalIds :
    /\ i # j /\ files[ReviewPath(i)] # Absent
    /\ Pends(files, j, files[ReviewPath(i)].target)
    => Leaves(list, i) \/ Leaves(list, j)

\* A proposal about to be filed is the last of its page: the run files no other,
\* will not take the page up again, and removes what is pending for it.
FilesStandAlone(files, list, todo) ==
  \A k \in 1 .. Len(list) : Files(list[k]) =>
    /\ \A m \in 1 .. Len(list) :
         Files(list[m]) /\ list[m].data.target = list[k].data.target => m = k
    /\ \A c \in todo : c.slug # list[k].data.target
    /\ \A j \in ProposalIds :
         Pends(files, j, list[k].data.target) => list[k].path = ReviewPath(j) \/ Leaves(list, j)

\* What is pending for a page still to come is what the run found at its start.
Foreseen(files, todo, old) ==
  \A c \in todo, j \in ProposalIds :
    Pends(files, j, c.slug) => c.slug \in DOMAIN old /\ old[c.slug].id = j

\* What a model's answer may retire.
Anything == SUBSET Nat

AloneInv ==
  /\ OneStays(tree, Left)
  /\ FilesStandAlone(tree, Left, run.todo)
  /\ ~ Looking => Foreseen(tree, run.todo, run.old)
  /\ run.pc = "written" => tree[run.writes[1].path] # Absent

------------------------------------------------------------------------------
(* Lists of changes.                                                          *)

(* A sequence over any set is a list.                                         *)
LEMMA SequencesAreLists ==
  ASSUME NEW S, NEW list \in Seq(S)
  PROVE  IsList(list) /\ Len(list) \in Nat
  <1>1. Len(list) \in Nat /\ list \in [1 .. Len(list) -> S]
    OBVIOUS
  <1>2. list \in [1 .. Len(list) -> {list[k] : k \in 1 .. Len(list)}]
    BY <1>1
  <1>3. Seq({list[k] : k \in 1 .. Len(list)})
          = UNION {[1 .. n -> {list[k] : k \in 1 .. Len(list)}] : n \in Nat}
    BY SeqDef, Zenon
  <1>4. list \in Seq({list[k] : k \in 1 .. Len(list)})
    BY <1>1, <1>2, <1>3, Zenon
  <1> QED BY <1>1, <1>4 DEF IsList

(* The rest of a list.                                                        *)
LEMMA RestOfList ==
  ASSUME NEW list, IsList(list), list # << >>
  PROVE  /\ IsList(Tail(list)) /\ Head(list) = list[1]
         /\ Len(list) \in Nat /\ Len(list) >= 1 /\ Len(Tail(list)) = Len(list) - 1
         /\ \A k \in 1 .. Len(Tail(list)) :
              k \in Nat /\ k + 1 \in 1 .. Len(list) /\ Tail(list)[k] = list[k + 1]
  <1> DEFINE S == {list[k] : k \in 1 .. Len(list)}
  <1>1. list \in Seq(S)
    BY DEF IsList
  <1> HIDE DEF S
  <1>2. Tail(list) \in Seq(S) /\ Head(list) = list[1]
    BY <1>1
  <1>3. /\ Len(list) \in Nat /\ Len(list) >= 1 /\ Len(Tail(list)) = Len(list) - 1
        /\ \A k \in 1 .. Len(Tail(list)) :
             k \in Nat /\ k + 1 \in 1 .. Len(list) /\ Tail(list)[k] = list[k + 1]
    BY <1>1
  <1> QED BY <1>2, <1>3, SequencesAreLists

(* One list after another.                                                    *)
LEMMA ListsJoin ==
  ASSUME NEW a, NEW b, IsList(a), IsList(b)
  PROVE  /\ IsList(a \o b)
         /\ Len(a) \in Nat /\ Len(b) \in Nat /\ Len(a \o b) = Len(a) + Len(b)
         /\ \A k \in 1 .. Len(a) : k \in 1 .. Len(a \o b) /\ (a \o b)[k] = a[k]
         /\ \A k \in 1 .. Len(b) :
              Len(a) + k \in 1 .. Len(a \o b) /\ (a \o b)[Len(a) + k] = b[k]
         /\ \A k \in 1 .. Len(a \o b) :
              \/ k \in 1 .. Len(a)
              \/ k - Len(a) \in 1 .. Len(b) /\ (a \o b)[k] = b[k - Len(a)]
  <1> DEFINE A == {a[k] : k \in 1 .. Len(a)}
             B == {b[k] : k \in 1 .. Len(b)}
             S == A \cup B
  <1>1. a \in Seq(A) /\ b \in Seq(B)
    BY DEF IsList
  <1> HIDE DEF A, B
  <1>2. a \in Seq(S) /\ b \in Seq(S)
    BY <1>1
  <1> HIDE DEF S
  <1>3. a \o b \in Seq(S)
    BY <1>2
  <1>4. /\ Len(a) \in Nat /\ Len(b) \in Nat /\ Len(a \o b) = Len(a) + Len(b)
        /\ \A k \in 1 .. Len(a) + Len(b) :
             (a \o b)[k] = IF k <= Len(a) THEN a[k] ELSE b[k - Len(a)]
    BY <1>2
  <1>5. \A k \in 1 .. Len(a) : k \in 1 .. Len(a \o b) /\ (a \o b)[k] = a[k]
    BY <1>4
  <1>6. \A k \in 1 .. Len(b) : Len(a) + k \in 1 .. Len(a \o b) /\ (a \o b)[Len(a) + k] = b[k]
    BY <1>4
  <1>7. \A k \in 1 .. Len(a \o b) :
          \/ k \in 1 .. Len(a)
          \/ k - Len(a) \in 1 .. Len(b) /\ (a \o b)[k] = b[k - Len(a)]
    BY <1>4
  <1> QED BY <1>3, <1>4, <1>5, <1>6, <1>7, SequencesAreLists

(* One change more.                                                           *)
LEMMA ListAppends ==
  ASSUME NEW a, NEW c, IsList(a)
  PROVE  Append(a, c) = a \o <<c>>
  <1> DEFINE A == {a[k] : k \in 1 .. Len(a)}
             S == A \cup {c}
  <1>1. a \in Seq(A)
    BY DEF IsList
  <1> HIDE DEF A
  <1>2. a \in Seq(S) /\ c \in S
    BY <1>1
  <1> HIDE DEF S
  <1> QED BY <1>2, AppendIsConcat

(* The shortest lists.                                                        *)
LEMMA ShortLists ==
  /\ IsList(<< >>) /\ Len(<< >>) = 0
  /\ \A a : IsList(<<a>>) /\ Len(<<a>>) = 1 /\ <<a>>[1] = a
  /\ \A a, b : /\ IsList(<<a, b>>) /\ Len(<<a, b>>) = 2
               /\ <<a, b>>[1] = a /\ <<a, b>>[2] = b
  <1>1. IsList(<< >>) /\ Len(<< >>) = 0
    <2>1. << >> \in Seq({}) /\ Len(<< >>) = 0
      OBVIOUS
    <2> QED BY <2>1, SequencesAreLists
  <1>2. ASSUME NEW a
        PROVE  IsList(<<a>>) /\ Len(<<a>>) = 1 /\ <<a>>[1] = a
    <2>1. <<a>> \in Seq({a}) /\ Len(<<a>>) = 1 /\ <<a>>[1] = a
      OBVIOUS
    <2> QED BY <2>1, SequencesAreLists
  <1>3. ASSUME NEW a, NEW b
        PROVE  IsList(<<a, b>>) /\ Len(<<a, b>>) = 2 /\ <<a, b>>[1] = a /\ <<a, b>>[2] = b
    <2>1. <<a, b>> \in Seq({a, b}) /\ Len(<<a, b>>) = 2 /\ <<a, b>>[1] = a /\ <<a, b>>[2] = b
      OBVIOUS
    <2> QED BY <2>1, SequencesAreLists
  <1> QED BY <1>1, <1>2, <1>3

------------------------------------------------------------------------------
(* Requests beside a run.                                                     *)

(* The skip state lies apart from pages, proposals and copies.                *)
LEMMA StateIsApart ==
  /\ \A s : PagePath(s) # StatePath
  /\ \A i : ReviewPath(i) # StatePath /\ RejectedPath(i) # StatePath
  <1>1. StatePath[1] = "state"
    BY DEF StatePath
  <1> QED BY <1>1 DEF PagePath, ReviewPath, RejectedPath

\* What no step of a request, a crash or the owner does.
SparesTheRun ==
  /\ tree'[StatePath] = tree[StatePath] /\ index'[StatePath] = index[StatePath]
  /\ head'[StatePath] \in {head[StatePath], index[StatePath]}
  /\ \A i \in ProposalIds : tree[RejectedPath(i)] # Absent => tree'[RejectedPath(i)] # Absent
  /\ minted \subseteq minted'
  /\ faults' = faults \/ faults' > 0

(* TypeOK, in terms of the three stores.                                      *)
LEMMA TypesAre ==
  TypeOK <=> /\ WellFormed(tree) /\ WellFormed(index) /\ WellFormed(head)
             /\ req = [h \in Handlers |-> req[h]]
             /\ \A h \in Handlers : IsRequest(req[h])
             /\ acked \cup landed \subseteq minted /\ minted \subseteq ProposalIds
             /\ faults \in 0 .. MaxFaults
  BY DEF TypeOK, WellFormed

LEMMA RunRequest ==
  ASSUME RequestInv, NEW h \in Handlers, req[h] # Idle
  PROVE  /\ IsRequest(req[h]) /\ req[h].id \in minted /\ req[h].id \in ProposalIds
         /\ Committed(req[h]) =>
              /\ req[h] = [pc |-> req[h].pc, op |-> req[h].op, id |-> req[h].id,
                           todo |-> req[h].todo]
              /\ req[h].op \in Decisions \cup {"propose"} /\ TodoOK(req[h])
              /\ req[h].pc = "written" => req[h].todo # << >> /\ req[h].todo[1].data # Absent
  <1>1. IsRequest(req[h]) /\ req[h].id \in minted /\ minted \subseteq ProposalIds
    BY DEF RequestInv, TypeOK
  <1>2. Committed(req[h]) =>
              /\ req[h] = [pc |-> req[h].pc, op |-> req[h].op, id |-> req[h].id,
                           todo |-> req[h].todo]
              /\ req[h].op \in Decisions \cup {"propose"}
    BY <1>1 DEF IsRequest, Committed
  <1>3. Committed(req[h]) =>
          /\ TodoOK(req[h])
          /\ req[h].pc = "written" => req[h].todo # << >> /\ req[h].todo[1].data # Absent
    BY DEF RequestInv, TodosOK
  <1> QED BY <1>1, <1>2, <1>3

(* A step that moves one request keeps the invariant when the request and the *)
(* stores are well formed afterwards.                                         *)
LEMMA RequestGoesOn ==
  ASSUME RequestInv, NEW h \in Handlers, NEW r, IsRequest(r),
         req' = [req EXCEPT ![h] = r],
         r # Idle => r.id \in minted',
         Committed(r) =>
           TodoOK(r) /\ (r.pc = "written" => r.todo # << >> /\ r.todo[1].data # Absent),
         WellFormed(tree'), WellFormed(index'), WellFormed(head'),
         minted \subseteq minted', minted' \subseteq ProposalIds,
         acked' \cup landed' \subseteq minted', faults' \in 0 .. MaxFaults,
         PendingIds' \subseteq minted'
  PROVE  RequestInv'
  <1>1. /\ req' = [x \in Handlers |-> req'[x]] /\ req'[h] = r
        /\ \A other \in Handlers \ {h} : req'[other] = req[other]
    BY DEF RequestInv, TypeOK
  <1>2. \A x \in Handlers : IsRequest(req'[x])
    BY <1>1 DEF RequestInv, TypeOK
  <1>3. TypeOK'
    BY <1>1, <1>2 DEF TypeOK, WellFormed
  <1>4. TodosOK'
    BY <1>1 DEF RequestInv, TodosOK
  <1>5. \A x \in Handlers : req'[x] # Idle => req'[x].id \in minted'
    BY <1>1 DEF RequestInv
  <1> QED BY <1>3, <1>4, <1>5 DEF RequestInv

(* The same for a step that leaves the vault alone.                           *)
LEMMA RequestGoesOnQuietly ==
  ASSUME RequestInv, NEW h \in Handlers, NEW r, IsRequest(r),
         req' = [req EXCEPT ![h] = r],
         r # Idle => r.id \in minted',
         Committed(r) =>
           TodoOK(r) /\ (r.pc = "written" => r.todo # << >> /\ r.todo[1].data # Absent),
         UNCHANGED <<vault, acked, landed>>,
         minted \subseteq minted', minted' \subseteq ProposalIds,
         faults' \in 0 .. MaxFaults, faults' = faults \/ faults' > 0
  PROVE  RequestInv' /\ SparesTheRun
  <1>1. UNCHANGED <<tree, index, head>> /\ PendingIds' = PendingIds
    BY DEF vault, PendingIds, Pending
  <1>2. WellFormed(tree') /\ WellFormed(index') /\ WellFormed(head')
    BY <1>1, TypesAre DEF RequestInv
  <1>3. acked' \cup landed' \subseteq minted' /\ PendingIds' \subseteq minted'
    BY <1>1 DEF RequestInv, TypeOK
  <1>4. RequestInv'
    BY <1>2, <1>3, RequestGoesOn
  <1> QED BY <1>1, <1>4 DEF SparesTheRun

(* Ending, in an answer or in an error.                                       *)
LEMMA EndsBesideRun ==
  ASSUME RequestInv, NEW h \in Handlers, Refuse(h) \/ Fail(h)
  PROVE  RequestInv' /\ SparesTheRun
  <1>1. req' = [req EXCEPT ![h] = Idle] /\ UNCHANGED <<vault, minted, acked, landed>>
    BY DEF Refuse, Fail, Answer
  <1>2. /\ faults \in 0 .. MaxFaults /\ minted \subseteq ProposalIds
        /\ faults' = faults \/ (faults < MaxFaults /\ faults' = faults + 1)
    BY DEF Refuse, Fail, Fault, RequestInv, TypeOK
  <1>3. faults' \in 0 .. MaxFaults /\ (faults' = faults \/ faults' > 0)
    BY <1>2, FaultsAreCounted
  <1>4. IsRequest(Idle) /\ ~ Committed(Idle)
    BY DEF IsRequest, Committed, Idle
  <1> QED BY <1>1, <1>2, <1>3, <1>4, RequestGoesOnQuietly

LEMMA LoadBesideRun ==
  ASSUME RequestInv, NEW h \in Handlers, Load(h)
  PROVE  RequestInv' /\ SparesTheRun
  <1>1. PICK op \in Decisions, i \in ProposalIds :
          /\ Pending(i)
          /\ req' = [req EXCEPT ![h] = [pc |-> "loaded", op |-> op, id |-> i,
                                       proposal |-> tree[ReviewPath(i)]]]
          /\ UNCHANGED <<vault, minted, acked, landed, faults>>
    BY DEF Load
  <1> DEFINE r == [pc |-> "loaded", op |-> op, id |-> i, proposal |-> tree[ReviewPath(i)]]
  <1>2. IsRequest(r) /\ ~ Committed(r)
    <2>1. IsProposal(tree[ReviewPath(i)])
      BY <1>1 DEF RequestInv, TypeOK, Pending
    <2> QED BY <2>1 DEF IsRequest, Committed
  <1>3. r.id \in minted
    BY <1>1 DEF RequestInv, PendingIds
  <1>4. minted \subseteq ProposalIds /\ faults \in 0 .. MaxFaults
    BY DEF RequestInv, TypeOK
  <1> HIDE DEF r
  <1> QED BY <1>1, <1>2, <1>3, <1>4, RequestGoesOnQuietly DEF r

LEMMA DecidesBesideRun ==
  ASSUME RequestInv, NEW h \in Handlers, req[h].pc = "loaded", NEW write,
         \/ req[h].op \in {"accept", "editAccept"} /\ WritesPage(write)
         \/ req[h].op = "reject" /\ WritesCopy(write, req[h].id),
         Committing(h, <<write, Removal(req[h].id)>>),
         UNCHANGED <<vault, minted, acked, landed, faults>>
  PROVE  RequestInv' /\ SparesTheRun
  <1> DEFINE r == [pc |-> "committing", op |-> req[h].op, id |-> req[h].id,
                   todo |-> <<write, Removal(req[h].id)>>]
  <1>1. req' = [req EXCEPT ![h] = r]
    BY DEF Committing
  <1>2. req[h] # Idle
    BY DEF Idle
  <1>3. req[h].id \in minted /\ req[h].id \in ProposalIds /\ req[h].op \in Decisions
    BY <1>2, RunRequest DEF Decisions
  <1>4. IsRequest(r)
    BY <1>3 DEF IsRequest
  <1>5. TodoOK(r) /\ r.pc = "committing" /\ r.id = req[h].id
    <2>1. r.todo[1] = write /\ r.todo = <<write, Removal(r.id)>>
      BY ShortTodos
    <2> QED BY <2>1 DEF TodoOK
  <1>6. minted \subseteq ProposalIds /\ faults \in 0 .. MaxFaults
    BY DEF RequestInv, TypeOK
  <1> HIDE DEF r
  <1> QED BY <1>1, <1>3, <1>4, <1>5, <1>6, RequestGoesOnQuietly

LEMMA AcceptBesideRun ==
  ASSUME RequestInv, NEW h \in Handlers, Accept(h)
  PROVE  RequestInv' /\ SparesTheRun
  <1>1. CASE Refuse(h)
    BY <1>1, EndsBesideRun
  <1>2. CASE ~ Refuse(h)
    <2> DEFINE p == req[h].proposal
    <2>1. PICK written \in Page :
            Committing(h, <<Change(PagePath(p.target), written), Removal(req[h].id)>>)
      BY <1>2, AcceptCommits DEF RequestInv
    <2>2. /\ req[h].pc = "loaded" /\ req[h].op \in {"accept", "editAccept"}
          /\ IsProposal(p) /\ UNCHANGED <<vault, minted, acked, landed, faults>>
      BY <1>2, AcceptCommits DEF RequestInv
    <2>3. WritesPage(Change(PagePath(p.target), written))
      BY <2>2 DEF WritesPage, Change, IsProposal
    <2> QED BY <2>1, <2>2, <2>3, DecidesBesideRun
  <1> QED BY <1>1, <1>2

LEMMA RejectBesideRun ==
  ASSUME RequestInv, NEW h \in Handlers, Reject(h)
  PROVE  RequestInv' /\ SparesTheRun
  <1>1. CASE Refuse(h)
    BY <1>1, EndsBesideRun
  <1>2. CASE ~ Refuse(h)
    <2> DEFINE copy == Change(RejectedPath(req[h].id), req[h].proposal)
    <2>1. /\ req[h].pc = "loaded" /\ req[h].op = "reject"
          /\ Committing(h, <<copy, Change(ReviewPath(req[h].id), Absent)>>)
          /\ UNCHANGED <<vault, minted, acked, landed, faults>>
      BY <1>2 DEF Reject
    <2>2. IsProposal(req[h].proposal)
      BY <2>1 DEF RequestInv, TypeOK, IsRequest, Idle
    <2>3. WritesCopy(copy, req[h].id)
      BY <2>2 DEF WritesCopy, Change
    <2> HIDE DEF copy
    <2> QED BY <2>1, <2>3, DecidesBesideRun DEF Removal
  <1> QED BY <1>1, <1>2

LEMMA BuildBesideRun ==
  ASSUME RequestInv, NEW h \in Handlers, Build(h)
  PROVE  RequestInv' /\ SparesTheRun
  <1>0. PICK i \in ProposalIds \ minted :
          \E p : /\ IsProposal(p)
                /\ req' = [req EXCEPT ![h] = [pc |-> "built", op |-> "propose", id |-> i,
                                             proposal |-> p]]
                /\ minted' = minted \cup {i}
                /\ UNCHANGED <<vault, acked, landed, faults>>
    BY BuildsAProposal DEF RequestInv
  <1>1. PICK p : /\ IsProposal(p)
                 /\ req' = [req EXCEPT ![h] = [pc |-> "built", op |-> "propose", id |-> i,
                                              proposal |-> p]]
                 /\ minted' = minted \cup {i}
                 /\ UNCHANGED <<vault, acked, landed, faults>>
    BY <1>0
  <1> DEFINE r == [pc |-> "built", op |-> "propose", id |-> i, proposal |-> p]
  <1>2. IsRequest(r) /\ ~ Committed(r) /\ r.id = i
    BY <1>1 DEF IsRequest, Committed
  <1>3. /\ minted \subseteq minted' /\ minted' \subseteq ProposalIds /\ i \in minted'
        /\ faults \in 0 .. MaxFaults
    BY <1>1 DEF RequestInv, TypeOK
  <1> HIDE DEF r
  <1> QED BY <1>1, <1>2, <1>3, RequestGoesOnQuietly DEF r

LEMMA ProposeBesideRun ==
  ASSUME RequestInv, NEW h \in Handlers, Propose(h)
  PROVE  RequestInv' /\ SparesTheRun
  <1>1. CASE Refuse(h)
    BY <1>1, EndsBesideRun
  <1>2. CASE ~ Refuse(h)
    <2> DEFINE write == Change(ReviewPath(req[h].id), req[h].proposal)
               r     == [pc |-> "committing", op |-> req[h].op, id |-> req[h].id,
                         todo |-> <<write>>]
    <2>1. /\ req[h].pc = "built" /\ req' = [req EXCEPT ![h] = r]
          /\ UNCHANGED <<vault, minted, acked, landed, faults>>
      BY <1>2 DEF Propose, Committing
    <2>2. req[h] # Idle
      BY <2>1 DEF Idle
    <2>3. /\ req[h].op = "propose" /\ req[h].id \in ProposalIds /\ req[h].id \in minted
          /\ IsProposal(req[h].proposal)
      BY <2>1, <2>2, RunRequest DEF IsRequest
    <2>4. IsRequest(r)
      BY <2>3 DEF IsRequest
    <2>5. FilesProposal(write, req[h].id)
      BY <2>3 DEF FilesProposal, Change
    <2> HIDE DEF write
    <2>6. /\ r.pc = "committing" /\ r.op = "propose" /\ r.id = req[h].id
          /\ r.todo = <<write>> /\ r.todo[1] = write
      BY <2>3
    <2>7. minted \subseteq ProposalIds /\ faults \in 0 .. MaxFaults
      BY DEF RequestInv, TypeOK
    <2> HIDE DEF r
    <2>8. TodoOK(r)
      BY <2>5, <2>6 DEF TodoOK
    <2> QED BY <2>1, <2>3, <2>4, <2>6, <2>7, <2>8, RequestGoesOnQuietly
  <1> QED BY <1>1, <1>2

(* One file of a request's commit: the store it touches changes at the path   *)
(* of a page, a proposal or a copy.                                           *)
LEMMA CommitBesideRun ==
  ASSUME RequestInv, NEW h \in Handlers, Committed(req[h]), req[h].todo # << >>
  PROVE  LET change == Head(req[h].todo)
             rest == Tail(req[h].todo)
         IN /\ change.path \in Paths \ {StatePath}
            /\ Suits(change.data, change.path)
            /\ \A i \in ProposalIds :
                 /\ change.path = ReviewPath(i) => i = req[h].id
                 /\ change.path = RejectedPath(i) => change.data # Absent
            /\ change = req[h].todo[1]
            /\ change.data # Absent => rest \in {<< >>, <<Removal(req[h].id)>>}
            /\ change.data = Absent => rest = << >>
            /\ rest # << >> => req[h].op \in Decisions
  <1> DEFINE change == Head(req[h].todo)
             rest == Tail(req[h].todo)
             i == req[h].id
  <1>1. req[h] # Idle
    BY DEF Committed, Idle
  <1>2. i \in ProposalIds
    BY <1>1, RunRequest
  <1>3. /\ change = req[h].todo[1]
        /\ \/ /\ req[h].op = "propose" /\ rest = << >>
              /\ change.path = ReviewPath(i) /\ IsProposal(change.data)
           \/ /\ req[h].op \in {"accept", "editAccept"} /\ rest = <<Removal(i)>>
              /\ change.data \in Page
              /\ \E slug \in Slugs : change.path = PagePath(slug)
           \/ /\ req[h].op = "reject" /\ rest = <<Removal(i)>>
              /\ change.path = RejectedPath(i) /\ IsProposal(change.data)
           \/ /\ req[h].op \in Decisions /\ rest = << >>
              /\ req[h].todo = <<Removal(i)>> /\ change = Removal(i)
    BY NextChange DEF RequestInv
  <1> HIDE DEF change, rest
  <1>4. CASE req[h].op \in {"propose", "reject"} /\ IsProposal(change.data)
             /\ change.path \in {ReviewPath(i), RejectedPath(i)}
    BY <1>2, <1>3, <1>4, PathsAreDistinct, StateIsApart, WritesAreNotRemovals
       DEF Suits, change, rest, Decisions
  <1>5. CASE change.data \in Page /\ \E slug \in Slugs : change.path = PagePath(slug)
    BY <1>2, <1>3, <1>5, PathsAreDistinct, StateIsApart, WritesAreNotRemovals
       DEF Suits, change, rest, Decisions
  <1>6. CASE req[h].op \in Decisions /\ rest = << >> /\ change = Removal(i)
    <2>1. change.path = ReviewPath(i) /\ change.data = Absent
      BY <1>6 DEF Removal, Change
    <2> QED BY <1>2, <1>3, <1>6, <2>1, PathsAreDistinct, StateIsApart
            DEF Suits, change, rest
  <1> QED BY <1>3, <1>4, <1>5, <1>6 DEF Decisions

(* Only a propose request writes into the inbox.                              *)
LEMMA OnlyProposalsFile ==
  ASSUME RequestInv, NEW h \in Handlers, Committed(req[h]), req[h].todo # << >>,
         Head(req[h].todo).data # Absent,
         NEW j \in ProposalIds, Head(req[h].todo).path = ReviewPath(j)
  PROVE  req[h].op = "propose"
  <1> DEFINE change == Head(req[h].todo)
             i == req[h].id
  <1>1. req[h] # Idle
    BY DEF Committed, Idle
  <1>2. i \in ProposalIds
    BY <1>1, RunRequest
  <1>3. \/ req[h].op = "propose"
        \/ \E slug \in Slugs : change.path = PagePath(slug)
        \/ change.path = RejectedPath(i)
        \/ change = Removal(i)
    BY NextChange DEF RequestInv
  <1> HIDE DEF change
  <1>4. change.path = ReviewPath(j) /\ change.data # Absent
    BY DEF change
  <1>5. ~ \E slug \in Slugs : change.path = PagePath(slug)
    BY <1>4, PathsAreDistinct
  <1>6. change.path # RejectedPath(i)
    BY <1>2, <1>4, PathsAreDistinct
  <1>7. change # Removal(i)
    BY <1>4 DEF Removal, Change
  <1> QED BY <1>3, <1>5, <1>6, <1>7

(* What a write or a staging leaves alone.                                    *)
LEMMA ElsewhereUnwritten ==
  ASSUME NEW store, WellFormed(store), NEW path \in Paths, NEW data,
         NEW new, new = [store EXCEPT ![path] = data]
  PROVE  new[path] = data /\ \A q \in Paths \ {path} : new[q] = store[q]
  BY OnePathWritten DEF WellFormed

LEMMA RemoveBesideRun ==
  ASSUME RequestInv, NEW h \in Handlers, RemoveNext(h)
  PROVE  RequestInv' /\ SparesTheRun /\ PendingIds' \subseteq PendingIds
  <1> DEFINE path == Head(req[h].todo).path
             r == [pc |-> "committing", op |-> req[h].op, id |-> req[h].id,
                   todo |-> Tail(req[h].todo)]
  <1>1. /\ req[h].pc = "committing" /\ req[h].todo # << >> /\ Head(req[h].todo).data = Absent
        /\ StageRemoval(path) /\ req' = [req EXCEPT ![h] = r]
        /\ UNCHANGED <<head, minted, acked, landed, faults>>
    BY DEF RemoveNext, Committing
  <1>2. Committed(req[h]) /\ req[h] # Idle
    BY <1>1 DEF Committed, Idle
  <1>3. /\ req[h].id \in minted /\ req[h].id \in ProposalIds
        /\ req[h].op \in Decisions \cup {"propose"}
    BY <1>2, RunRequest
  <1>4. /\ path \in Paths \ {StatePath} /\ Suits(Absent, path)
        /\ \A i \in ProposalIds : path # RejectedPath(i)
        /\ Tail(req[h].todo) = << >>
    <2> DEFINE change == Head(req[h].todo)
    <2>1. /\ change.path \in Paths \ {StatePath} /\ Suits(change.data, change.path)
          /\ \A i \in ProposalIds : change.path = RejectedPath(i) => change.data # Absent
          /\ change.data = Absent => Tail(req[h].todo) = << >>
      BY <1>1, <1>2, CommitBesideRun
    <2> QED BY <1>1, <2>1
  <1>5. IsRequest(r) /\ r.pc = "committing" /\ r.id = req[h].id /\ r.todo = << >>
    BY <1>3, <1>4 DEF IsRequest
  <1> HIDE DEF r, path
  <1>6. TodoOK(r)
    BY <1>5 DEF TodoOK
  <1>7. /\ WellFormed(tree) /\ WellFormed(index) /\ WellFormed(head)
        /\ minted \subseteq ProposalIds /\ acked \cup landed \subseteq minted
        /\ faults \in 0 .. MaxFaults
    BY TypesAre DEF RequestInv
  <1>8. /\ WellFormed(tree') /\ WellFormed(index')
        /\ tree'[StatePath] = tree[StatePath] /\ index'[StatePath] = index[StatePath]
        /\ \A q \in Paths : tree'[q] \in {tree[q], Absent}
        /\ \A q \in Paths \ {path} : tree'[q] = tree[q]
    <2>1. CASE tree[path] = Absent
      <3>1. UNCHANGED <<tree, index>>
        BY <1>1, <2>1 DEF StageRemoval, path
      <3> QED BY <1>7, <3>1
    <2>2. CASE tree[path] # Absent
      <3>1. /\ tree' = [tree EXCEPT ![path] = Absent]
            /\ index' = [index EXCEPT ![path] = Absent]
        BY <1>1, <2>2 DEF StageRemoval, path
      <3>2. WellFormed(tree') /\ WellFormed(index')
        BY <1>4, <1>7, <3>1, WellFormedWrite
      <3>3. /\ tree'[path] = Absent
            /\ \A q \in Paths \ {path} : tree'[q] = tree[q] /\ index'[q] = index[q]
        BY <1>4, <1>7, <3>1, OnePathWritten DEF WellFormed
      <3> QED BY <1>4, <3>2, <3>3, StateHasAPath
    <2> QED BY <2>1, <2>2
  <1>9. PendingIds' \subseteq PendingIds
    BY <1>8, PathsAreDistinct DEF PendingIds, Pending
  <1>10. PendingIds' \subseteq minted' /\ WellFormed(head')
    BY <1>1, <1>7, <1>9 DEF RequestInv
  <1>11. \A i \in ProposalIds : tree[RejectedPath(i)] # Absent => tree'[RejectedPath(i)] # Absent
    BY <1>4, <1>8, PathsAreDistinct
  <1>12. RequestInv'
    BY <1>1, <1>3, <1>5, <1>6, <1>7, <1>8, <1>10, RequestGoesOn
  <1> QED BY <1>1, <1>8, <1>9, <1>11, <1>12 DEF SparesTheRun

LEMMA WriteBesideRun ==
  ASSUME RequestInv, NEW h \in Handlers, WriteNext(h)
  PROVE  /\ RequestInv' /\ SparesTheRun
         /\ \A i \in ProposalIds : Pending(i)' =>
              Pending(i) \/ (i = req[h].id /\ req[h].op = "propose")
  <1> DEFINE path == Head(req[h].todo).path
             data == Head(req[h].todo).data
             r == [pc |-> "written", op |-> req[h].op, id |-> req[h].id,
                   todo |-> req[h].todo]
  <1>1. /\ req[h].pc = "committing" /\ req[h].todo # << >> /\ data # Absent
        /\ tree' = [tree EXCEPT ![path] = data]
        /\ landed' = landed \cup {i \in {req[h].id} : path[1] = "page"}
        /\ req' = [req EXCEPT ![h].pc = "written"]
        /\ UNCHANGED <<index, head, minted, acked, faults>>
    BY DEF WriteNext, WriteFile
  <1>2. Committed(req[h]) /\ req[h] # Idle
    BY <1>1 DEF Committed, Idle
  <1>3. /\ req[h].id \in minted /\ req[h].id \in ProposalIds /\ TodoOK(req[h])
        /\ req[h].op \in Decisions \cup {"propose"}
        /\ req[h] = [pc |-> req[h].pc, op |-> req[h].op, id |-> req[h].id,
                     todo |-> req[h].todo]
    BY <1>2, RunRequest
  <1>4. /\ path \in Paths \ {StatePath} /\ Suits(data, path)
        /\ \A i \in ProposalIds : path = ReviewPath(i) => i = req[h].id /\ req[h].op = "propose"
        /\ data = req[h].todo[1].data
    <2> DEFINE change == Head(req[h].todo)
    <2>1. /\ change.path \in Paths \ {StatePath} /\ Suits(change.data, change.path)
          /\ \A i \in ProposalIds : change.path = ReviewPath(i) => i = req[h].id
          /\ change = req[h].todo[1]
      BY <1>1, <1>2, CommitBesideRun
    <2>2. \A i \in ProposalIds : change.path = ReviewPath(i) => req[h].op = "propose"
      BY <1>1, <1>2, OnlyProposalsFile
    <2> QED BY <2>1, <2>2
  <1>5. req' = [req EXCEPT ![h] = r]
    <2>1. [req[h] EXCEPT !.pc = "written"] = r
      BY <1>3
    <2>2. req' = [req EXCEPT ![h] = [req[h] EXCEPT !.pc = "written"]]
      BY <1>1
    <2> QED BY <2>1, <2>2
  <1>6. /\ IsRequest(r) /\ r.pc = "written" /\ r.op = req[h].op /\ r.id = req[h].id
        /\ r.todo = req[h].todo
    BY <1>3 DEF IsRequest
  <1> HIDE DEF r, path, data
  <1>7. TodoOK(r)
    BY <1>3, <1>6 DEF TodoOK
  <1>8. /\ WellFormed(tree) /\ WellFormed(index) /\ WellFormed(head)
        /\ minted \subseteq ProposalIds /\ acked \cup landed \subseteq minted
        /\ faults \in 0 .. MaxFaults
    BY TypesAre DEF RequestInv
  <1>9. /\ WellFormed(tree') /\ tree'[path] = data /\ tree'[StatePath] = tree[StatePath]
        /\ \A q \in Paths \ {path} : tree'[q] = tree[q]
    <2>1. WellFormed(tree')
      BY <1>1, <1>4, <1>8, WellFormedWrite
    <2>2. tree'[path] = data /\ \A q \in Paths \ {path} : tree'[q] = tree[q]
      BY <1>1, <1>4, <1>8, OnePathWritten DEF WellFormed
    <2> QED BY <1>4, <2>1, <2>2, StateHasAPath
  <1>14. \A i \in ProposalIds : Pending(i)' =>
           Pending(i) \/ (i = req[h].id /\ req[h].op = "propose")
    BY <1>4, <1>9, PathsAreDistinct DEF Pending
  <1>10. PendingIds' \subseteq minted'
    BY <1>1, <1>3, <1>14 DEF PendingIds, RequestInv
  <1>11. \A i \in ProposalIds : tree[RejectedPath(i)] # Absent => tree'[RejectedPath(i)] # Absent
    BY <1>1, <1>9, PathsAreDistinct
  <1>12. acked' \cup landed' \subseteq minted' /\ WellFormed(index') /\ WellFormed(head')
    BY <1>1, <1>3, <1>8
  <1>13. RequestInv'
    BY <1>1, <1>3, <1>4, <1>5, <1>6, <1>7, <1>8, <1>9, <1>10, <1>12, RequestGoesOn
  <1> QED BY <1>1, <1>9, <1>11, <1>13, <1>14 DEF SparesTheRun

LEMMA AddBesideRun ==
  ASSUME RequestInv, NEW h \in Handlers, AddNext(h)
  PROVE  RequestInv' /\ SparesTheRun
  <1>1. CASE Refuse(h)
    BY <1>1, EndsBesideRun
  <1>2. CASE ~ Refuse(h)
    <2> DEFINE path == Head(req[h].todo).path
               r == [pc |-> "committing", op |-> req[h].op, id |-> req[h].id,
                     todo |-> Tail(req[h].todo)]
    <2>1. /\ req[h].pc = "written" /\ index' = [index EXCEPT ![path] = tree[path]]
          /\ req' = [req EXCEPT ![h] = r]
          /\ UNCHANGED <<tree, head, minted, acked, landed, faults>>
      BY <1>2 DEF AddNext, Add, Committing
    <2>2. Committed(req[h]) /\ req[h] # Idle
      BY <2>1 DEF Committed, Idle
    <2>3. /\ req[h].id \in minted /\ req[h].id \in ProposalIds
          /\ req[h].op \in Decisions \cup {"propose"}
          /\ req[h].todo # << >> /\ req[h].todo[1].data # Absent
      BY <2>1, <2>2, RunRequest
    <2>4. /\ path \in Paths \ {StatePath}
          /\ Tail(req[h].todo) \in {<< >>, <<Removal(req[h].id)>>}
          /\ Tail(req[h].todo) # << >> => req[h].op \in Decisions
      BY <2>2, <2>3, CommitBesideRun
    <2>5. /\ IsRequest(r) /\ r.pc = "committing" /\ r.op = req[h].op /\ r.id = req[h].id
          /\ r.todo = Tail(req[h].todo)
      BY <2>3 DEF IsRequest
    <2> HIDE DEF r, path
    <2>6. TodoOK(r)
      BY <2>4, <2>5 DEF TodoOK
    <2>7. /\ WellFormed(tree) /\ WellFormed(index) /\ WellFormed(head)
          /\ minted \subseteq ProposalIds /\ acked \cup landed \subseteq minted
          /\ faults \in 0 .. MaxFaults
      BY TypesAre DEF RequestInv
    <2>8. Suits(tree[path], path)
      BY <2>7 DEF WellFormed, Suits
    <2>9. WellFormed(index') /\ index'[StatePath] = index[StatePath]
      <3>1. WellFormed(index')
        BY <2>1, <2>4, <2>7, <2>8, WellFormedWrite
      <3>2. \A q \in Paths \ {path} : index'[q] = index[q]
        BY <2>1, <2>4, <2>7, ElsewhereUnwritten
      <3> QED BY <2>4, <3>1, <3>2, StateHasAPath
    <2>10. PendingIds' \subseteq minted'
      BY <2>1 DEF RequestInv, PendingIds, Pending
    <2>11. RequestInv'
      BY <2>1, <2>3, <2>5, <2>6, <2>7, <2>9, <2>10, RequestGoesOn
    <2> QED BY <2>1, <2>9, <2>11 DEF SparesTheRun
  <1> QED BY <1>1, <1>2

LEMMA FinishBesideRun ==
  ASSUME RequestInv, NEW h \in Handlers, Finish(h)
  PROVE  RequestInv' /\ SparesTheRun
  <1>1. /\ req[h].pc = "committing" /\ head' = index
        /\ UNCHANGED <<tree, index, minted, landed, faults>>
        /\ req' = [req EXCEPT ![h] = Idle]
        /\ acked' = acked \cup {i \in {req[h].id} : req[h].op # "propose"}
    BY DEF Finish, RecordIndex, Answer
  <1>2. req[h] # Idle
    BY <1>1 DEF Idle
  <1>3. req[h].id \in minted
    BY <1>2, RunRequest
  <1>4. /\ WellFormed(tree) /\ WellFormed(index)
        /\ minted \subseteq ProposalIds /\ acked \cup landed \subseteq minted
        /\ faults \in 0 .. MaxFaults
    BY TypesAre DEF RequestInv
  <1>5. WellFormed(tree') /\ WellFormed(index') /\ WellFormed(head')
    BY <1>1, <1>4
  <1>6. IsRequest(Idle) /\ ~ Committed(Idle)
    BY DEF IsRequest, Committed, Idle
  <1>7. PendingIds' \subseteq minted' /\ acked' \cup landed' \subseteq minted'
    BY <1>1, <1>3, <1>4 DEF RequestInv, PendingIds, Pending
  <1>8. RequestInv'
    BY <1>1, <1>4, <1>5, <1>6, <1>7, RequestGoesOn
  <1> QED BY <1>1, <1>8 DEF SparesTheRun

LEMMA CrashBesideRun ==
  ASSUME RequestInv, Crash
  PROVE  RequestInv' /\ SparesTheRun
  <1>1. /\ req' = [h \in Handlers |-> Idle]
        /\ UNCHANGED <<tree, index, head, minted, acked, landed>>
        /\ faults < MaxFaults /\ faults' = faults + 1
    BY DEF Crash, Fault, vault
  <1>2. faults' \in 0 .. MaxFaults /\ faults' > 0
    BY <1>1, FaultsAreCounted DEF RequestInv, TypeOK
  <1>3. TypeOK'
    BY <1>1, <1>2 DEF RequestInv, TypeOK, IsRequest
  <1>4. TodosOK' /\ PendingIds' \subseteq minted'
    BY <1>1 DEF RequestInv, TodosOK, Committed, Idle, PendingIds, Pending
  <1>5. RequestInv'
    BY <1>1, <1>3, <1>4 DEF RequestInv
  <1> QED BY <1>1, <1>2, <1>5 DEF SparesTheRun

LEMMA OwnerBesideRun ==
  ASSUME RequestInv, OwnerSavesPage
  PROVE  RequestInv' /\ SparesTheRun /\ UNCHANGED req /\ PendingIds' = PendingIds
  <1>1. PICK slug \in Slugs, page \in Page :
          tree' = [tree EXCEPT ![PagePath(slug)] = page]
    BY DEF OwnerSavesPage, SaveInEditor
  <1>2. UNCHANGED <<index, head, req, minted, acked, landed, faults>>
    BY DEF OwnerSavesPage, SaveInEditor
  <1>3. PagePath(slug) \in Paths \ {StatePath} /\ Suits(page, PagePath(slug))
    BY PathsAreDistinct, StateIsApart DEF Suits
  <1>4. WellFormed(tree) /\ WellFormed(index) /\ WellFormed(head)
    BY TypesAre DEF RequestInv
  <1>5. /\ WellFormed(tree') /\ tree'[StatePath] = tree[StatePath]
        /\ \A q \in Paths \ {PagePath(slug)} : tree'[q] = tree[q]
    <2>1. WellFormed(tree')
      BY <1>1, <1>3, <1>4, WellFormedWrite
    <2>2. \A q \in Paths \ {PagePath(slug)} : tree'[q] = tree[q]
      BY <1>1, <1>3, <1>4, ElsewhereUnwritten
    <2> QED BY <1>3, <2>1, <2>2, StateHasAPath
  <1>6. \A i \in ProposalIds : /\ tree'[ReviewPath(i)] = tree[ReviewPath(i)]
                               /\ tree'[RejectedPath(i)] = tree[RejectedPath(i)]
    BY <1>5, PathsAreDistinct
  <1>7. PendingIds' = PendingIds
    BY <1>6 DEF PendingIds, Pending
  <1>8. TypeOK'
    BY <1>2, <1>4, <1>5 DEF RequestInv, TypeOK, WellFormed
  <1>10. TodosOK'
    BY <1>2 DEF RequestInv, TodosOK
  <1>9. RequestInv'
    BY <1>2, <1>7, <1>8, <1>10 DEF RequestInv
  <1> QED BY <1>2, <1>5, <1>6, <1>7, <1>9 DEF SparesTheRun

(* Whatever requests, crashes and the owner do beside a run.                  *)
LEMMA StepsBesideRun ==
  ASSUME RequestInv, Next
  PROVE  RequestInv' /\ SparesTheRun
  <1>1. ASSUME NEW h \in Handlers, Handle(h) PROVE RequestInv' /\ SparesTheRun
    <2>1. CASE Load(h)       BY <2>1, LoadBesideRun
    <2>2. CASE Accept(h)     BY <2>2, AcceptBesideRun
    <2>3. CASE Reject(h)     BY <2>3, RejectBesideRun
    <2>4. CASE Build(h)      BY <2>4, BuildBesideRun
    <2>5. CASE Propose(h)    BY <2>5, ProposeBesideRun
    <2>6. CASE RemoveNext(h) BY <2>6, RemoveBesideRun
    <2>7. CASE WriteNext(h)  BY <2>7, WriteBesideRun
    <2>8. CASE AddNext(h)    BY <2>8, AddBesideRun
    <2>9. CASE Finish(h)     BY <2>9, FinishBesideRun
    <2>10. CASE Fail(h)      BY <2>10, EndsBesideRun
    <2> QED BY <1>1, <2>1, <2>2, <2>3, <2>4, <2>5, <2>6, <2>7, <2>8, <2>9, <2>10 DEF Handle
  <1> QED BY <1>1, CrashBesideRun, OwnerBesideRun DEF Next

------------------------------------------------------------------------------
(* The steps of a run, and what they leave well formed.                       *)

(* A batch stays one when more ids are given out.                             *)
LEMMA BatchesStand ==
  ASSUME NEW list, NEW ids, NEW more, IsBatch(list, ids), ids \subseteq more
  PROVE  IsBatch(list, more)
  BY DEF IsBatch, IsRunChange

(* What a run does beside them leaves the requests well formed.               *)
LEMMA RequestsBesideRun ==
  ASSUME RequestInv, UNCHANGED <<req, acked, landed>>,
         WellFormed(tree'), WellFormed(index'), WellFormed(head'),
         minted \subseteq minted', minted' \subseteq ProposalIds,
         faults' \in 0 .. MaxFaults, PendingIds' \subseteq minted'
  PROVE  RequestInv'
  <1>1. TypeOK'
    BY DEF RequestInv, TypeOK, WellFormed
  <1>2. TodosOK'
    BY DEF RequestInv, TodosOK
  <1> QED BY <1>1, <1>2 DEF RequestInv

LEMMA RequestsOnQuietVault ==
  ASSUME RequestInv, UNCHANGED <<vault, req, acked, landed>>,
         minted \subseteq minted', minted' \subseteq ProposalIds,
         faults' \in 0 .. MaxFaults
  PROVE  RequestInv' /\ UNCHANGED <<tree, index, head>>
  <1>1. UNCHANGED <<tree, index, head>> /\ PendingIds' = PendingIds
    BY DEF vault, PendingIds, Pending
  <1>2. WellFormed(tree') /\ WellFormed(index') /\ WellFormed(head')
    BY <1>1, TypesAre DEF RequestInv
  <1>3. PendingIds' \subseteq minted'
    BY <1>1 DEF RequestInv
  <1> QED BY <1>1, <1>2, <1>3, RequestsBesideRun

\* A step of the run that touches neither the vault nor the histories.
Thinks ==
  /\ UNCHANGED <<tree, index, head, filed, removed, minted>>
  /\ faults' = faults \/ faults' > 0

StateOf(pc, todo, attempted, state, old, batch, writes, fresh) ==
  [pc |-> pc, todo |-> todo, attempted |-> attempted, state |-> state, old |-> old,
   batch |-> batch, writes |-> writes, fresh |-> fresh]

LEMMA StartDoes ==
  ASSUME RequestInv, Start
  PROVE  /\ RequestInv' /\ Thinks /\ run.pc = "idle"
         /\ \E todo \in SUBSET Candidates :
              /\ \A c, d \in todo : c.slug = d.slug => c = d
              /\ run' = StateOf("scan", todo, 0, << >>, << >>, << >>, << >>, {})
  <1> DEFINE there == {s \in Slugs : tree[PagePath(s)] # Absent}
             todo == {[slug |-> s, page |-> tree[PagePath(s)]] : s \in there}
  <1>1. run.pc = "idle" /\ run' = [Resting EXCEPT !.pc = "scan", !.todo = todo]
    BY DEF Start
  <1>2. UNCHANGED <<tree, index, head, req, minted, acked, landed, faults, filed, removed>>
    BY DEF Start, vars
  <1>3. todo \in SUBSET Candidates
    BY DEF RequestInv, TypeOK, Candidates
  <1>4. \A c, d \in todo : c.slug = d.slug => c = d
    OBVIOUS
  <1> HIDE DEF todo
  <1>5. run' = StateOf("scan", todo, 0, << >>, << >>, << >>, << >>, {})
    BY <1>1 DEF Resting, StateOf
  <1>6. minted \subseteq ProposalIds /\ faults \in 0 .. MaxFaults
    BY DEF RequestInv, TypeOK
  <1>7. RequestInv'
    BY <1>2, <1>6, RequestsOnQuietVault DEF vault
  <1> QED BY <1>1, <1>2, <1>3, <1>4, <1>5, <1>7 DEF Thinks

(* A nonempty set of ids has a largest one.                                   *)
LEMMA LatestIsPending ==
  ASSUME NEW S \in SUBSET ProposalIds, S # {}
  PROVE  Max(S) \in S /\ \A i \in S : i <= Max(S)
  <1>1. S \in SUBSET Nat /\ IsFiniteSet(S)
    BY IdsAreOrdered, FS_Subset
  <1>0. PICK n \in Nat : ExistsBijection(1 .. n, S)
    BY <1>1, FS_NatBijection
  <1>2. PICK f \in [1 .. n -> S] : \A i \in S : \E k \in 1 .. n : f[k] = i
    BY <1>0 DEF ExistsBijection, Bijection, Injection, Surjection
  <1>3. f \in [1 .. n -> Nat]
    BY <1>1
  <1>4. PICK b \in Nat : \A k \in 1 .. n : f[k] <= b
    BY <1>3, SeqBounded
  <1>5. \A i \in S : i <= b
    BY <1>2, <1>4
  <1>6. PICK m \in S : \A i \in S : i <= m
    BY <1>1, <1>5, BoundedHasMax
  <1>7. \A i \in S : m >= i
    BY <1>1, <1>6
  <1> QED BY <1>1, <1>7 DEF Max

LEMMA ScanDoes ==
  ASSUME RequestInv, ProcessInv, Scan
  PROVE  /\ RequestInv' /\ Thinks /\ run.pc = "scan"
         /\ \E state, old :
              /\ state = IF tree[StatePath] = Absent THEN << >> ELSE tree[StatePath]
              /\ DOMAIN old \subseteq Slugs
              /\ \A s \in Slugs : PendingFor(s) # {} =>
                   s \in DOMAIN old /\ old[s].id \in PendingFor(s)
              /\ \A s \in DOMAIN old :
                   old[s].id \in ProposalIds /\ IsProposal(old[s].proposal)
              /\ run' = StateOf("extract", run.todo, run.attempted, state, old,
                                run.batch, run.writes, run.fresh)
  <1> DEFINE state == IF tree[StatePath] = Absent THEN << >> ELSE tree[StatePath]
             old == PendingByTarget
  <1>1. /\ run.pc = "scan"
        /\ run' = [run EXCEPT !.pc = "extract", !.state = state, !.old = old]
    BY DEF Scan
  <1>2. UNCHANGED <<tree, index, head, req, minted, acked, landed, faults, filed, removed>>
    BY DEF Scan, vars
  <1>3. DOMAIN old = {s \in Slugs : PendingFor(s) # {}}
    BY DEF PendingByTarget
  <1>4. ASSUME NEW s \in DOMAIN old
        PROVE  /\ old[s].id \in PendingFor(s) /\ old[s].id \in ProposalIds
               /\ IsProposal(old[s].proposal)
    <2> DEFINE last == Max(PendingFor(s))
    <2>1. old[s] = [id |-> last, proposal |-> tree[ReviewPath(last)]]
      BY <1>3, <1>4 DEF PendingByTarget
    <2>2. PendingFor(s) \in SUBSET ProposalIds /\ PendingFor(s) # {}
      BY <1>3, <1>4 DEF PendingFor
    <2>3. last \in PendingFor(s)
      BY <2>2, LatestIsPending
    <2> HIDE DEF last
    <2>4. last \in ProposalIds /\ Pending(last)
      BY <2>3 DEF PendingFor
    <2>5. IsProposal(tree[ReviewPath(last)])
      BY <2>4 DEF RequestInv, TypeOK, Pending
    <2> QED BY <2>1, <2>3, <2>4, <2>5
  <1> HIDE DEF state, old
  <1>5. run' = StateOf("extract", run.todo, run.attempted, state, old,
                       run.batch, run.writes, run.fresh)
    BY <1>1 DEF ProcessInv, StateOf
  <1>6. minted \subseteq ProposalIds /\ faults \in 0 .. MaxFaults
    BY DEF RequestInv, TypeOK
  <1>7. RequestInv'
    BY <1>2, <1>6, RequestsOnQuietVault DEF vault
  <1>8. state = IF tree[StatePath] = Absent THEN << >> ELSE tree[StatePath]
    BY DEF state
  <1> QED BY <1>1, <1>2, <1>3, <1>4, <1>5, <1>7, <1>8 DEF Thinks

(* Passing over a page, unchanged or without an answer.                       *)
LEMMA PassDoes ==
  ASSUME RequestInv, ProcessInv, Skip \/ GiveUpOnPage
  PROVE  /\ RequestInv' /\ Thinks /\ run.pc = "extract"
         /\ \E c \in run.todo : \E attempted :
              run' = StateOf("extract", run.todo \ {c}, attempted, run.state, run.old,
                             run.batch, run.writes, run.fresh)
  <1>1. run.pc = "extract"
    BY DEF Skip, GiveUpOnPage
  <1>2. UNCHANGED <<tree, index, head, req, minted, acked, landed, faults, filed, removed>>
    BY DEF Skip, GiveUpOnPage, vars
  <1>3. minted \subseteq ProposalIds /\ faults \in 0 .. MaxFaults
    BY DEF RequestInv, TypeOK
  <1>4. RequestInv'
    BY <1>2, <1>3, RequestsOnQuietVault DEF vault
  <1>5. \E c \in run.todo : \E attempted :
          run' = StateOf("extract", run.todo \ {c}, attempted, run.state, run.old,
                         run.batch, run.writes, run.fresh)
    <2>1. CASE Skip
      <3>1. PICK c \in run.todo : run' = [run EXCEPT !.todo = @ \ {c}]
        BY <2>1 DEF Skip
      <3>2. run' = StateOf("extract", run.todo \ {c}, run.attempted, run.state, run.old,
                           run.batch, run.writes, run.fresh)
        BY <1>1, <3>1 DEF ProcessInv, StateOf
      <3> QED BY <3>2
    <2>2. CASE GiveUpOnPage
      <3>1. PICK c \in run.todo : run' = [run EXCEPT !.todo = @ \ {c}, !.attempted = @ + 1]
        BY <2>2 DEF GiveUpOnPage
      <3>2. run' = StateOf("extract", run.todo \ {c}, run.attempted + 1, run.state, run.old,
                           run.batch, run.writes, run.fresh)
        BY <1>1, <3>1 DEF ProcessInv, StateOf
      <3> QED BY <3>2
    <2> QED BY <2>1, <2>2
  <1> QED BY <1>1, <1>2, <1>4, <1>5 DEF Thinks

\* It adds claims of its own, and may retire some the page has.
IsAnswer(i, p) ==
  /\ p.kind = "claims" /\ p.change.add = Additions(i)
  /\ p.change.reword = << >> /\ p.change.retire \in Anything

(* What the model's answer becomes is a proposal pinned to the page.          *)
LEMMA ExtractionsAreProposals ==
  ASSUME NEW c \in Candidates, NEW i \in ProposalIds,
         NEW change \in ModelAnswers(i, c.page.claims)
  PROVE  /\ IsProposal(Extraction(c, change))
         /\ Extraction(c, change).target = c.slug /\ Extraction(c, change).pin = c.page
         /\ IsAnswer(i, Extraction(c, change))
  <1>1. c.slug \in Slugs /\ c.page \in Page
    BY DEF Candidates
  <1>2. /\ change.reword = << >> /\ change.add = Additions(i)
        /\ change \in [keep : SUBSET NamedIDs, reword : {<< >>}, retire : SUBSET NamedIDs,
                       add : {Additions(j) : j \in ProposalIds}]
    BY DEF ModelAnswers, IsChange
  <1>3. change.retire \in SUBSET NamedIDs /\ IsChange(change)
    BY DEF ModelAnswers, IsChange
  <1> DEFINE p == Extraction(c, change)
  <1>8. p.kind = "claims" /\ p.target = c.slug /\ p.pin = c.page /\ p.change = change
    BY DEF Extraction, Proposal
  <1>9. p \in [kind : {"claims"}, target : Slugs, pin : Page,
               change : [keep : SUBSET NamedIDs, reword : {<< >>},
                         retire : SUBSET NamedIDs,
                         add : {Additions(j) : j \in ProposalIds}]]
    BY <1>1, <1>2 DEF Extraction, Proposal
  <1>10. p # Absent
    BY <1>9, AbsentIsNoExtraction
  <1> HIDE DEF p
  <1>11. IsProposal(p)
    BY <1>1, <1>3, <1>8, <1>10 DEF IsProposal, Kinds
  <1>12. IsAnswer(i, p)
    BY <1>2, <1>3, <1>8 DEF IsAnswer, Anything, NamedIDs, NoId
  <1> QED BY <1>8, <1>11, <1>12 DEF p

LEMMA ExtractDoes ==
  ASSUME RequestInv, ProcessInv, Extract
  PROVE  /\ RequestInv' /\ run.pc = "extract"
         /\ UNCHANGED <<tree, index, head, filed, removed, faults>>
         /\ \E c \in run.todo, i \in ProposalIds, pc \in {"extract", "commit"} : \E p :
              LET sup   == IF c.slug \in DOMAIN run.old
                           THEN Supersede(run.old[c.slug]) ELSE << >>
                  batch == run.batch \o <<Change(ReviewPath(i), p)>> \o sup
                  state == WithRecorded(run.state, c)
              IN /\ IsProposal(p) /\ p.target = c.slug /\ p.pin = c.page /\ IsAnswer(i, p)
                 /\ minted' = minted \cup {i} /\ i \notin minted
                 /\ run' = StateOf(pc, run.todo \ {c}, run.attempted + 1, state,
                                   [s \in DOMAIN run.old \ {c.slug} |-> run.old[s]], batch,
                                   IF pc = "commit" THEN WithState(batch, state) ELSE << >>,
                                   run.fresh \cup {c.slug})
  <1>1. /\ run.pc = "extract"
        /\ UNCHANGED <<tree, index, head, req, acked, landed, faults, filed, removed>>
    BY DEF Extract, vault
  <1>2. PICK c \in run.todo, i \in ProposalIds :
          /\ minted' = minted \cup {i} /\ \A j \in minted : j < i
          /\ LET state == WithRecorded(run.state, c)
             IN \E change \in ModelAnswers(i, c.page.claims) :
               LET batch == run.batch
                              \o <<Change(ReviewPath(i), Extraction(c, change))>>
                              \o (IF c.slug \in DOMAIN run.old
                                  THEN Supersede(run.old[c.slug]) ELSE << >>)
                   full == Len(batch) >= CommitBatchSize
               IN run' = [run EXCEPT
                    !.pc = IF full THEN "commit" ELSE "extract",
                    !.todo = @ \ {c},
                    !.attempted = @ + 1,
                    !.state = state,
                    !.old = [s \in DOMAIN @ \ {c.slug} |-> @[s]],
                    !.batch = batch,
                    !.writes = IF full THEN WithState(batch, state) ELSE << >>,
                    !.fresh = @ \cup {c.slug}]
    BY DEF Extract
  <1> DEFINE state == WithRecorded(run.state, c)
             sup   == IF c.slug \in DOMAIN run.old THEN Supersede(run.old[c.slug]) ELSE << >>
  <1>3. PICK change \in ModelAnswers(i, c.page.claims) :
          LET batch == run.batch \o <<Change(ReviewPath(i), Extraction(c, change))>> \o sup
              full  == Len(batch) >= CommitBatchSize
          IN run' = [run EXCEPT
               !.pc = IF full THEN "commit" ELSE "extract",
               !.todo = @ \ {c},
               !.attempted = @ + 1,
               !.state = state,
               !.old = [s \in DOMAIN @ \ {c.slug} |-> @[s]],
               !.batch = batch,
               !.writes = IF full THEN WithState(batch, state) ELSE << >>,
               !.fresh = @ \cup {c.slug}]
    BY <1>2
  <1> DEFINE p     == Extraction(c, change)
             batch == run.batch \o <<Change(ReviewPath(i), p)>> \o sup
             pc    == IF Len(batch) >= CommitBatchSize THEN "commit" ELSE "extract"
             old   == [s \in DOMAIN run.old \ {c.slug} |-> run.old[s]]
  <1>4. run' = [run EXCEPT
               !.pc = pc,
               !.todo = run.todo \ {c},
               !.attempted = run.attempted + 1,
               !.state = state,
               !.old = old,
               !.batch = batch,
               !.writes = IF Len(batch) >= CommitBatchSize
                          THEN WithState(batch, state) ELSE << >>,
               !.fresh = run.fresh \cup {c.slug}]
    BY <1>3
  <1>5. Len(batch) >= CommitBatchSize <=> pc = "commit"
    OBVIOUS
  <1>6. c \in Candidates
    BY DEF ProcessInv
  <1>7. IsProposal(p) /\ p.target = c.slug /\ p.pin = c.page /\ IsAnswer(i, p)
    BY <1>6, ExtractionsAreProposals
  <1>14. i \notin minted
    BY <1>2, IdsAreOrdered DEF RequestInv, TypeOK
  <1>8. pc \in {"extract", "commit"}
    OBVIOUS
  <1> HIDE DEF p, batch, pc, old, state, sup
  <1>9. run' = StateOf(pc, run.todo \ {c}, run.attempted + 1, state, old, batch,
                       IF pc = "commit" THEN WithState(batch, state) ELSE << >>,
                       run.fresh \cup {c.slug})
    BY <1>4, <1>5 DEF ProcessInv, StateOf
  <1>10. /\ minted \subseteq minted' /\ minted' \subseteq ProposalIds
         /\ faults' \in 0 .. MaxFaults
    BY <1>1, <1>2 DEF RequestInv, TypeOK
  <1>11. RequestInv'
    BY <1>1, <1>10, RequestsOnQuietVault DEF vault
  <1>12. /\ batch = run.batch \o <<Change(ReviewPath(i), p)>> \o sup
         /\ sup = IF c.slug \in DOMAIN run.old THEN Supersede(run.old[c.slug]) ELSE << >>
         /\ state = WithRecorded(run.state, c)
         /\ old = [s \in DOMAIN run.old \ {c.slug} |-> run.old[s]]
    BY DEF batch, sup, state, old
  <1>13. \E q :
           LET theirs == IF c.slug \in DOMAIN run.old
                         THEN Supersede(run.old[c.slug]) ELSE << >>
               list   == run.batch \o <<Change(ReviewPath(i), q)>> \o theirs
               noted  == WithRecorded(run.state, c)
           IN /\ IsProposal(q) /\ q.target = c.slug /\ q.pin = c.page /\ IsAnswer(i, q)
              /\ minted' = minted \cup {i} /\ i \notin minted
              /\ run' = StateOf(pc, run.todo \ {c}, run.attempted + 1, noted,
                                [s \in DOMAIN run.old \ {c.slug} |-> run.old[s]], list,
                                IF pc = "commit" THEN WithState(list, noted) ELSE << >>,
                                run.fresh \cup {c.slug})
    <2> WITNESS p
    <2> QED BY <1>2, <1>7, <1>9, <1>12, <1>14
  <1> QED BY <1>1, <1>8, <1>11, <1>13

LEMMA EndDoes ==
  ASSUME RequestInv, ProcessInv, End
  PROVE  /\ RequestInv' /\ Thinks /\ run.pc = "extract"
         /\ \/ /\ run.batch = << >>
               /\ run' = StateOf("idle", {}, 0, << >>, << >>, << >>, << >>, run.fresh)
            \/ run' = StateOf("commit", {}, run.attempted, run.state, run.old, run.batch,
                              WithState(run.batch, run.state), run.fresh)
  <1>1. run.pc = "extract"
    BY DEF End
  <1>2. UNCHANGED <<tree, index, head, req, minted, acked, landed, faults, filed, removed>>
    BY DEF End, vars
  <1>3. minted \subseteq ProposalIds /\ faults \in 0 .. MaxFaults
    BY DEF RequestInv, TypeOK
  <1>4. RequestInv'
    BY <1>2, <1>3, RequestsOnQuietVault DEF vault
  <1>5. CASE run.batch = << >>
    <2>1. run' = [Resting EXCEPT !.fresh = run.fresh]
      BY <1>5 DEF End
    <2>2. run' = StateOf("idle", {}, 0, << >>, << >>, << >>, << >>, run.fresh)
      BY <2>1 DEF Resting, StateOf
    <2> QED BY <1>1, <1>2, <1>4, <1>5, <2>2 DEF Thinks
  <1>6. CASE run.batch # << >>
    <2>1. run' = [run EXCEPT !.pc = "commit", !.todo = {},
                             !.writes = WithState(run.batch, run.state)]
      BY <1>6 DEF End
    <2>2. run' = StateOf("commit", {}, run.attempted, run.state, run.old, run.batch,
                         WithState(run.batch, run.state), run.fresh)
      BY <2>1 DEF ProcessInv, StateOf
    <2> QED BY <1>1, <1>2, <1>4, <2>2 DEF Thinks
  <1> QED BY <1>5, <1>6

LEMMA DeathDoes ==
  ASSUME RequestInv, RunDies
  PROVE  RequestInv' /\ Thinks /\ run' = Resting /\ faults' > 0
  <1>1. /\ UNCHANGED <<tree, index, head, req, minted, acked, landed, filed, removed>>
        /\ run' = Resting /\ faults < MaxFaults /\ faults' = faults + 1
    BY DEF RunDies, Fault, vault
  <1>2. minted \subseteq ProposalIds /\ faults \in 0 .. MaxFaults
    BY DEF RequestInv, TypeOK
  <1>3. faults' \in 0 .. MaxFaults /\ faults' > 0
    BY <1>1, <1>2, FaultsAreCounted
  <1>4. RequestInv'
    BY <1>1, <1>2, <1>3, RequestsOnQuietVault DEF vault
  <1> QED BY <1>1, <1>3, <1>4 DEF Thinks

(* The next change of a run's commit.                                         *)
LEMMA NextRunChange ==
  ASSUME ProcessInv, run.writes # << >>
  PROVE  /\ Head(run.writes) = run.writes[1] /\ IsRunChange(run.writes[1], minted)
         /\ IsList(Tail(run.writes)) /\ IsBatch(Tail(run.writes), minted)
         /\ Len(run.writes) \in Nat /\ 1 \in 1 .. Len(run.writes)
         /\ Len(Tail(run.writes)) = Len(run.writes) - 1
         /\ \A k \in 1 .. Len(Tail(run.writes)) :
              k \in Nat /\ k + 1 \in 1 .. Len(run.writes) /\ Tail(run.writes)[k] = run.writes[k + 1]
  <1>1. IsList(run.writes) /\ \A k \in 1 .. Len(run.writes) : IsRunChange(run.writes[k], minted)
    BY DEF ProcessInv, IsBatch
  <1>2. /\ IsList(Tail(run.writes)) /\ Head(run.writes) = run.writes[1]
        /\ Len(run.writes) \in Nat /\ Len(run.writes) >= 1
        /\ Len(Tail(run.writes)) = Len(run.writes) - 1
        /\ \A k \in 1 .. Len(Tail(run.writes)) :
             k \in Nat /\ k + 1 \in 1 .. Len(run.writes) /\ Tail(run.writes)[k] = run.writes[k + 1]
    BY <1>1, RestOfList
  <1>3. 1 \in 1 .. Len(run.writes)
    BY <1>2
  <1>4. IsRunChange(run.writes[1], minted)
    BY <1>1, <1>3
  <1>5. \A k \in 1 .. Len(Tail(run.writes)) : IsRunChange(Tail(run.writes)[k], minted)
    BY <1>1, <1>2
  <1> QED BY <1>2, <1>3, <1>4, <1>5 DEF IsBatch

(* What a run's change is written to.                                         *)
LEMMA RunChangesSuit ==
  ASSUME NEW change, NEW ids, ids \subseteq ProposalIds, IsRunChange(change, ids)
  PROVE  /\ change.path \in Paths /\ Suits(Absent, change.path)
         /\ change.data # Absent => Suits(change.data, change.path)
         /\ change.path = StatePath => IsState(change.data)
         /\ \A i \in ProposalIds : change.path = ReviewPath(i) /\ change.data # Absent =>
              /\ i \in ids /\ IsProposal(change.data) /\ change.data.pin \in Page
         /\ Files(change) => change.data.target \in Slugs /\ change.data.pin \in Page
         /\ change.path # StatePath => \A s \in Slugs : change.path # PagePath(s)
  <1>1. Suits(Absent, change.path)
    BY DEF Suits
  <1>2. CASE \E i \in ids : /\ change.path = ReviewPath(i) /\ IsProposal(change.data)
                            /\ change.data.pin \in Page
    BY <1>1, <1>2, PathsAreDistinct, StateIsApart DEF Suits, Files, IsProposal
  <1>3. CASE \E i \in ProposalIds : Removes(change, i)
    BY <1>1, <1>3, PathsAreDistinct, StateIsApart DEF Removes, Files
  <1>4. CASE \E i \in ProposalIds : change.path = RejectedPath(i) /\ IsProposal(change.data)
    BY <1>1, <1>4, PathsAreDistinct, StateIsApart DEF Suits, Files
  <1>5. CASE change.path = StatePath /\ IsState(change.data)
    BY <1>1, <1>5, PathsAreDistinct, StateIsApart, StateHasAPath DEF Suits, Files
  <1> QED BY <1>2, <1>3, <1>4, <1>5 DEF IsRunChange

LEMMA RunRemoveDoes ==
  ASSUME RequestInv, ProcessInv, RunRemove
  PROVE  LET path == run.writes[1].path
         IN /\ RequestInv' /\ run.pc = "commit" /\ run.writes # << >>
            /\ run.writes[1].data = Absent /\ path \in Paths
            /\ run' = StateOf("commit", run.todo, run.attempted, run.state, run.old,
                              run.batch, Tail(run.writes), run.fresh)
            /\ removed' = removed \cup {i \in ProposalIds : path = ReviewPath(i)}
            /\ \A q \in Paths : tree'[q] = IF q = path THEN Absent ELSE tree[q]
            /\ \A q \in Paths : index'[q] \in {index[q], Absent}
            /\ UNCHANGED <<head, minted, faults, filed>>
  <1> DEFINE path == run.writes[1].path
  <1>1. /\ run.pc = "commit" /\ run.writes # << >>
        /\ Head(run.writes).data = Absent /\ StageRemoval(Head(run.writes).path)
        /\ removed' = removed \cup {i \in ProposalIds : Head(run.writes).path = ReviewPath(i)}
        /\ run' = [run EXCEPT !.writes = Tail(@)]
        /\ UNCHANGED <<head, req, minted, acked, landed, faults, filed>>
    BY DEF RunRemove
  <1>2. Head(run.writes) = run.writes[1] /\ IsRunChange(run.writes[1], minted)
    BY <1>1, NextRunChange
  <1>3. minted \subseteq ProposalIds /\ faults \in 0 .. MaxFaults
    BY DEF RequestInv, TypeOK
  <1>4. path \in Paths /\ Suits(Absent, path)
    BY <1>2, <1>3, RunChangesSuit
  <1>5. run' = StateOf("commit", run.todo, run.attempted, run.state, run.old,
                       run.batch, Tail(run.writes), run.fresh)
    BY <1>1 DEF ProcessInv, StateOf
  <1>6. StageRemoval(path)
    BY <1>1, <1>2
  <1> HIDE DEF path
  <1>7. WellFormed(tree) /\ WellFormed(index) /\ WellFormed(head)
    BY TypesAre DEF RequestInv
  <1>8. /\ WellFormed(tree') /\ WellFormed(index')
        /\ \A q \in Paths : tree'[q] = IF q = path THEN Absent ELSE tree[q]
        /\ \A q \in Paths : index'[q] \in {index[q], Absent}
    <2>1. CASE tree[path] = Absent
      <3>1. UNCHANGED <<tree, index>>
        BY <1>6, <2>1 DEF StageRemoval
      <3> QED BY <1>7, <2>1, <3>1
    <2>2. CASE tree[path] # Absent
      <3>1. /\ tree' = [tree EXCEPT ![path] = Absent]
            /\ index' = [index EXCEPT ![path] = Absent]
        BY <1>6, <2>2 DEF StageRemoval
      <3>2. WellFormed(tree') /\ WellFormed(index')
        BY <1>4, <1>7, <3>1, WellFormedWrite
      <3>3. /\ tree'[path] = Absent /\ index'[path] = Absent
            /\ \A q \in Paths \ {path} : tree'[q] = tree[q] /\ index'[q] = index[q]
        BY <1>4, <1>7, <3>1, OnePathWritten DEF WellFormed
      <3> QED BY <3>2, <3>3
    <2> QED BY <2>1, <2>2
  <1>9. PendingIds' \subseteq minted' /\ WellFormed(head')
    <2>1. PendingIds' \subseteq PendingIds
      BY <1>8, PathsAreDistinct DEF PendingIds, Pending
    <2> QED BY <1>1, <1>7, <2>1 DEF RequestInv
  <1>10. RequestInv'
    BY <1>1, <1>3, <1>8, <1>9, RequestsBesideRun
  <1>11. /\ run.writes[1].data = Absent
         /\ removed' = removed \cup {i \in ProposalIds : path = ReviewPath(i)}
    BY <1>1, <1>2 DEF path
  <1> QED BY <1>1, <1>4, <1>5, <1>8, <1>10, <1>11 DEF path

LEMMA RunWriteDoes ==
  ASSUME RequestInv, ProcessInv, RunWrite
  PROVE  LET path == run.writes[1].path
             data == run.writes[1].data
         IN /\ RequestInv' /\ run.pc = "commit" /\ run.writes # << >>
            /\ data # Absent /\ path \in Paths
            /\ run' = StateOf("written", run.todo, run.attempted, run.state, run.old,
                              run.batch, run.writes, run.fresh)
            /\ filed' = filed \cup {<<data.target, data.pin.body>> :
                                      i \in {j \in ProposalIds : path = ReviewPath(j)}}
            /\ \A q \in Paths : tree'[q] = IF q = path THEN data ELSE tree[q]
            /\ UNCHANGED <<index, head, minted, faults, removed>>
  <1> DEFINE path == run.writes[1].path
             data == run.writes[1].data
  <1>1. /\ run.pc = "commit" /\ run.writes # << >>
        /\ run' = [run EXCEPT !.pc = "written"]
        /\ UNCHANGED <<index, head, req, minted, acked, landed, faults, removed>>
    BY DEF RunWrite, WriteFile
  <1>2. Head(run.writes) = run.writes[1] /\ IsRunChange(run.writes[1], minted)
    BY <1>1, NextRunChange
  <1>3. /\ data # Absent /\ tree' = [tree EXCEPT ![path] = data]
        /\ filed' = filed \cup {<<data.target, data.pin.body>> :
                                  i \in {j \in ProposalIds : path = ReviewPath(j)}}
    BY <1>2 DEF RunWrite, WriteFile
  <1>4. minted \subseteq ProposalIds /\ faults \in 0 .. MaxFaults
    BY DEF RequestInv, TypeOK
  <1>5. /\ path \in Paths /\ Suits(data, path)
        /\ \A i \in ProposalIds : path = ReviewPath(i) => i \in minted
    BY <1>2, <1>3, <1>4, RunChangesSuit
  <1>6. run' = StateOf("written", run.todo, run.attempted, run.state, run.old,
                       run.batch, run.writes, run.fresh)
    BY <1>1 DEF ProcessInv, StateOf
  <1> HIDE DEF path, data
  <1>7. WellFormed(tree) /\ WellFormed(index) /\ WellFormed(head)
    BY TypesAre DEF RequestInv
  <1>8. WellFormed(tree')
    BY <1>3, <1>5, <1>7, WellFormedWrite
  <1>9. \A q \in Paths : tree'[q] = IF q = path THEN data ELSE tree[q]
    BY <1>3, <1>5, <1>7, OnePathWritten DEF WellFormed
  <1>10. WellFormed(index') /\ WellFormed(head')
    BY <1>1, <1>7
  <1>11. PendingIds' \subseteq minted'
    <2>1. \A i \in ProposalIds : Pending(i)' => Pending(i) \/ i \in minted
      BY <1>5, <1>9, PathsAreDistinct DEF Pending
    <2> QED BY <1>1, <2>1 DEF PendingIds, RequestInv
  <1>12. RequestInv'
    BY <1>1, <1>4, <1>8, <1>10, <1>11, RequestsBesideRun
  <1> QED BY <1>1, <1>3, <1>5, <1>6, <1>9, <1>12 DEF path, data

LEMMA RunAddDoes ==
  ASSUME RequestInv, ProcessInv, RunAdd
  PROVE  LET path == run.writes[1].path
         IN /\ RequestInv' /\ run.pc = "written" /\ run.writes # << >>
            /\ run.writes[1].data # Absent /\ path \in Paths
            /\ UNCHANGED <<tree, head, minted, faults, filed, removed>>
            /\ \/ /\ run' = StateOf("commit", run.todo, run.attempted, run.state, run.old,
                                    run.batch, Tail(run.writes), run.fresh)
                  /\ \A q \in Paths : index'[q] = IF q = path THEN tree[q] ELSE index[q]
               \/ tree[path] = Absent /\ run' = Resting /\ UNCHANGED index
  <1> DEFINE path == run.writes[1].path
  <1>1. /\ run.pc = "written"
        /\ UNCHANGED <<tree, head, req, minted, acked, landed, faults, filed, removed>>
    BY DEF RunAdd, Add
  <1>2. run.writes # << >> /\ run.writes[1].data # Absent
    BY <1>1 DEF ProcessInv
  <1>3. Head(run.writes) = run.writes[1] /\ IsRunChange(run.writes[1], minted)
    BY <1>2, NextRunChange
  <1>4. minted \subseteq ProposalIds /\ faults \in 0 .. MaxFaults
    BY DEF RequestInv, TypeOK
  <1>5. path \in Paths
    BY <1>3, <1>4, RunChangesSuit
  <1>6. IF CanAdd(path)
        THEN Add(path) /\ run' = [run EXCEPT !.pc = "commit", !.writes = Tail(@)]
        ELSE UNCHANGED <<tree, index>> /\ run' = Resting
    BY <1>3 DEF RunAdd
  <1> HIDE DEF path
  <1>7. WellFormed(tree) /\ WellFormed(index) /\ WellFormed(head)
    BY TypesAre DEF RequestInv
  <1>8. PendingIds' \subseteq minted'
    BY <1>1 DEF RequestInv, PendingIds, Pending
  <1>9. CASE CanAdd(path)
    <2>1. index' = [index EXCEPT ![path] = tree[path]]
      BY <1>6, <1>9 DEF Add
    <2>2. run' = StateOf("commit", run.todo, run.attempted, run.state, run.old,
                         run.batch, Tail(run.writes), run.fresh)
      BY <1>6, <1>9 DEF ProcessInv, StateOf
    <2>3. Suits(tree[path], path)
      BY <1>7 DEF WellFormed, Suits
    <2>4. WellFormed(index')
      BY <1>5, <1>7, <2>1, <2>3, WellFormedWrite
    <2>5. \A q \in Paths : index'[q] = IF q = path THEN tree[q] ELSE index[q]
      BY <1>5, <1>7, <2>1, OnePathWritten DEF WellFormed
    <2>6. WellFormed(tree') /\ WellFormed(head')
      BY <1>1, <1>7
    <2>7. RequestInv'
      BY <1>1, <1>4, <1>8, <2>4, <2>6, RequestsBesideRun
    <2> QED BY <1>1, <1>2, <1>5, <2>2, <2>5, <2>7 DEF path
  <1>10. CASE ~ CanAdd(path)
    <2>1. UNCHANGED index /\ run' = Resting /\ tree[path] = Absent
      BY <1>6, <1>10 DEF CanAdd
    <2>2. RequestInv'
      BY <1>1, <1>4, <2>1, RequestsOnQuietVault DEF vault
    <2> QED BY <1>1, <1>2, <1>5, <2>1, <2>2 DEF path
  <1> QED BY <1>9, <1>10

LEMMA RunFinishDoes ==
  ASSUME RequestInv, ProcessInv, RunFinish
  PROVE  /\ RequestInv' /\ run.pc = "commit" /\ run.writes = << >>
         /\ run' = StateOf("extract", run.todo, run.attempted, run.state, run.old,
                           << >>, run.writes, run.fresh)
         /\ head' = index /\ UNCHANGED <<tree, index, minted, faults, filed, removed>>
  <1>1. /\ run.pc = "commit" /\ run.writes = << >> /\ head' = index
        /\ run' = [run EXCEPT !.pc = "extract", !.batch = << >>]
        /\ UNCHANGED <<tree, index, req, minted, acked, landed, faults, filed, removed>>
    BY DEF RunFinish, RecordIndex
  <1>2. run' = StateOf("extract", run.todo, run.attempted, run.state, run.old,
                       << >>, run.writes, run.fresh)
    BY <1>1 DEF ProcessInv, StateOf
  <1>3. WellFormed(tree) /\ WellFormed(index)
    BY TypesAre DEF RequestInv
  <1>4. WellFormed(tree') /\ WellFormed(index') /\ WellFormed(head')
    BY <1>1, <1>3
  <1>5. minted \subseteq ProposalIds /\ faults \in 0 .. MaxFaults
    BY DEF RequestInv, TypeOK
  <1>6. PendingIds' \subseteq minted'
    BY <1>1 DEF RequestInv, PendingIds, Pending
  <1>7. RequestInv'
    BY <1>1, <1>4, <1>5, <1>6, RequestsBesideRun
  <1> QED BY <1>1, <1>2, <1>7

------------------------------------------------------------------------------
(* What a run holds to, and that every step keeps it.                         *)

RunInv == RequestInv /\ ProcessInv /\ RecordInv /\ CopyInv

LEMMA RestIs ==
  /\ Resting = StateOf("idle", {}, 0, << >>, << >>, << >>, << >>, {})
  /\ IsList(<< >>) /\ \A ids : IsBatch(<< >>, ids)
  /\ IsState(<< >>) /\ DOMAIN << >> = {} /\ 1 .. Len(<< >>) = {}
  <1>1. << >> \in Seq({}) /\ Len(<< >>) = 0 /\ DOMAIN << >> = {}
    OBVIOUS
  <1>2. IsList(<< >>) /\ 1 .. Len(<< >>) = {}
    BY <1>1, ShortLists
  <1> QED BY <1>1, <1>2 DEF IsBatch, IsState, Resting, StateOf

LEMMA RunStarts ==
  ASSUME RunInit
  PROVE  RunInv
  <1>1. IInv /\ \A h \in Handlers : req[h] = Idle
    BY InitiallyInvariant DEF RunInit, Init
  <1>2. RequestInv
    <2>1. PendingIds \subseteq minted
      BY <1>1 DEF IInv, IdsAreMinted, Filed, FiledIds, PendingIds
    <2> QED BY <1>1, <2>1 DEF IInv, RequestInv
  <1>3. /\ run = StateOf("idle", {}, 0, << >>, << >>, << >>, << >>, {})
        /\ filed = {} /\ removed = {}
    BY RestIs DEF RunInit
  <1>4. \A store \in {tree, index, head} : store[StatePath] = Absent
    <2>1. StatePath \in Paths /\ StatePath[1] # "page" /\ StatePath[1] # "review"
      BY StateHasAPath DEF StatePath
    <2>2. tree[StatePath] = Absent
      BY <2>1 DEF RunInit, Init
    <2> QED BY <2>2 DEF RunInit, Init
  <1>5. ProcessInv
    BY <1>3, <1>4, RestIs DEF ProcessInv, StateOf, Looking
  <1>6. RecordInv
    BY <1>3, <1>4, RestIs DEF RecordInv, RecordedMeansFiled, StateOf, Looking, CommitsNow
  <1>7. CopyInv
    BY <1>3, RestIs DEF CopyInv, StateOf, Left, CommitsNow
  <1> QED BY <1>2, <1>5, <1>6, <1>7 DEF RunInv

(* The steps of requests, a crash and the owner's saves.                      *)
LEMMA RunStandsBeside ==
  ASSUME RunInv, Next, UNCHANGED runVars
  PROVE  RunInv'
  <1>1. RequestInv' /\ SparesTheRun
    BY StepsBesideRun DEF RunInv
  <1>2. UNCHANGED <<run, filed, removed>>
    BY DEF runVars
  <1>3. ProcessInv'
    <2>1. IsBatch(run.batch, minted') /\ IsBatch(run.writes, minted')
      BY <1>1, BatchesStand DEF RunInv, ProcessInv, SparesTheRun
    <2>2. \A store \in {tree', index', head'} :
            store[StatePath] # Absent => IsState(store[StatePath])
      BY <1>1 DEF RunInv, ProcessInv, SparesTheRun
    <2> QED BY <1>2, <2>1, <2>2 DEF RunInv, ProcessInv, Looking
  <1>4. RecordInv'
    <2>1. RecordedMeansFiled'
      BY <1>1, <1>2 DEF RunInv, RecordInv, RecordedMeansFiled, SparesTheRun
    <2> QED BY <1>2, <2>1 DEF RunInv, RecordInv, Looking, CommitsNow, Left, Answers, Files
  <1>5. CopyInv'
    <2>1. ASSUME NEW i \in removed'
          PROVE  \/ tree'[RejectedPath(i)] # Absent
                 \/ faults' > 0
                 \/ run'.pc = "commit" /\ run'.writes # << >> /\ Copies(run'.writes[1], i)
      <3>1. i \in removed /\ i \in ProposalIds
        BY <1>2, <2>1 DEF RunInv, ProcessInv
      <3> QED BY <1>1, <1>2, <3>1 DEF RunInv, CopyInv, SparesTheRun
    <2> QED BY <1>2, <2>1 DEF RunInv, CopyInv, Left, CommitsNow, Removes, Copies
  <1> QED BY <1>1, <1>3, <1>4, <1>5 DEF RunInv

LEMMA StartKeeps ==
  ASSUME RunInv, Start
  PROVE  RunInv'
  <1>1. /\ RequestInv' /\ Thinks /\ run.pc = "idle"
        /\ \E todo \in SUBSET Candidates :
             /\ \A c, d \in todo : c.slug = d.slug => c = d
             /\ run' = StateOf("scan", todo, 0, << >>, << >>, << >>, << >>, {})
    BY StartDoes DEF RunInv
  <1>2. PICK todo \in SUBSET Candidates :
          /\ \A c, d \in todo : c.slug = d.slug => c = d
          /\ run' = StateOf("scan", todo, 0, << >>, << >>, << >>, << >>, {})
    BY <1>1
  <1>3. ProcessInv'
    BY <1>1, <1>2, RestIs DEF RunInv, ProcessInv, StateOf, Looking, Thinks
  <1>4. RecordInv'
    BY <1>1, <1>2, RestIs
       DEF RunInv, RecordInv, RecordedMeansFiled, StateOf, Looking, CommitsNow, Thinks
  <1>5. CopyInv'
    BY <1>1, <1>2, RestIs DEF RunInv, CopyInv, StateOf, Left, CommitsNow, Thinks
  <1> QED BY <1>1, <1>3, <1>4, <1>5 DEF RunInv

(* What LoadState reads speaks of proposals already filed.                    *)
LEMMA ScanKeeps ==
  ASSUME RunInv, Scan
  PROVE  RunInv'
  <1>1. /\ RequestInv' /\ Thinks /\ run.pc = "scan"
        /\ \E state, old :
              /\ state = IF tree[StatePath] = Absent THEN << >> ELSE tree[StatePath]
              /\ DOMAIN old \subseteq Slugs
              /\ \A s \in DOMAIN old :
                   old[s].id \in ProposalIds /\ IsProposal(old[s].proposal)
              /\ run' = StateOf("extract", run.todo, run.attempted, state, old,
                                run.batch, run.writes, run.fresh)
    BY ScanDoes DEF RunInv
  <1>2. PICK state, old :
              /\ state = IF tree[StatePath] = Absent THEN << >> ELSE tree[StatePath]
              /\ DOMAIN old \subseteq Slugs
              /\ \A s \in DOMAIN old :
                   old[s].id \in ProposalIds /\ IsProposal(old[s].proposal)
              /\ run' = StateOf("extract", run.todo, run.attempted, state, old,
                                run.batch, run.writes, run.fresh)
    BY <1>1
  <1>3. /\ run.batch = << >> /\ IsState(state)
        /\ \A s \in DOMAIN state : <<s, state[s]>> \in filed
    BY <1>1, <1>2, RestIs DEF RunInv, ProcessInv, RecordInv, RecordedMeansFiled, Looking
  <1>4. ProcessInv'
    BY <1>1, <1>2, <1>3 DEF RunInv, ProcessInv, StateOf, Looking, Thinks
  <1>5. RecordInv'
    <2>1. RecordedMeansFiled' /\ run'.state = state /\ run'.pc = "extract" /\ run'.batch = << >>
      BY <1>1, <1>2, <1>3 DEF RunInv, RecordInv, RecordedMeansFiled, Thinks, StateOf
    <2>2. filed' = filed
      BY <1>1 DEF Thinks
    <2> QED BY <1>3, <2>1, <2>2, RestIs DEF RecordInv, Looking, CommitsNow
  <1>6. CopyInv'
    <2>1. run'.pc = "extract" /\ run'.batch = << >>
      BY <1>2, <1>3 DEF StateOf
    <2>2. Left' = << >>
      BY <2>1 DEF Left, CommitsNow
    <2> QED BY <1>1, <2>1, <2>2, RestIs DEF RunInv, CopyInv, Thinks
  <1> QED BY <1>1, <1>4, <1>5, <1>6 DEF RunInv

LEMMA PassKeeps ==
  ASSUME RunInv, Skip \/ GiveUpOnPage
  PROVE  RunInv'
  <1>1. /\ RequestInv' /\ Thinks /\ run.pc = "extract"
        /\ \E c \in run.todo : \E attempted :
              run' = StateOf("extract", run.todo \ {c}, attempted, run.state, run.old,
                             run.batch, run.writes, run.fresh)
    BY PassDoes DEF RunInv
  <1>2. PICK c \in run.todo, attempted \in {run'.attempted} :
              run' = StateOf("extract", run.todo \ {c}, attempted, run.state, run.old,
                             run.batch, run.writes, run.fresh)
    BY <1>1 DEF StateOf
  <1>3. ProcessInv'
    BY <1>1, <1>2 DEF RunInv, ProcessInv, StateOf, Looking, Thinks
  <1>4. /\ run'.pc = "extract" /\ run'.batch = run.batch /\ run'.state = run.state
        /\ run'.writes = run.writes /\ filed' = filed
    BY <1>1, <1>2 DEF StateOf, Thinks
  <1>5. Left' = Left
    BY <1>1, <1>4 DEF Left, CommitsNow
  <1>6. RecordInv'
    <2>1. RecordedMeansFiled'
      BY <1>1 DEF RunInv, RecordInv, RecordedMeansFiled, Thinks
    <2>2. \A s \in DOMAIN run'.state :
            \/ <<s, run'.state[s]>> \in filed'
            \/ \E k \in 1 .. Len(Left') : Answers(Left'[k], s, run'.state[s])
      BY <1>1, <1>4, <1>5 DEF RunInv, RecordInv, Looking
    <2>3. (\A k \in 1 .. Len(run.batch) : run.batch[k].path # StatePath)'
      BY <1>4 DEF RunInv, RecordInv
    <2> QED BY <1>4, <2>1, <2>2, <2>3 DEF RecordInv, Looking, CommitsNow, Answers, Files
  <1>7. CopyInv'
    BY <1>1, <1>4, <1>5 DEF RunInv, CopyInv, Removes, Copies, Thinks
  <1> QED BY <1>1, <1>3, <1>6, <1>7 DEF RunInv

LEMMA DeathKeeps ==
  ASSUME RunInv, RunDies
  PROVE  RunInv'
  <1>1. RequestInv' /\ Thinks /\ run' = Resting /\ faults' > 0
    BY DeathDoes DEF RunInv
  <1>2. run' = StateOf("idle", {}, 0, << >>, << >>, << >>, << >>, {})
    BY <1>1, RestIs
  <1>3. ProcessInv'
    BY <1>1, <1>2, RestIs DEF RunInv, ProcessInv, StateOf, Looking, Thinks
  <1>4. RecordInv'
    BY <1>1, <1>2, RestIs
       DEF RunInv, RecordInv, RecordedMeansFiled, StateOf, Looking, CommitsNow, Thinks
  <1>5. CopyInv'
    BY <1>1, <1>2, RestIs DEF CopyInv, StateOf, Left, CommitsNow
  <1> QED BY <1>1, <1>3, <1>4, <1>5 DEF RunInv

\* The list b with x after it, and then what there may be left of old.
Grown(list, b, x, sup, old) ==
  LET n == Len(b)
  IN /\ IsList(list) /\ n \in Nat
     /\ Len(list) = IF sup = << >> THEN n + 1 ELSE n + 3
     /\ \A k \in 1 .. n : k \in 1 .. Len(list) /\ list[k] = b[k]
     /\ n + 1 \in 1 .. Len(list) /\ list[n + 1] = x
     /\ sup # << >> =>
          /\ n + 2 \in 1 .. Len(list) /\ list[n + 2] = Change(ReviewPath(old.id), Absent)
          /\ n + 3 \in 1 .. Len(list)
          /\ list[n + 3] = Change(RejectedPath(old.id), old.proposal)
     /\ \A k \in 1 .. Len(list) :
          k \in 1 .. n \/ k = n + 1 \/ (sup # << >> /\ (k = n + 2 \/ k = n + 3))

(* What Extract adds to the batch: the proposal, then the old one's removal   *)
(* and its copy.                                                              *)
LEMMA BatchGrows ==
  ASSUME NEW b, IsList(b), NEW x, NEW sup, NEW old,
         sup = << >> \/ sup = Supersede(old)
  PROVE  Grown(b \o <<x>> \o sup, b, x, sup, old)
  <1> DEFINE n == Len(b)
             bx == b \o <<x>>
             list == bx \o sup
  <1>1. /\ IsList(<<x>>) /\ Len(<<x>>) = 1 /\ <<x>>[1] = x
    BY ShortLists
  <1>2. /\ IsList(bx) /\ n \in Nat /\ Len(bx) = n + 1
        /\ \A k \in 1 .. n : bx[k] = b[k]
        /\ bx[n + 1] = x
    <2>1. 1 \in 1 .. Len(<<x>>)
      BY <1>1
    <2> QED BY <1>1, <2>1, ListsJoin
  <1>3. list = b \o <<x>> \o sup
    OBVIOUS
  <1> HIDE DEF bx
  <1>4. ASSUME sup = << >> PROVE Grown(list, b, x, sup, old)
    <2>1. IsList(sup) /\ Len(sup) = 0
      BY <1>4, RestIs
    <2>2. /\ IsList(list) /\ Len(list) = n + 1
          /\ \A k \in 1 .. Len(bx) : list[k] = bx[k]
      <3>1. /\ IsList(list) /\ Len(list) = Len(bx) + Len(sup)
            /\ \A k \in 1 .. Len(bx) : list[k] = bx[k]
        BY <1>2, <2>1, ListsJoin
      <3> HIDE DEF list
      <3> QED BY <1>2, <2>1, <3>1
    <2> HIDE DEF list
    <2> QED BY <1>2, <1>4, <2>2 DEF Grown
  <1>5. ASSUME sup # << >> PROVE Grown(list, b, x, sup, old)
    <2> DEFINE r == Change(ReviewPath(old.id), Absent)
               c == Change(RejectedPath(old.id), old.proposal)
    <2>1. sup = <<r, c>>
      BY <1>5 DEF Supersede
    <2> HIDE DEF r, c
    <2>2. IsList(sup) /\ Len(sup) = 2 /\ sup[1] = r /\ sup[2] = c
      BY <2>1, ShortLists
    <2>3. /\ IsList(list) /\ Len(list) = n + 3
          /\ \A k \in 1 .. Len(bx) : list[k] = bx[k]
          /\ \A k \in 1 .. 2 : list[Len(bx) + k] = sup[k]
      <3>1. /\ IsList(list) /\ Len(list) = Len(bx) + Len(sup)
            /\ \A k \in 1 .. Len(bx) : list[k] = bx[k]
            /\ \A k \in 1 .. Len(sup) : list[Len(bx) + k] = sup[k]
        <4>1. IsList(bx) /\ IsList(sup)
          BY <1>2, <2>2
        <4> QED BY <4>1, ListsJoin
      <3> HIDE DEF list
      <3> QED BY <1>2, <2>2, <3>1
    <2>4. list[n + 2] = r /\ list[n + 3] = c
      <3>1. 1 \in 1 .. 2 /\ 2 \in 1 .. 2 /\ Len(bx) + 1 = n + 2 /\ Len(bx) + 2 = n + 3
        BY <1>2
      <3> QED BY <2>2, <2>3, <3>1
    <2> HIDE DEF list
    <2> QED BY <1>2, <1>5, <2>3, <2>4 DEF r, c, Grown
  <1> HIDE DEF list
  <1> QED BY <1>3, <1>4, <1>5

\* The list b with x after it.
Longer(list, b, x) ==
  /\ IsList(list) /\ Len(b) \in Nat /\ Len(list) = Len(b) + 1
  /\ \A k \in 1 .. Len(b) : k \in 1 .. Len(list) /\ list[k] = b[k]
  /\ list[Len(list)] = x /\ Len(list) \in 1 .. Len(list)
  /\ \A k \in 1 .. Len(list) : k \in 1 .. Len(b) \/ k = Len(list)

LEMMA ListGrows ==
  ASSUME NEW b, IsList(b), NEW x, NEW list, list = Append(b, x)
  PROVE  Longer(list, b, x)
  <1>1. list = b \o <<x>> /\ IsList(<<x>>) /\ Len(<<x>>) = 1 /\ <<x>>[1] = x
    BY ListAppends, ShortLists
  <1>2. 1 \in 1 .. Len(<<x>>)
    BY <1>1
  <1>3. /\ IsList(list) /\ Len(b) \in Nat /\ Len(list) = Len(b) + 1
        /\ \A k \in 1 .. Len(b) : k \in 1 .. Len(list) /\ list[k] = b[k]
        /\ list[Len(b) + 1] = x
    BY <1>1, <1>2, ListsJoin
  <1> QED BY <1>3 DEF Longer

\* What Extract makes of the page c, as proposal p under id i.
Extracted(c, i, p) ==
  LET n       == Len(run.batch)
      filing  == Change(ReviewPath(i), p)
      leaving == c.slug \in DOMAIN run.old
      old     == run.old[c.slug]
      noted   == WithRecorded(run.state, c)
  IN /\ run.pc = "extract" /\ UNCHANGED <<tree, index, head, filed, removed, faults>>
     /\ IsProposal(p) /\ p.target = c.slug /\ p.pin = c.page /\ IsAnswer(i, p)
     /\ minted' = minted \cup {i} /\ i \notin minted
     /\ run'.pc \in {"extract", "commit"}
     /\ run' = StateOf(run'.pc, run.todo \ {c}, run'.attempted, noted,
                       [s \in DOMAIN run.old \ {c.slug} |-> run.old[s]],
                       run'.batch, run'.writes, run.fresh \cup {c.slug})
     /\ IsList(run'.batch) /\ IsList(run'.writes)
     /\ run'.pc = "extract" => run'.writes = << >>
     /\ \A k \in 1 .. Len(run'.batch) :
          \/ k \in 1 .. n /\ run'.batch[k] = run.batch[k]
          \/ run'.batch[k] = filing
          \/ leaving /\ run'.batch[k] \in {Supersede(old)[1], Supersede(old)[2]}
     /\ n \in Nat /\ Len(Left') \in Nat
     /\ \A k \in 1 .. n : k \in 1 .. Len(Left') /\ Left'[k] = Left[k]
     /\ n + 1 \in 1 .. Len(Left') /\ Left'[n + 1] = filing
     /\ leaving =>
          /\ n + 2 \in 1 .. Len(Left') /\ Left'[n + 2] = Supersede(old)[1]
          /\ n + 3 \in 1 .. Len(Left') /\ Left'[n + 3] = Supersede(old)[2]
     /\ \A k \in 1 .. Len(Left') :
          \/ k \in 1 .. n \/ k = n + 1
          \/ leaving /\ (k = n + 2 \/ k = n + 3)
          \/ run'.pc = "commit" /\ k = Len(Left') /\ Left'[k] = Change(StatePath, noted)

LEMMA ExtractLeaves ==
  ASSUME RequestInv, ProcessInv, Extract
  PROVE  RequestInv' /\ \E c \in run.todo, i \in ProposalIds : \E p : Extracted(c, i, p)
  <1>1. /\ RequestInv' /\ run.pc = "extract"
        /\ UNCHANGED <<tree, index, head, filed, removed, faults>>
    BY ExtractDoes
  <1>2. PICK c \in run.todo, i \in ProposalIds, pc \in {"extract", "commit"} :
           \E p :
              LET sup   == IF c.slug \in DOMAIN run.old
                           THEN Supersede(run.old[c.slug]) ELSE << >>
                  batch == run.batch \o <<Change(ReviewPath(i), p)>> \o sup
                  state == WithRecorded(run.state, c)
              IN /\ IsProposal(p) /\ p.target = c.slug /\ p.pin = c.page /\ IsAnswer(i, p)
                 /\ minted' = minted \cup {i} /\ i \notin minted
                 /\ run' = StateOf(pc, run.todo \ {c}, run.attempted + 1, state,
                                   [s \in DOMAIN run.old \ {c.slug} |-> run.old[s]], batch,
                                   IF pc = "commit" THEN WithState(batch, state) ELSE << >>,
                                   run.fresh \cup {c.slug})
    BY ExtractDoes
  <1> DEFINE old     == run.old[c.slug]
             leaving == c.slug \in DOMAIN run.old
             sup     == IF leaving THEN Supersede(old) ELSE << >>
             noted   == WithRecorded(run.state, c)
             n       == Len(run.batch)
             B(p)    == run.batch \o <<Change(ReviewPath(i), p)>> \o sup
  <1>3. PICK p :
          /\ IsProposal(p) /\ p.target = c.slug /\ p.pin = c.page /\ IsAnswer(i, p)
          /\ minted' = minted \cup {i} /\ i \notin minted
          /\ run' = StateOf(pc, run.todo \ {c}, run.attempted + 1, noted,
                            [s \in DOMAIN run.old \ {c.slug} |-> run.old[s]], B(p),
                            IF pc = "commit" THEN WithState(B(p), noted) ELSE << >>,
                            run.fresh \cup {c.slug})
    BY <1>2
  <1> DEFINE filing == Change(ReviewPath(i), p)
             list   == B(p)
             writes == IF pc = "commit" THEN WithState(list, noted) ELSE << >>
  <1>4. IsList(run.batch)
    BY DEF ProcessInv, IsBatch
  <1>5. /\ leaving <=> sup # << >>
        /\ sup = << >> \/ sup = Supersede(old)
        /\ Supersede(old)[1] = Change(ReviewPath(old.id), Absent)
        /\ Supersede(old)[2] = Change(RejectedPath(old.id), old.proposal)
    BY ShortLists DEF Supersede
  <1>6. list = run.batch \o <<filing>> \o sup
    OBVIOUS
  <1> HIDE DEF sup, filing, old, leaving, noted, B, list
  <1>7. /\ IsList(list) /\ n \in Nat
        /\ Len(list) \in Nat
        /\ \A k \in 1 .. n : k \in 1 .. Len(list) /\ list[k] = run.batch[k]
        /\ n + 1 \in 1 .. Len(list) /\ list[n + 1] = filing
        /\ leaving =>
             /\ n + 2 \in 1 .. Len(list) /\ list[n + 2] = Supersede(old)[1]
             /\ n + 3 \in 1 .. Len(list) /\ list[n + 3] = Supersede(old)[2]
        /\ \A k \in 1 .. Len(list) :
             k \in 1 .. n \/ k = n + 1 \/ (leaving /\ (k = n + 2 \/ k = n + 3))
    <2>1. Grown(list, run.batch, filing, sup, old)
      BY <1>4, <1>5, <1>6, BatchGrows
    <2>2. Len(list) \in Nat
      BY <2>1 DEF Grown
    <2> QED BY <1>5, <2>1, <2>2 DEF Grown
  <1>8. run' = StateOf(pc, run.todo \ {c}, run.attempted + 1, noted,
                       [s \in DOMAIN run.old \ {c.slug} |-> run.old[s]], list, writes,
                       run.fresh \cup {c.slug})
    BY <1>3 DEF list
  <1>9. /\ run'.pc = pc /\ run'.batch = list /\ run'.writes = writes
        /\ run'.attempted = run.attempted + 1
    BY <1>8 DEF StateOf
  <1>10. \A k \in 1 .. Len(run'.batch) :
          \/ k \in 1 .. n /\ run'.batch[k] = run.batch[k]
          \/ run'.batch[k] = filing
          \/ leaving /\ run'.batch[k] \in {Supersede(old)[1], Supersede(old)[2]}
    BY <1>7, <1>9
  <1>11. Left = run.batch
    BY <1>1 DEF Left, CommitsNow
  <1>12. /\ IsList(run'.writes) /\ Len(Left') \in Nat
         /\ \A k \in 1 .. Len(list) : k \in 1 .. Len(Left') /\ Left'[k] = list[k]
         /\ \A k \in 1 .. Len(Left') :
              \/ k \in 1 .. Len(list)
              \/ run'.pc = "commit" /\ k = Len(Left') /\ Left'[k] = Change(StatePath, noted)
    <2>1. CASE pc = "extract"
      <3>1. Left' = list /\ writes = << >>
        BY <1>9, <2>1 DEF Left, CommitsNow
      <3> QED BY <1>7, <1>9, <3>1, RestIs
    <2>2. CASE pc = "commit"
      <3>1. Left' = writes /\ writes = Append(list, Change(StatePath, noted))
        BY <1>9, <2>2 DEF Left, CommitsNow, WithState
      <3>2. /\ IsList(writes) /\ Len(writes) = Len(list) + 1
            /\ \A k \in 1 .. Len(list) : k \in 1 .. Len(writes) /\ writes[k] = list[k]
            /\ writes[Len(writes)] = Change(StatePath, noted)
            /\ \A k \in 1 .. Len(writes) : k \in 1 .. Len(list) \/ k = Len(writes)
        BY <1>7, <3>1, ListGrows DEF Longer
      <3> HIDE DEF writes
      <3> QED BY <1>7, <1>9, <2>2, <3>1, <3>2
    <2> QED BY <2>1, <2>2
  <1>13. Extracted(c, i, p)
    <2>1. run' = StateOf(run'.pc, run.todo \ {c}, run'.attempted, noted,
                       [s \in DOMAIN run.old \ {c.slug} |-> run.old[s]],
                       run'.batch, run'.writes, run.fresh \cup {c.slug})
      BY <1>8, <1>9
    <2>2. run'.pc = "extract" => run'.writes = << >>
      BY <1>9
    <2>3. /\ n \in Nat /\ Len(Left') \in Nat
          /\ \A k \in 1 .. n : k \in 1 .. Len(Left') /\ Left'[k] = Left[k]
          /\ n + 1 \in 1 .. Len(Left') /\ Left'[n + 1] = filing
          /\ leaving =>
               /\ n + 2 \in 1 .. Len(Left') /\ Left'[n + 2] = Supersede(old)[1]
               /\ n + 3 \in 1 .. Len(Left') /\ Left'[n + 3] = Supersede(old)[2]
      BY <1>7, <1>11, <1>12
    <2>4. \A k \in 1 .. Len(Left') :
            \/ k \in 1 .. n \/ k = n + 1
            \/ leaving /\ (k = n + 2 \/ k = n + 3)
            \/ run'.pc = "commit" /\ k = Len(Left') /\ Left'[k] = Change(StatePath, noted)
      BY <1>7, <1>12
    <2>5. IsList(run'.batch) /\ run'.pc \in {"extract", "commit"}
      BY <1>7, <1>9
    <2> HIDE DEF writes, n
    <2> QED BY <1>1, <1>3, <1>10, <1>12, <2>1, <2>2, <2>3, <2>4, <2>5
            DEF Extracted, filing, leaving, old, noted, n
  <1>14. \E q : Extracted(c, i, q)
    <2> WITNESS p
    <2> QED BY <1>13
  <1> QED BY <1>1, <1>14

(* What a run adds to its batch.                                              *)
LEMMA WhatExtractAdds ==
  ASSUME RunInv, NEW c \in run.todo, NEW i \in ProposalIds, NEW p, Extracted(c, i, p)
  PROVE  LET filing == Change(ReviewPath(i), p)
             old    == run.old[c.slug]
             noted  == WithRecorded(run.state, c)
         IN /\ c \in Candidates /\ minted \subseteq minted' /\ i \in minted'
            /\ IsRunChange(filing, minted') /\ Answers(filing, c.slug, c.page.body)
            /\ filing.path # StatePath
            /\ \A j : ~ Removes(filing, j)
            /\ c.slug \in DOMAIN run.old =>
                 /\ old.id \in ProposalIds
                 /\ IsRunChange(Supersede(old)[1], minted') /\ IsRunChange(Supersede(old)[2], minted')
                 /\ \A j \in ProposalIds : Removes(Supersede(old)[1], j) <=> j = old.id
                 /\ \A j : ~ Removes(Supersede(old)[2], j)
                 /\ Copies(Supersede(old)[2], old.id)
                 /\ ~ Files(Supersede(old)[1]) /\ ~ Files(Supersede(old)[2])
                 /\ Supersede(old)[1].path # StatePath /\ Supersede(old)[2].path # StatePath
            /\ IsState(noted) /\ IsRunChange(Change(StatePath, noted), minted')
            /\ ~ Files(Change(StatePath, noted)) /\ \A j : ~ Removes(Change(StatePath, noted), j)
            /\ Left = run.batch
  <1> DEFINE filing == Change(ReviewPath(i), p)
             old    == run.old[c.slug]
             noted  == WithRecorded(run.state, c)
  <1>1. /\ c \in Candidates /\ c.slug \in Slugs /\ c.page.body \in Bodies
        /\ minted \subseteq minted' /\ i \in minted'
        /\ IsProposal(p) /\ p # Absent /\ p.target = c.slug /\ p.pin = c.page /\ c.page \in Page
    BY DEF RunInv, ProcessInv, Candidates, Page, Extracted, IsProposal
  <1>2. /\ filing.path = ReviewPath(i) /\ filing.data = p
    BY DEF Change
  <1>3. /\ IsRunChange(filing, minted') /\ Answers(filing, c.slug, c.page.body)
        /\ filing.path # StatePath /\ \A j : ~ Removes(filing, j)
    BY <1>1, <1>2, StateIsApart DEF IsRunChange, Answers, Files, Removes
  <1>4. IsState(noted)
    BY <1>1 DEF RunInv, ProcessInv, IsState, WithRecorded
  <1>5. /\ IsRunChange(Change(StatePath, noted), minted') /\ ~ Files(Change(StatePath, noted))
        /\ \A j : ~ Removes(Change(StatePath, noted), j)
    BY <1>4, StateIsApart DEF IsRunChange, Change, Files, Removes
  <1>6. ASSUME c.slug \in DOMAIN run.old
        PROVE  /\ old.id \in ProposalIds
               /\ IsRunChange(Supersede(old)[1], minted') /\ IsRunChange(Supersede(old)[2], minted')
               /\ \A j \in ProposalIds : Removes(Supersede(old)[1], j) <=> j = old.id
               /\ \A j : ~ Removes(Supersede(old)[2], j)
               /\ Copies(Supersede(old)[2], old.id)
               /\ ~ Files(Supersede(old)[1]) /\ ~ Files(Supersede(old)[2])
               /\ Supersede(old)[1].path # StatePath /\ Supersede(old)[2].path # StatePath
    <2>1. old.id \in ProposalIds /\ IsProposal(old.proposal) /\ old.proposal # Absent
      BY <1>6 DEF RunInv, ProcessInv, IsProposal
    <2> HIDE DEF old
    <2>2. /\ Supersede(old)[1] = Change(ReviewPath(old.id), Absent)
          /\ Supersede(old)[2] = Change(RejectedPath(old.id), old.proposal)
      BY ShortLists DEF Supersede
    <2>3. /\ Supersede(old)[1].path = ReviewPath(old.id) /\ Supersede(old)[1].data = Absent
          /\ Supersede(old)[2].path = RejectedPath(old.id)
          /\ Supersede(old)[2].data = old.proposal
      BY <2>2 DEF Change
    <2>4. /\ Removes(Supersede(old)[1], old.id) /\ Copies(Supersede(old)[2], old.id)
          /\ IsRunChange(Supersede(old)[1], minted') /\ IsRunChange(Supersede(old)[2], minted')
      BY <2>1, <2>3 DEF Removes, Copies, IsRunChange
    <2>5. /\ \A j \in ProposalIds : Removes(Supersede(old)[1], j) <=> j = old.id
          /\ \A j : ~ Removes(Supersede(old)[2], j)
          /\ ~ Files(Supersede(old)[1]) /\ ~ Files(Supersede(old)[2])
      BY <2>1, <2>3, PathsAreDistinct DEF Removes, Files
    <2>6. Supersede(old)[1].path # StatePath /\ Supersede(old)[2].path # StatePath
      BY <2>3, StateIsApart
    <2> QED BY <2>1, <2>4, <2>5, <2>6
  <1>7. Left = run.batch
    BY DEF Extracted, Left, CommitsNow
  <1> QED BY <1>1, <1>3, <1>4, <1>5, <1>6, <1>7

LEMMA ExtractKeeps ==
  ASSUME RunInv, Extract
  PROVE  RunInv'
  <1>1. RequestInv' /\ \E c \in run.todo, i \in ProposalIds : \E p : Extracted(c, i, p)
    BY ExtractLeaves DEF RunInv
  <1>2. PICK c \in run.todo, i \in ProposalIds : \E q : Extracted(c, i, q)
    BY <1>1
  <1>3. PICK p : Extracted(c, i, p)
    BY <1>2
  <1> DEFINE filing  == Change(ReviewPath(i), p)
             leaving == c.slug \in DOMAIN run.old
             old     == run.old[c.slug]
             noted   == WithRecorded(run.state, c)
             n       == Len(run.batch)
             ToRemove == Supersede(old)[1]
             ToCopy   == Supersede(old)[2]
  <1>4. /\ c \in Candidates /\ minted \subseteq minted'
        /\ IsRunChange(filing, minted') /\ Answers(filing, c.slug, c.page.body)
        /\ filing.path # StatePath /\ \A j : ~ Removes(filing, j)
        /\ IsState(noted) /\ IsRunChange(Change(StatePath, noted), minted')
        /\ \A j : ~ Removes(Change(StatePath, noted), j)
        /\ Left = run.batch
    BY <1>3, WhatExtractAdds
  <1>5. leaving =>
          /\ old.id \in ProposalIds
          /\ IsRunChange(ToRemove, minted') /\ IsRunChange(ToCopy, minted')
          /\ \A j \in ProposalIds : Removes(ToRemove, j) <=> j = old.id
          /\ \A j : ~ Removes(ToCopy, j)
          /\ Copies(ToCopy, old.id)
          /\ ToRemove.path # StatePath /\ ToCopy.path # StatePath
    BY <1>3, WhatExtractAdds
  <1>6. /\ run.pc = "extract" /\ UNCHANGED <<tree, index, head, filed, removed, faults>>
        /\ run'.pc \in {"extract", "commit"}
        /\ run' = StateOf(run'.pc, run.todo \ {c}, run'.attempted, noted,
                          [s \in DOMAIN run.old \ {c.slug} |-> run.old[s]],
                          run'.batch, run'.writes, run.fresh \cup {c.slug})
        /\ IsList(run'.batch) /\ IsList(run'.writes)
        /\ run'.pc = "extract" => run'.writes = << >>
    BY <1>3 DEF Extracted
  <1>7. \A k \in 1 .. Len(run'.batch) :
          \/ k \in 1 .. n /\ run'.batch[k] = run.batch[k]
          \/ run'.batch[k] = filing
          \/ leaving /\ run'.batch[k] \in {ToRemove, ToCopy}
    BY <1>3 DEF Extracted
  <1>8. /\ n \in Nat /\ Len(Left') \in Nat
        /\ \A k \in 1 .. n : k \in 1 .. Len(Left') /\ Left'[k] = Left[k]
        /\ n + 1 \in 1 .. Len(Left') /\ Left'[n + 1] = filing
        /\ leaving =>
             /\ n + 2 \in 1 .. Len(Left') /\ Left'[n + 2] = ToRemove
             /\ n + 3 \in 1 .. Len(Left') /\ Left'[n + 3] = ToCopy
    BY <1>3 DEF Extracted
  <1>9. \A k \in 1 .. Len(Left') :
          \/ k \in 1 .. n \/ k = n + 1
          \/ leaving /\ (k = n + 2 \/ k = n + 3)
          \/ run'.pc = "commit" /\ k = Len(Left') /\ Left'[k] = Change(StatePath, noted)
    BY <1>3 DEF Extracted
  <1> HIDE DEF filing, leaving, old, noted, n, ToRemove, ToCopy
  <1>10. run'.state = noted /\ run'.todo = run.todo \ {c} /\ DOMAIN run'.old \subseteq DOMAIN run.old
         /\ \A s \in DOMAIN run'.old : run'.old[s] = run.old[s]
    BY <1>6 DEF StateOf
  <1>11. /\ run'.pc = "extract" => Left' = run'.batch
         /\ run'.pc = "commit" => Left' = run'.writes
    BY <1>6 DEF Left, CommitsNow
  <1>12. \A k \in 1 .. n : IsRunChange(run.batch[k], minted') /\ run.batch[k].path # StatePath
    <2>1. IsBatch(run.batch, minted')
      BY <1>4, BatchesStand DEF RunInv, ProcessInv
    <2> QED BY <2>1 DEF IsBatch, RunInv, RecordInv, n
  <1>13. IsBatch(run'.batch, minted') /\ \A k \in 1 .. Len(run'.batch) : run'.batch[k].path # StatePath
    BY <1>4, <1>5, <1>6, <1>7, <1>12 DEF IsBatch
  <1>14. \A k \in 1 .. Len(Left') : IsRunChange(Left'[k], minted')
    BY <1>4, <1>5, <1>8, <1>9, <1>12
  <1>15. IsBatch(run'.writes, minted')
    BY <1>6, <1>11, <1>14, RestIs DEF IsBatch
  <1>16. ProcessInv'
    <2>1. run' = [pc |-> run'.pc, todo |-> run'.todo, attempted |-> run'.attempted,
                  state |-> run'.state, old |-> run'.old, batch |-> run'.batch,
                  writes |-> run'.writes, fresh |-> run'.fresh]
      BY <1>6 DEF StateOf
    <2>2. /\ run'.todo \subseteq Candidates
          /\ \A d, e \in run'.todo : d.slug = e.slug => d = e
          /\ DOMAIN run'.old \subseteq Slugs
          /\ \A s \in DOMAIN run'.old :
               run'.old[s].id \in ProposalIds /\ IsProposal(run'.old[s].proposal)
      BY <1>10 DEF RunInv, ProcessInv
    <2>3. /\ filed' \subseteq Slugs \X Bodies /\ removed' \subseteq ProposalIds
          /\ \A store \in {tree', index', head'} :
               store[StatePath] # Absent => IsState(store[StatePath])
      BY <1>6 DEF RunInv, ProcessInv
    <2> QED BY <1>4, <1>6, <1>10, <1>13, <1>15, <2>1, <2>2, <2>3 DEF ProcessInv, Looking
  <1>17. RecordInv'
    <2>1. RecordedMeansFiled'
      BY <1>6 DEF RunInv, RecordInv, RecordedMeansFiled
    <2>2. CommitsNow' =>
            \A k \in 1 .. Len(run'.writes) : run'.writes[k].path = StatePath =>
              k = Len(run'.writes) /\ run'.writes[k].data = run'.state
      <3> SUFFICES ASSUME run'.pc = "commit", NEW k \in 1 .. Len(Left'), Left'[k].path = StatePath
                   PROVE  k = Len(Left') /\ Left'[k].data = noted
        BY <1>6, <1>10, <1>11 DEF CommitsNow
      <3>1. k = Len(Left') /\ Left'[k] = Change(StatePath, noted)
        BY <1>4, <1>5, <1>8, <1>9, <1>12
      <3> QED BY <3>1 DEF Change
    <2>3. ASSUME NEW s \in DOMAIN noted
          PROVE  \/ <<s, noted[s]>> \in filed'
                 \/ \E k \in 1 .. Len(Left') : Answers(Left'[k], s, noted[s])
      <3>1. CASE s = c.slug
        <4>1. noted[s] = c.page.body
          BY <2>3, <3>1 DEF noted, WithRecorded
        <4> QED BY <1>4, <1>8, <3>1, <4>1
      <3>2. CASE s # c.slug
        <4>1. s \in DOMAIN run.state /\ noted[s] = run.state[s]
          BY <2>3, <3>2 DEF noted, WithRecorded
        <4>2. \/ <<s, run.state[s]>> \in filed
              \/ \E k \in 1 .. Len(Left) : Answers(Left[k], s, run.state[s])
          BY <1>6, <4>1 DEF RunInv, RecordInv, Looking
        <4>3. Len(Left) = n
          BY <1>4 DEF n
        <4> QED BY <1>6, <1>8, <4>1, <4>2, <4>3
      <3> QED BY <3>1, <3>2
    <2> QED BY <1>6, <1>10, <1>13, <2>1, <2>2, <2>3 DEF RecordInv, Answers, Files
  <1>18. CopyInv'
    <2>1. ASSUME NEW k \in 1 .. Len(Left'), NEW j \in ProposalIds, Removes(Left'[k], j)
          PROVE  k + 1 \in 1 .. Len(Left') /\ Copies(Left'[k + 1], j)
      <3>1. CASE k \in 1 .. n
        <4>1. k \in 1 .. Len(Left) /\ Removes(Left[k], j) /\ Len(Left) = n
          BY <1>4, <1>8, <2>1, <3>1 DEF n
        <4>2. k + 1 \in 1 .. Len(Left) /\ Copies(Left[k + 1], j)
          BY <4>1 DEF RunInv, CopyInv
        <4> QED BY <1>8, <4>1, <4>2
      <3>2. CASE leaving /\ k = n + 2
        <4>1. j = old.id /\ k + 1 = n + 3
          BY <1>5, <1>8, <2>1, <3>2
        <4> QED BY <1>5, <1>8, <3>2, <4>1
      <3>3. k \in 1 .. n \/ (leaving /\ k = n + 2)
        BY <1>4, <1>5, <1>8, <1>9, <2>1
      <3> QED BY <3>1, <3>2, <3>3
    <2>2. \A j \in removed' :
            \/ tree'[RejectedPath(j)] # Absent
            \/ faults' > 0
      BY <1>6 DEF RunInv, CopyInv
    <2> QED BY <2>1, <2>2 DEF CopyInv, Removes, Copies
  <1> QED BY <1>1, <1>16, <1>17, <1>18 DEF RunInv

LEMMA EndKeeps ==
  ASSUME RunInv, End
  PROVE  RunInv'
  <1>1. /\ RequestInv' /\ Thinks /\ run.pc = "extract"
        /\ \/ /\ run.batch = << >>
              /\ run' = StateOf("idle", {}, 0, << >>, << >>, << >>, << >>, run.fresh)
           \/ run' = StateOf("commit", {}, run.attempted, run.state, run.old, run.batch,
                             WithState(run.batch, run.state), run.fresh)
    BY EndDoes DEF RunInv
  <1>2. \A i \in removed' : tree'[RejectedPath(i)] # Absent \/ faults' > 0
    BY <1>1 DEF RunInv, CopyInv, Thinks
  <1>3. RecordedMeansFiled'
    BY <1>1 DEF RunInv, RecordInv, RecordedMeansFiled, Thinks
  <1>4. CASE run' = StateOf("idle", {}, 0, << >>, << >>, << >>, << >>, run.fresh)
    <2>1. ProcessInv'
      BY <1>1, <1>4, RestIs DEF RunInv, ProcessInv, StateOf, Looking, Thinks
    <2>2. RecordInv'
      BY <1>3, <1>4, RestIs DEF RecordInv, StateOf, Looking, CommitsNow
    <2>3. CopyInv'
      BY <1>2, <1>4, RestIs DEF CopyInv, StateOf, Left, CommitsNow
    <2> QED BY <1>1, <2>1, <2>2, <2>3 DEF RunInv
  <1>5. CASE run' = StateOf("commit", {}, run.attempted, run.state, run.old, run.batch,
                            WithState(run.batch, run.state), run.fresh)
    <2> DEFINE writes == WithState(run.batch, run.state)
               last   == Change(StatePath, run.state)
    <2>1. /\ run'.pc = "commit" /\ run'.batch = run.batch /\ run'.state = run.state
          /\ run'.writes = writes /\ Left' = writes /\ filed' = filed /\ Left = run.batch
      BY <1>1, <1>5 DEF StateOf, Left, CommitsNow, Thinks
    <2>2. /\ IsList(run.batch) /\ IsState(run.state)
          /\ \A k \in 1 .. Len(run.batch) :
               IsRunChange(run.batch[k], minted) /\ run.batch[k].path # StatePath
      BY DEF RunInv, ProcessInv, RecordInv, IsBatch
    <2>3. /\ IsList(writes) /\ Len(run.batch) \in Nat /\ Len(writes) = Len(run.batch) + 1
          /\ \A k \in 1 .. Len(run.batch) : k \in 1 .. Len(writes) /\ writes[k] = run.batch[k]
          /\ writes[Len(writes)] = last /\ Len(writes) \in 1 .. Len(writes)
          /\ \A k \in 1 .. Len(writes) : k \in 1 .. Len(run.batch) \/ k = Len(writes)
      <3>1. writes = Append(run.batch, last)
        BY DEF WithState
      <3> HIDE DEF writes, last
      <3>2. IsList(run.batch)
        BY <2>2
      <3>3. Longer(writes, run.batch, last)
        BY <3>1, <3>2, ListGrows
      <3> QED BY <3>3 DEF Longer
    <2>4. last.path = StatePath /\ last.data = run.state /\ \A j : ~ Removes(last, j)
      BY StateIsApart DEF Change, Removes
    <2>5. IsRunChange(last, minted)
      BY <2>2, <2>4 DEF IsRunChange
    <2> HIDE DEF writes, last
    <2>6. IsBatch(writes, minted)
      <3>1. \A k \in 1 .. Len(writes) : IsRunChange(writes[k], minted)
        BY <2>2, <2>3, <2>5
      <3> QED BY <2>3, <3>1 DEF IsBatch
    <2>7. ProcessInv'
      BY <1>1, <1>5, <2>6 DEF RunInv, ProcessInv, StateOf, Looking, Thinks, writes
    <2>8. RecordInv'
      <3>1. \A k \in 1 .. Len(writes) : writes[k].path = StatePath =>
              k = Len(writes) /\ writes[k].data = run.state
        BY <2>2, <2>3, <2>4
      <3>2. ASSUME NEW s \in DOMAIN run.state
            PROVE  \/ <<s, run.state[s]>> \in filed
                   \/ \E k \in 1 .. Len(writes) : Answers(writes[k], s, run.state[s])
        <4>1. \/ <<s, run.state[s]>> \in filed
              \/ \E k \in 1 .. Len(run.batch) : Answers(run.batch[k], s, run.state[s])
          BY <1>1, <2>1, <3>2 DEF RunInv, RecordInv, Looking
        <4> QED BY <2>3, <4>1
      <3> QED BY <1>3, <2>1, <2>2, <3>1, <3>2 DEF RecordInv, Answers, Files
    <2>9. CopyInv'
      <3>1. ASSUME NEW k \in 1 .. Len(writes), NEW j \in ProposalIds, Removes(writes[k], j)
            PROVE  k + 1 \in 1 .. Len(writes) /\ Copies(writes[k + 1], j)
        <4>1. k \in 1 .. Len(run.batch) /\ Removes(run.batch[k], j)
          BY <2>3, <2>4, <3>1
        <4>2. k + 1 \in 1 .. Len(run.batch) /\ Copies(run.batch[k + 1], j)
          BY <2>1, <4>1 DEF RunInv, CopyInv
        <4> QED BY <2>3, <4>2
      <3> QED BY <1>2, <2>1, <3>1 DEF CopyInv, Removes, Copies
    <2> QED BY <1>1, <2>7, <2>8, <2>9 DEF RunInv
  <1> QED BY <1>1, <1>4, <1>5

(* What is left once the first change is done.                                *)
LEMMA OthersAreLeft ==
  ASSUME ProcessInv, run.pc \in {"commit", "written"}, run.writes # << >>,
         run'.pc = "commit", run'.writes = Tail(run.writes)
  PROVE  /\ Left = run.writes /\ Left' = Tail(run.writes)
         /\ IsBatch(run'.writes, minted) /\ Len(Left') = Len(Left) - 1
         /\ Len(Left) \in Nat /\ 1 \in 1 .. Len(Left)
         /\ \A k \in 1 .. Len(Left') :
              k \in Nat /\ k + 1 \in 1 .. Len(Left) /\ Left'[k] = Left[k + 1]
         /\ \A k \in 1 .. Len(Left) :
              k = 1 \/ (k - 1 \in 1 .. Len(Left') /\ Left'[k - 1] = Left[k])
  <1>1. Left = run.writes /\ Left' = Tail(run.writes)
    BY DEF Left, CommitsNow
  <1>2. /\ IsBatch(Tail(run.writes), minted)
        /\ Len(run.writes) \in Nat /\ 1 \in 1 .. Len(run.writes)
        /\ Len(Tail(run.writes)) = Len(run.writes) - 1
        /\ \A k \in 1 .. Len(Tail(run.writes)) :
             k \in Nat /\ k + 1 \in 1 .. Len(run.writes)
             /\ Tail(run.writes)[k] = run.writes[k + 1]
    BY NextRunChange
  <1> DEFINE rest == Tail(run.writes)
  <1>3. \A k \in 1 .. Len(run.writes) :
          k = 1 \/ (k - 1 \in 1 .. Len(rest) /\ rest[k - 1] = run.writes[k])
    <2> SUFFICES ASSUME NEW k \in 1 .. Len(run.writes), k # 1
                 PROVE  k - 1 \in 1 .. Len(rest) /\ rest[k - 1] = run.writes[k]
      OBVIOUS
    <2> HIDE DEF rest
    <2>1. k - 1 \in 1 .. Len(rest) /\ (k - 1) + 1 = k
      BY <1>2 DEF rest
    <2> QED BY <1>2, <2>1 DEF rest
  <1> QED BY <1>1, <1>2, <1>3

(* So the changes that are left still name their copies, and what they have   *)
(* to file.                                                                   *)
LEMMA OthersKeep ==
  ASSUME RunInv, run.pc \in {"commit", "written"}, run.writes # << >>,
         run'.pc = "commit", run'.writes = Tail(run.writes), run'.state = run.state,
         filed \subseteq filed',
         Files(run.writes[1]) =>
           <<run.writes[1].data.target, run.writes[1].data.pin.body>> \in filed'
  PROVE  /\ \A k \in 1 .. Len(Left'), i \in ProposalIds : Removes(Left'[k], i) =>
              k + 1 \in 1 .. Len(Left') /\ Copies(Left'[k + 1], i)
         /\ \A k \in 1 .. Len(run'.writes) : run'.writes[k].path = StatePath =>
              k = Len(run'.writes) /\ run'.writes[k].data = run'.state
         /\ \A s \in DOMAIN run'.state :
              \/ <<s, run'.state[s]>> \in filed'
              \/ \E k \in 1 .. Len(Left') : Answers(Left'[k], s, run'.state[s])
  <1>1. /\ Left = run.writes /\ Left' = Tail(run.writes)
        /\ Len(Left') = Len(Left) - 1
        /\ Len(Left) \in Nat /\ 1 \in 1 .. Len(Left)
        /\ \A k \in 1 .. Len(Left') :
             k \in Nat /\ k + 1 \in 1 .. Len(Left) /\ Left'[k] = Left[k + 1]
        /\ \A k \in 1 .. Len(Left) :
             k = 1 \/ (k - 1 \in 1 .. Len(Left') /\ Left'[k - 1] = Left[k])
    BY OthersAreLeft DEF RunInv
  <1>2. ASSUME NEW k \in 1 .. Len(Left'), NEW i \in ProposalIds, Removes(Left'[k], i)
        PROVE  k + 1 \in 1 .. Len(Left') /\ Copies(Left'[k + 1], i)
    <2>1. k + 1 \in 1 .. Len(Left) /\ Removes(Left[k + 1], i) /\ k \in Nat
      BY <1>1, <1>2
    <2>2. (k + 1) + 1 \in 1 .. Len(Left) /\ Copies(Left[(k + 1) + 1], i)
      BY <2>1 DEF RunInv, CopyInv
    <2>3. k + 1 \in 1 .. Len(Left')
      BY <1>1, <2>1, <2>2
    <2> QED BY <1>1, <2>2, <2>3
  <1>3. ASSUME NEW k \in 1 .. Len(Left'), Left'[k].path = StatePath
        PROVE  k = Len(Left') /\ Left'[k].data = run'.state
    <2>1. k + 1 \in 1 .. Len(Left) /\ Left[k + 1].path = StatePath /\ k \in Nat
      BY <1>1, <1>3
    <2>2. k + 1 = Len(Left) /\ Left[k + 1].data = run.state
      BY <1>1, <2>1 DEF RunInv, RecordInv, CommitsNow
    <2> QED BY <1>1, <2>1, <2>2
  <1>4. ASSUME NEW s \in DOMAIN run.state
        PROVE  \/ <<s, run.state[s]>> \in filed'
               \/ \E k \in 1 .. Len(Left') : Answers(Left'[k], s, run.state[s])
    <2>1. \/ <<s, run.state[s]>> \in filed
          \/ \E k \in 1 .. Len(Left) : Answers(Left[k], s, run.state[s])
      BY <1>4 DEF RunInv, RecordInv, Looking
    <2>2. ASSUME NEW k \in 1 .. Len(Left), Answers(Left[k], s, run.state[s])
          PROVE  \/ <<s, run.state[s]>> \in filed'
                 \/ \E m \in 1 .. Len(Left') : Answers(Left'[m], s, run.state[s])
      <3>1. CASE k = 1
        BY <1>1, <2>2, <3>1 DEF Answers
      <3>2. CASE k # 1
        <4>1. k - 1 \in 1 .. Len(Left') /\ Answers(Left'[k - 1], s, run.state[s])
          BY <1>1, <2>2, <3>2
        <4> QED BY <4>1
      <3> QED BY <3>1, <3>2
    <2> QED BY <2>1, <2>2
  <1> QED BY <1>1, <1>2, <1>3, <1>4, SMTT(30) DEF Removes, Copies, Answers, Files

LEMMA RemoveKeeps ==
  ASSUME RunInv, RunRemove
  PROVE  RunInv'
  <1> DEFINE change == run.writes[1]
             path   == change.path
  <1>1. /\ RequestInv' /\ run.pc = "commit" /\ run.writes # << >>
        /\ change.data = Absent /\ path \in Paths
        /\ run' = StateOf("commit", run.todo, run.attempted, run.state, run.old,
                          run.batch, Tail(run.writes), run.fresh)
        /\ removed' = removed \cup {i \in ProposalIds : path = ReviewPath(i)}
        /\ \A q \in Paths : tree'[q] = IF q = path THEN Absent ELSE tree[q]
        /\ \A q \in Paths : index'[q] \in {index[q], Absent}
        /\ UNCHANGED <<head, minted, faults, filed>>
    BY RunRemoveDoes DEF RunInv
  <1>2. IsRunChange(change, minted) /\ Left = run.writes /\ 1 \in 1 .. Len(Left)
    BY <1>1, NextRunChange DEF RunInv, Left, CommitsNow
  <1> HIDE DEF change
  <1>3. /\ run'.pc = "commit" /\ run'.writes = Tail(run.writes) /\ run'.state = run.state
        /\ run'.batch = run.batch
    BY <1>1 DEF StateOf
  <1>4. /\ \A k \in 1 .. Len(Left'), i \in ProposalIds : Removes(Left'[k], i) =>
              k + 1 \in 1 .. Len(Left') /\ Copies(Left'[k + 1], i)
        /\ \A k \in 1 .. Len(run'.writes) : run'.writes[k].path = StatePath =>
              k = Len(run'.writes) /\ run'.writes[k].data = run'.state
        /\ \A s \in DOMAIN run'.state :
              \/ <<s, run'.state[s]>> \in filed'
              \/ \E k \in 1 .. Len(Left') : Answers(Left'[k], s, run'.state[s])
    <2>1. ~ Files(run.writes[1])
      BY <1>1 DEF Files, change
    <2> QED BY <1>1, <1>3, <2>1, OthersKeep
  <1>5. IsBatch(run'.writes, minted)
    BY <1>1, <1>3, OthersAreLeft DEF RunInv
  <1>6. \A store \in {tree', index', head'} :
          store[StatePath] = Absent \/ store[StatePath] \in {tree[StatePath], index[StatePath], head[StatePath]}
    BY <1>1, StateHasAPath
  <1>7. ProcessInv'
    <2>1. \A store \in {tree', index', head'} :
            store[StatePath] # Absent => IsState(store[StatePath])
      BY <1>6 DEF RunInv, ProcessInv
    <2> QED BY <1>1, <1>3, <1>5, <2>1 DEF RunInv, ProcessInv, StateOf, Looking
  <1>8. RecordInv'
    <2>1. RecordedMeansFiled'
      BY <1>1, <1>6 DEF RunInv, RecordInv, RecordedMeansFiled
    <2>2. (\A k \in 1 .. Len(run.batch) : run.batch[k].path # StatePath)'
      BY <1>3 DEF RunInv, RecordInv
    <2> QED BY <1>3, <1>4, <2>1, <2>2 DEF RecordInv, Answers, Files
  <1>9. CopyInv'
    <2>1. ASSUME NEW i \in removed'
          PROVE  \/ tree'[RejectedPath(i)] # Absent
                 \/ faults' > 0
                 \/ run'.pc = "commit" /\ run'.writes # << >> /\ Copies(run'.writes[1], i)
      <3>0. i \in ProposalIds
        BY <1>1, <2>1 DEF RunInv, ProcessInv
      <3>1. CASE path = ReviewPath(i)
        <4>1. Removes(Left[1], i)
          BY <1>1, <1>2, <3>1 DEF Removes, change
        <4>2. 1 + 1 \in 1 .. Len(Left) /\ Copies(Left[1 + 1], i)
          BY <1>2, <3>0, <4>1 DEF RunInv, CopyInv
        <4>3. /\ Left' = Tail(run.writes) /\ Len(Left) \in Nat
              /\ Len(Left') = Len(Left) - 1
              /\ \A k \in 1 .. Len(Left') : Left'[k] = Left[k + 1]
          BY <1>1, <1>3, OthersAreLeft DEF RunInv
        <4>4. 1 \in 1 .. Len(Left')
          BY <4>2, <4>3, SMTT(30)
        <4>5. Left' # << >> /\ Left'[1] = Left[1 + 1]
          BY <4>3, <4>4, RestIs
        <4>6. run'.writes = Left'
          BY <1>3, <4>3
        <4>7. run'.writes # << >> /\ run'.writes[1] = Left[1 + 1]
          BY <4>5, <4>6
        <4> QED BY <1>3, <4>2, <4>7
      <3>2. CASE path # ReviewPath(i)
        <4>1. i \in removed
          BY <1>1, <2>1, <3>2
        <4>2. ~ Copies(change, i)
          BY <1>1 DEF Copies
        <4>3. tree[RejectedPath(i)] # Absent \/ faults > 0
          BY <4>1, <4>2 DEF RunInv, CopyInv, change
        <4>4. path # RejectedPath(i)
          BY <1>1, <1>2, PathsAreDistinct, StateIsApart DEF IsRunChange, Removes, IsProposal
        <4> QED BY <1>1, <3>0, <4>3, <4>4, PathsAreDistinct
      <3> QED BY <3>1, <3>2
    <2> QED BY <1>4, <2>1 DEF CopyInv, Removes, Copies
  <1> QED BY <1>1, <1>7, <1>8, <1>9 DEF RunInv

(* When the skip state is written, what it speaks of has been filed.          *)
LEMMA WriteKeeps ==
  ASSUME RunInv, RunWrite
  PROVE  RunInv'
  <1> DEFINE change == run.writes[1]
             path   == change.path
             data   == change.data
  <1>1. /\ RequestInv' /\ run.pc = "commit" /\ run.writes # << >>
        /\ data # Absent /\ path \in Paths
        /\ run' = StateOf("written", run.todo, run.attempted, run.state, run.old,
                          run.batch, run.writes, run.fresh)
        /\ filed' = filed \cup {<<data.target, data.pin.body>> :
                                  i \in {j \in ProposalIds : path = ReviewPath(j)}}
        /\ \A q \in Paths : tree'[q] = IF q = path THEN data ELSE tree[q]
        /\ UNCHANGED <<index, head, minted, faults, removed>>
    BY RunWriteDoes DEF RunInv
  <1>2. /\ IsRunChange(change, minted) /\ Left = run.writes /\ 1 \in 1 .. Len(Left)
        /\ minted \subseteq ProposalIds /\ Len(Left) \in Nat
    BY <1>1, NextRunChange DEF RunInv, Left, CommitsNow, RequestInv, TypeOK
  <1> HIDE DEF change
  <1>3. /\ run'.pc = "written" /\ run'.writes = run.writes /\ run'.state = run.state
        /\ run'.batch = run.batch
    BY <1>1 DEF StateOf
  <1>4. Left' = Left
    BY <1>2, <1>3 DEF Left, CommitsNow
  <1>5. /\ path = StatePath => IsState(data)
        /\ Files(change) => data.target \in Slugs /\ data.pin \in Page
    BY <1>1, <1>2, RunChangesSuit
  <1>6. /\ filed \subseteq filed' /\ filed' \subseteq Slugs \X Bodies
        /\ Files(change) => <<data.target, data.pin.body>> \in filed'
    <2>1. CASE Files(change)
      <3>1. filed' = filed \cup {<<data.target, data.pin.body>>}
        BY <1>1, <2>1 DEF Files
      <3>2. data.target \in Slugs /\ data.pin.body \in Bodies
        BY <1>5, <2>1 DEF Page
      <3> QED BY <3>1, <3>2 DEF RunInv, ProcessInv
    <2>2. CASE ~ Files(change)
      <3>1. filed' = filed
        BY <1>1, <2>2 DEF Files
      <3> QED BY <2>2, <3>1 DEF RunInv, ProcessInv
    <2> QED BY <2>1, <2>2
  <1>7. tree'[StatePath] = IF path = StatePath THEN data ELSE tree[StatePath]
    BY <1>1, StateHasAPath
  <1>8. ProcessInv'
    <2>1. \A store \in {tree', index', head'} :
            store[StatePath] # Absent => IsState(store[StatePath])
      BY <1>1, <1>5, <1>7 DEF RunInv, ProcessInv
    <2> QED BY <1>1, <1>3, <1>6, <2>1 DEF RunInv, ProcessInv, StateOf, Looking, change
  <1>9. RecordInv'
    <2>1. ASSUME path = StatePath, NEW s \in DOMAIN run.state
          PROVE  data = run.state /\ <<s, run.state[s]>> \in filed'
      <3>1. 1 = Len(run.writes) /\ data = run.state
        BY <1>1, <1>2, <2>1 DEF RunInv, RecordInv, CommitsNow, change
      <3>2. \/ <<s, run.state[s]>> \in filed
            \/ \E k \in 1 .. Len(Left) : Answers(Left[k], s, run.state[s])
        BY <1>1, <2>1 DEF RunInv, RecordInv, Looking
      <3>3. \A k \in 1 .. Len(Left) : k = 1
        <4>1. Len(Left) = 1
          BY <1>2, <3>1
        <4> QED BY <4>1
      <3>4. ~ Answers(Left[1], s, run.state[s])
        BY <1>2, <2>1, StateIsApart DEF Answers, Files, change
      <3> QED BY <1>6, <3>1, <3>2, <3>3, <3>4
    <2>2. RecordedMeansFiled'
      <3>1. ASSUME path = StatePath, NEW s \in DOMAIN data
            PROVE  <<s, data[s]>> \in filed'
        <4>1. data = run.state
          BY <1>1, <1>2, <3>1 DEF RunInv, RecordInv, CommitsNow, change
        <4> QED BY <2>1, <3>1, <4>1
      <3>2. \A store \in {tree, index, head} :
              store[StatePath] # Absent =>
                \A s \in DOMAIN store[StatePath] : <<s, store[StatePath][s]>> \in filed'
        BY <1>6 DEF RunInv, RecordInv, RecordedMeansFiled
      <3> QED BY <1>1, <1>7, <3>1, <3>2 DEF RecordedMeansFiled
    <2>3. \A s \in DOMAIN run'.state :
            \/ <<s, run'.state[s]>> \in filed'
            \/ \E k \in 1 .. Len(Left') : Answers(Left'[k], s, run'.state[s])
      BY <1>1, <1>3, <1>4, <1>6 DEF RunInv, RecordInv, Looking
    <2>4. \A k \in 1 .. Len(run'.writes) : run'.writes[k].path = StatePath =>
            k = Len(run'.writes) /\ run'.writes[k].data = run'.state
      BY <1>1, <1>3 DEF RunInv, RecordInv, CommitsNow
    <2>5. (\A k \in 1 .. Len(run.batch) : run.batch[k].path # StatePath)'
      BY <1>3 DEF RunInv, RecordInv
    <2>6. (Files(run.writes[1]) =>
             <<run.writes[1].data.target, run.writes[1].data.pin.body>> \in filed)'
      BY <1>3, <1>6 DEF Files, change
    <2> QED BY <2>2, <2>3, <2>4, <2>5, <2>6 DEF RecordInv, Answers, Files
  <1>10. CopyInv'
    <2>1. ASSUME NEW i \in removed'
          PROVE  tree'[RejectedPath(i)] # Absent \/ faults' > 0
      <3>1. i \in removed /\ i \in ProposalIds
        BY <1>1, <2>1 DEF RunInv, ProcessInv
      <3>2. tree[RejectedPath(i)] # Absent \/ faults > 0 \/ path = RejectedPath(i)
        BY <3>1 DEF RunInv, CopyInv, Copies, change
      <3> QED BY <1>1, <3>1, <3>2, PathsAreDistinct
    <2>2. \A k \in 1 .. Len(Left'), i \in ProposalIds : Removes(Left'[k], i) =>
            k + 1 \in 1 .. Len(Left') /\ Copies(Left'[k + 1], i)
      BY <1>4 DEF RunInv, CopyInv
    <2> QED BY <2>1, <2>2 DEF CopyInv, Removes, Copies
  <1> QED BY <1>1, <1>8, <1>9, <1>10 DEF RunInv

LEMMA AddKeeps ==
  ASSUME RunInv, RunAdd
  PROVE  RunInv'
  <1> DEFINE change == run.writes[1]
             path   == change.path
  <1>1. /\ RequestInv' /\ run.pc = "written" /\ run.writes # << >>
        /\ change.data # Absent /\ path \in Paths
        /\ UNCHANGED <<tree, head, minted, faults, filed, removed>>
        /\ \/ /\ run' = StateOf("commit", run.todo, run.attempted, run.state, run.old,
                                run.batch, Tail(run.writes), run.fresh)
              /\ \A q \in Paths : index'[q] = IF q = path THEN tree[q] ELSE index[q]
           \/ tree[path] = Absent /\ run' = Resting /\ UNCHANGED index
    BY RunAddDoes DEF RunInv
  <1> HIDE DEF change
  <1>2. index'[StatePath] \in {tree[StatePath], index[StatePath]}
    BY <1>1, StateHasAPath
  <1>3. RecordedMeansFiled'
    BY <1>1, <1>2 DEF RunInv, RecordInv, RecordedMeansFiled
  <1>4. \A store \in {tree', index', head'} :
          store[StatePath] # Absent => IsState(store[StatePath])
    BY <1>1, <1>2 DEF RunInv, ProcessInv
  <1>5. \A i \in removed' : tree'[RejectedPath(i)] # Absent \/ faults' > 0
    BY <1>1 DEF RunInv, CopyInv
  <1>6. CASE run' = Resting
    <2>1. run' = StateOf("idle", {}, 0, << >>, << >>, << >>, << >>, {})
      BY <1>6, RestIs
    <2>2. ProcessInv'
      BY <1>1, <1>4, <2>1, RestIs DEF RunInv, ProcessInv, StateOf, Looking
    <2>3. RecordInv'
      BY <1>3, <2>1, RestIs DEF RecordInv, StateOf, Looking, CommitsNow
    <2>4. CopyInv'
      BY <1>5, <2>1, RestIs DEF CopyInv, StateOf, Left, CommitsNow
    <2> QED BY <1>1, <2>2, <2>3, <2>4 DEF RunInv
  <1>7. CASE run' = StateOf("commit", run.todo, run.attempted, run.state, run.old,
                            run.batch, Tail(run.writes), run.fresh)
    <2>1. /\ run'.pc = "commit" /\ run'.writes = Tail(run.writes) /\ run'.state = run.state
          /\ run'.batch = run.batch
      BY <1>7 DEF StateOf
    <2>2. /\ \A k \in 1 .. Len(Left'), i \in ProposalIds : Removes(Left'[k], i) =>
                k + 1 \in 1 .. Len(Left') /\ Copies(Left'[k + 1], i)
          /\ \A k \in 1 .. Len(run'.writes) : run'.writes[k].path = StatePath =>
                k = Len(run'.writes) /\ run'.writes[k].data = run'.state
          /\ \A s \in DOMAIN run'.state :
                \/ <<s, run'.state[s]>> \in filed'
                \/ \E k \in 1 .. Len(Left') : Answers(Left'[k], s, run'.state[s])
      <3>1. Files(run.writes[1]) =>
              <<run.writes[1].data.target, run.writes[1].data.pin.body>> \in filed'
        BY <1>1 DEF RunInv, RecordInv
      <3> QED BY <1>1, <2>1, <3>1, OthersKeep
    <2>3. IsBatch(run'.writes, minted)
      BY <1>1, <2>1, OthersAreLeft DEF RunInv
    <2>4. ProcessInv'
      BY <1>1, <1>4, <1>7, <2>1, <2>3 DEF RunInv, ProcessInv, StateOf, Looking
    <2>5. RecordInv'
      <3>1. (\A k \in 1 .. Len(run.batch) : run.batch[k].path # StatePath)'
        BY <2>1 DEF RunInv, RecordInv
      <3> QED BY <1>3, <2>1, <2>2, <3>1 DEF RecordInv, Answers, Files
    <2>6. CopyInv'
      BY <1>5, <2>2 DEF CopyInv, Removes, Copies
    <2> QED BY <1>1, <2>4, <2>5, <2>6 DEF RunInv
  <1> QED BY <1>1, <1>6, <1>7

LEMMA FinishKeeps ==
  ASSUME RunInv, RunFinish
  PROVE  RunInv'
  <1>1. /\ RequestInv' /\ run.pc = "commit" /\ run.writes = << >>
        /\ run' = StateOf("extract", run.todo, run.attempted, run.state, run.old,
                          << >>, run.writes, run.fresh)
        /\ head' = index /\ UNCHANGED <<tree, index, minted, faults, filed, removed>>
    BY RunFinishDoes DEF RunInv
  <1>2. /\ run'.pc = "extract" /\ run'.batch = << >> /\ run'.state = run.state
        /\ Left = << >> /\ Left' = << >>
    BY <1>1 DEF StateOf, Left, CommitsNow
  <1>3. ProcessInv'
    BY <1>1, RestIs DEF RunInv, ProcessInv, StateOf, Looking
  <1>4. RecordInv'
    <2>1. RecordedMeansFiled'
      BY <1>1 DEF RunInv, RecordInv, RecordedMeansFiled
    <2>2. \A s \in DOMAIN run.state : <<s, run.state[s]>> \in filed
      BY <1>1, <1>2, RestIs DEF RunInv, RecordInv, Looking
    <2> QED BY <1>1, <1>2, <2>1, <2>2, RestIs DEF RecordInv, Looking, CommitsNow
  <1>5. CopyInv'
    <2>1. \A i \in removed' : tree'[RejectedPath(i)] # Absent \/ faults' > 0
      BY <1>1 DEF RunInv, CopyInv
    <2> QED BY <1>2, <2>1, RestIs DEF CopyInv
  <1> QED BY <1>1, <1>3, <1>4, <1>5 DEF RunInv

LEMMA RunStepsKeep == RunInv /\ [RunNext]_<<vars, runVars>> => RunInv'
  <1> SUFFICES ASSUME RunInv, [RunNext]_<<vars, runVars>> PROVE RunInv'
    OBVIOUS
  <1>1. CASE Next /\ UNCHANGED runVars     BY <1>1, RunStandsBeside
  <1>2. CASE Start                         BY <1>2, StartKeeps
  <1>3. CASE Scan                          BY <1>3, ScanKeeps
  <1>4. CASE Skip \/ GiveUpOnPage          BY <1>4, PassKeeps
  <1>5. CASE Extract                       BY <1>5, ExtractKeeps
  <1>6. CASE End                           BY <1>6, EndKeeps
  <1>7. CASE RunRemove                     BY <1>7, RemoveKeeps
  <1>8. CASE RunWrite                      BY <1>8, WriteKeeps
  <1>9. CASE RunAdd                        BY <1>9, AddKeeps
  <1>10. CASE RunFinish                    BY <1>10, FinishKeeps
  <1>11. CASE RunDies                      BY <1>11, DeathKeeps
  <1>12. CASE UNCHANGED <<vars, runVars>>
    <2>1. UNCHANGED <<tree, index, head, req, minted, acked, landed, faults, run, filed, removed>>
      BY <1>12 DEF vars, runVars
    <2>2. RequestInv'
      <3>1. minted \subseteq ProposalIds /\ faults \in 0 .. MaxFaults
        BY DEF RunInv, RequestInv, TypeOK
      <3> QED BY <2>1, <3>1, RequestsOnQuietVault DEF RunInv, vault
    <2>3. ProcessInv'
      BY <2>1 DEF RunInv, ProcessInv, Looking
    <2>4. Left' = Left
      BY <2>1 DEF Left, CommitsNow
    <2>5. RecordInv'
      BY <2>1, <2>4
         DEF RunInv, RecordInv, RecordedMeansFiled, Looking, CommitsNow, Answers, Files
    <2>6. CopyInv'
      BY <2>1, <2>4 DEF RunInv, CopyInv, Removes, Copies
    <2> QED BY <2>2, <2>3, <2>5, <2>6 DEF RunInv
  <1> QED BY <1>1, <1>2, <1>3, <1>4, <1>5, <1>6, <1>7, <1>8, <1>9, <1>10, <1>11, <1>12
          DEF RunNext, RunStep

LEMMA RunHolds == RunSpec => []RunInv
  <1>1. RunInit => RunInv
    BY RunStarts
  <1>2. RunInv /\ [RunNext]_<<vars, runVars>> => RunInv'
    BY RunStepsKeep
  <1> QED BY <1>1, <1>2, PTL DEF RunSpec

(* RunTypeOK: the vault, the requests, the run and the skip state have their  *)
(* shapes, whatever requests, crashes and failed calls come between.          *)
THEOREM RunTypesHold == RunSpec => []RunTypeOK
  <1>1. RunInv => RunTypeOK
    BY DEF RunInv, RequestInv, ProcessInv, IsState, RunTypeOK
  <1> QED BY <1>1, RunHolds, PTL

(* RecordedMeansFiled: in the working tree, in the index and at HEAD alike,   *)
(* the skip state passes over no page but one whose body had its proposal     *)
(* written first (WithRecorded, and the order of commitBatch).                *)
THEOREM SkipsAreFiled == RunSpec => []RecordedMeansFiled
  <1>1. RunInv => RecordedMeansFiled
    BY DEF RunInv, RecordInv
  <1> QED BY <1>1, RunHolds, PTL

(* SupersededKeepsACopy: while no call fails and nothing is killed, what a    *)
(* run took out of review/ has its copy in review/.rejected when the run is   *)
(* over, whatever requests were at work beside it (supersede).                *)
THEOREM CopiesAreKept == RunSpec => []SupersededKeepsACopy
  <1>1. RunInv => SupersededKeepsACopy
    BY DEF RunInv, CopyInv, SupersededKeepsACopy
  <1> QED BY <1>1, RunHolds, PTL

------------------------------------------------------------------------------
(* A run by itself leaves one proposal of each page.                          *)

RunsByItself == Handlers = {} /\ LegacyOnePerTarget

\* While nothing failed.
AloneSoFar == faults = 0 => AloneInv

\* Nothing is pending that was not, and what is was not about to go.
NoMorePend(files, list, then, rest) ==
  \A i \in ProposalIds : then[ReviewPath(i)] # Absent =>
    then[ReviewPath(i)] = files[ReviewPath(i)] /\ (Leaves(list, i) => Leaves(rest, i))

LEMMA OneStillStays ==
  ASSUME NEW files, NEW list, NEW then, NEW rest,
         NoMorePend(files, list, then, rest), OneStays(files, list)
  PROVE  OneStays(then, rest)
  BY DEF NoMorePend, OneStays, Pends

LEMMA FilesStillAlone ==
  ASSUME NEW files, NEW list, NEW todo, NEW then, NEW rest, NEW later, NEW d \in {0, 1},
         NoMorePend(files, list, then, rest), FilesStandAlone(files, list, todo),
         later \subseteq todo,
         \A k \in 1 .. Len(rest) : Files(rest[k]) =>
           k \in Nat /\ k + d \in 1 .. Len(list) /\ rest[k] = list[k + d]
  PROVE  FilesStandAlone(then, rest, later)
  <1> SUFFICES ASSUME NEW k \in 1 .. Len(rest), Files(rest[k])
               PROVE  /\ \A m \in 1 .. Len(rest) :
                           Files(rest[m]) /\ rest[m].data.target = rest[k].data.target => m = k
                      /\ \A c \in later : c.slug # rest[k].data.target
                      /\ \A j \in ProposalIds :
                           Pends(then, j, rest[k].data.target) =>
                             rest[k].path = ReviewPath(j) \/ Leaves(rest, j)
    BY DEF FilesStandAlone
  <1>1. k \in Nat /\ k + d \in 1 .. Len(list) /\ rest[k] = list[k + d] /\ Files(list[k + d])
    OBVIOUS
  <1>2. /\ \A m \in 1 .. Len(list) :
             Files(list[m]) /\ list[m].data.target = rest[k].data.target => m = k + d
        /\ \A c \in todo : c.slug # rest[k].data.target
        /\ \A j \in ProposalIds :
             Pends(files, j, rest[k].data.target) =>
               rest[k].path = ReviewPath(j) \/ Leaves(list, j)
    BY <1>1 DEF FilesStandAlone
  <1>3. ASSUME NEW m \in 1 .. Len(rest), Files(rest[m]), rest[m].data.target = rest[k].data.target
        PROVE  m = k
    <2>1. m \in Nat /\ m + d \in 1 .. Len(list) /\ rest[m] = list[m + d]
      BY <1>3
    <2>2. m + d = k + d
      BY <1>2, <1>3, <2>1
    <2> QED BY <1>1, <2>1, <2>2
  <1>4. ASSUME NEW j \in ProposalIds, Pends(then, j, rest[k].data.target)
        PROVE  rest[k].path = ReviewPath(j) \/ Leaves(rest, j)
    <2>1. Pends(files, j, rest[k].data.target) /\ (Leaves(list, j) => Leaves(rest, j))
      BY <1>4 DEF NoMorePend, Pends
    <2> QED BY <1>2, <2>1
  <1> QED BY <1>2, <1>3, <1>4

LEMMA StillForeseen ==
  ASSUME NEW files, NEW todo, NEW old, NEW then, NEW later, NEW others, NEW list, NEW rest,
         NoMorePend(files, list, then, rest), Foreseen(files, todo, old),
         later \subseteq todo,
         \A c \in later : c.slug \in DOMAIN old =>
           c.slug \in DOMAIN others /\ others[c.slug] = old[c.slug]
  PROVE  Foreseen(then, later, others)
  BY DEF NoMorePend, Foreseen, Pends

LEMMA NothingLeft ==
  ASSUME NEW files, NEW todo
  PROVE  FilesStandAlone(files, << >>, todo) /\ \A i : ~ Leaves(<< >>, i)
  BY RestIs DEF FilesStandAlone, Leaves

LEMMA AloneAtFirst ==
  ASSUME RunInit, RunsByItself
  PROVE  AloneInv
  <1>1. run = StateOf("idle", {}, 0, << >>, << >>, << >>, << >>, {})
    BY RestIs DEF RunInit
  <1>2. Left = << >> /\ Looking /\ run.pc # "written"
    BY <1>1 DEF StateOf, Left, CommitsNow, Looking
  <1>3. ASSUME NEW i \in ProposalIds, tree[ReviewPath(i)] # Absent
        PROVE  i \in DOMAIN Legacy /\ tree[ReviewPath(i)] = Legacy[i]
    <2>1. i \in minted
      BY <1>3, RunStarts DEF RunInv, RequestInv, Pending, PendingIds
    <2>2. i \in DOMAIN Legacy
      BY <2>1 DEF RunInit, Init
    <2>3. ReviewPath(i) \in Paths /\ ReviewPath(i)[1] = "review" /\ ReviewPath(i)[2] = i
      BY PathsAreDistinct DEF ReviewPath
    <2>4. tree[ReviewPath(i)] = Legacy[i]
      BY <2>2, <2>3 DEF RunInit, Init
    <2> QED BY <2>2, <2>4
  <1>4. OneStays(tree, Left)
    BY <1>3 DEF RunsByItself, LegacyOnePerTarget, OneStays, Pends
  <1> QED BY <1>2, <1>4, NothingLeft DEF AloneInv

LEMMA AloneBeside ==
  ASSUME RunInv, AloneSoFar, RunsByItself, Next, UNCHANGED runVars
  PROVE  AloneSoFar'
  <1>1. Crash \/ OwnerSavesPage
    BY DEF RunsByItself, Next
  <1>2. UNCHANGED <<run, filed, removed>>
    BY DEF runVars
  <1>3. CASE Crash
    BY <1>3, FaultsAreCounted DEF Crash, Fault, RunInv, RequestInv, TypeOK, AloneSoFar
  <1>4. CASE OwnerSavesPage
    <2>1. PICK slug \in Slugs :
            /\ \E page \in Page : SaveInEditor(PagePath(slug), page)
            /\ faults' = faults
      BY <1>4 DEF OwnerSavesPage
    <2>2. PICK page \in Page : tree' = [tree EXCEPT ![PagePath(slug)] = page]
      BY <2>1 DEF SaveInEditor
    <2>3. PagePath(slug) \in Paths /\ WellFormed(tree) /\ page # Absent
      BY PathsAreDistinct, TypesAre, AbsentIsNoFile DEF RunInv, RequestInv
    <2>4. \A q \in Paths : tree'[q] = IF q = PagePath(slug) THEN page ELSE tree[q]
      BY <2>2, <2>3, OnePathWritten DEF WellFormed
    <2>5. Left' = Left /\ Looking' = Looking
      BY <1>2 DEF Left, CommitsNow, Looking
    <2>6. run.pc = "written" => run.writes[1].path \in Paths
      <3> SUFFICES ASSUME run.pc = "written" PROVE run.writes[1].path \in Paths
        OBVIOUS
      <3>1. IsRunChange(run.writes[1], minted) /\ minted \subseteq ProposalIds
        BY NextRunChange DEF RunInv, ProcessInv, RequestInv, TypeOK
      <3> QED BY <3>1, RunChangesSuit
    <2>7. NoMorePend(tree, Left, tree', Left')
      BY <2>4, <2>5, PathsAreDistinct DEF NoMorePend
    <2>8. ASSUME AloneInv PROVE AloneInv'
      <3>1. OneStays(tree', Left')
        BY <2>7, <2>8, OneStillStays DEF AloneInv
      <3>2. FilesStandAlone(tree', Left', run.todo)
        <4>1. \A k \in 1 .. Len(Left') :
                k \in Nat /\ k + 0 \in 1 .. Len(Left) /\ Left'[k] = Left[k + 0]
          BY <2>5
        <4> QED BY <2>7, <2>8, <4>1, FilesStillAlone DEF AloneInv
      <3>3. ~ Looking => Foreseen(tree', run.todo, run.old)
        BY <2>7, <2>8, StillForeseen DEF AloneInv
      <3>4. run.pc = "written" => tree'[run.writes[1].path] # Absent
        BY <2>3, <2>4, <2>6, <2>8 DEF AloneInv
      <3> QED BY <1>2, <2>5, <3>1, <3>2, <3>3, <3>4 DEF AloneInv
    <2> QED BY <2>1, <2>8 DEF AloneSoFar
  <1> QED BY <1>1, <1>3, <1>4

(* Steps that leave the inbox alone and take nothing up.                      *)
LEMMA AloneOnQuietVault ==
  ASSUME AloneInv, UNCHANGED tree, run'.pc \in {"idle", "scan", "extract", "commit"},
         Left' = Left, run'.todo \subseteq run.todo,
         ~ Looking' => ~ Looking /\ run'.old = run.old
  PROVE  AloneInv'
  <1>1. NoMorePend(tree, Left, tree', Left')
    BY DEF NoMorePend
  <1>2. OneStays(tree', Left')
    BY <1>1, OneStillStays DEF AloneInv
  <1>3. FilesStandAlone(tree', Left', run'.todo)
    <2>1. \A k \in 1 .. Len(Left') :
            k \in Nat /\ k + 0 \in 1 .. Len(Left) /\ Left'[k] = Left[k + 0]
      OBVIOUS
    <2> QED BY <1>1, <2>1, FilesStillAlone DEF AloneInv
  <1>4. ~ Looking' => Foreseen(tree', run'.todo, run'.old)
    BY <1>1, StillForeseen DEF AloneInv
  <1> QED BY <1>2, <1>3, <1>4 DEF AloneInv

(* With nothing left to do, the pages may be taken up anew.                   *)
LEMMA AloneAnew ==
  ASSUME AloneInv, UNCHANGED tree, Left = << >>, Left' = << >>, run'.pc # "written",
         ~ Looking' => Foreseen(tree, run'.todo, run'.old)
  PROVE  AloneInv'
  BY NothingLeft DEF AloneInv

LEMMA AloneStart ==
  ASSUME RunInv, AloneInv, Start
  PROVE  AloneInv'
  <1>1. /\ Thinks /\ run.pc = "idle"
        /\ \E todo \in SUBSET Candidates :
             run' = StateOf("scan", todo, 0, << >>, << >>, << >>, << >>, {})
    BY StartDoes DEF RunInv
  <1>2. run'.pc = "scan"
    BY <1>1 DEF StateOf
  <1> QED BY <1>1, <1>2, AloneAnew DEF Thinks, Left, CommitsNow, Looking

(* The run finds what is pending, and at most one proposal for each page.     *)
LEMMA AloneScan ==
  ASSUME RunInv, AloneInv, Scan
  PROVE  AloneInv'
  <1>1. /\ Thinks /\ run.pc = "scan"
        /\ \E state, old :
              /\ \A s \in Slugs : PendingFor(s) # {} =>
                   s \in DOMAIN old /\ old[s].id \in PendingFor(s)
              /\ run' = StateOf("extract", run.todo, run.attempted, state, old,
                                run.batch, run.writes, run.fresh)
    BY ScanDoes DEF RunInv
  <1>2. PICK state, old :
              /\ \A s \in Slugs : PendingFor(s) # {} =>
                   s \in DOMAIN old /\ old[s].id \in PendingFor(s)
              /\ run' = StateOf("extract", run.todo, run.attempted, state, old,
                                run.batch, run.writes, run.fresh)
    BY <1>1
  <1>3. /\ run'.pc = "extract" /\ run'.todo = run.todo /\ run'.old = old
        /\ run.batch = << >> /\ run'.batch = << >>
    BY <1>1, <1>2 DEF StateOf, RunInv, ProcessInv, Looking
  <1>4. Left = << >> /\ Left' = << >>
    BY <1>1, <1>3 DEF Left, CommitsNow
  <1>5. Foreseen(tree, run.todo, old)
    <2> SUFFICES ASSUME NEW c \in run.todo, NEW j \in ProposalIds, Pends(tree, j, c.slug)
                 PROVE  c.slug \in DOMAIN old /\ old[c.slug].id = j
      BY DEF Foreseen
    <2>1. c.slug \in Slugs /\ j \in PendingFor(c.slug)
      BY DEF RunInv, ProcessInv, Candidates, Pends, PendingFor, Pending
    <2>2. c.slug \in DOMAIN old /\ old[c.slug].id \in PendingFor(c.slug)
      BY <1>2, <2>1
    <2>3. old[c.slug].id \in ProposalIds /\ Pends(tree, old[c.slug].id, c.slug)
      BY <2>2 DEF PendingFor, Pending, Pends
    <2>4. OneStays(tree, << >>)
      BY <1>4 DEF AloneInv
    <2> QED BY <2>2, <2>3, <2>4, NothingLeft DEF OneStays, Pends
  <1> QED BY <1>1, <1>3, <1>4, <1>5, AloneAnew DEF Thinks

LEMMA AlonePass ==
  ASSUME RunInv, AloneInv, Skip \/ GiveUpOnPage
  PROVE  AloneInv'
  <1>1. /\ Thinks /\ run.pc = "extract"
        /\ \E c \in run.todo : \E attempted :
              run' = StateOf("extract", run.todo \ {c}, attempted, run.state, run.old,
                             run.batch, run.writes, run.fresh)
    BY PassDoes DEF RunInv
  <1>2. /\ run'.pc = "extract" /\ run'.todo \subseteq run.todo /\ run'.batch = run.batch
        /\ run'.old = run.old
    BY <1>1 DEF StateOf
  <1> QED BY <1>1, <1>2, AloneOnQuietVault DEF Thinks, Left, CommitsNow, Looking

(* The proposal the run is about to add to a page comes with the removal of   *)
(* the one it found there.                                                    *)
LEMMA AloneExtract ==
  ASSUME RunInv, AloneInv, Extract
  PROVE  AloneInv'
  <1>1. PICK c \in run.todo, i \in ProposalIds : \E q : Extracted(c, i, q)
    BY ExtractLeaves DEF RunInv
  <1>2. PICK p : Extracted(c, i, p)
    BY <1>1
  <1> DEFINE filing  == Change(ReviewPath(i), p)
             leaving == c.slug \in DOMAIN run.old
             old     == run.old[c.slug]
             noted   == WithRecorded(run.state, c)
             n       == Len(run.batch)
             ToRemove == Supersede(old)[1]
             ToCopy   == Supersede(old)[2]
             later    == [s \in DOMAIN run.old \ {c.slug} |-> run.old[s]]
  <1>3. /\ Answers(filing, c.slug, c.page.body)
        /\ ~ Files(Change(StatePath, noted))
        /\ Left = run.batch
    BY <1>2, WhatExtractAdds
  <1>4. leaving =>
          /\ old.id \in ProposalIds
          /\ \A j \in ProposalIds : Removes(ToRemove, j) <=> j = old.id
          /\ ~ Files(ToRemove) /\ ~ Files(ToCopy)
    BY <1>2, WhatExtractAdds
  <1>5. /\ run.pc = "extract" /\ UNCHANGED tree /\ run'.pc \in {"extract", "commit"}
        /\ run'.todo = run.todo \ {c} /\ run'.old = later
    BY <1>2 DEF Extracted, StateOf
  <1>6. /\ n \in Nat
        /\ \A k \in 1 .. n : k \in 1 .. Len(Left') /\ Left'[k] = Left[k]
        /\ n + 1 \in 1 .. Len(Left') /\ Left'[n + 1] = filing
        /\ leaving => n + 2 \in 1 .. Len(Left') /\ Left'[n + 2] = ToRemove
    BY <1>2 DEF Extracted
  <1>7. \A k \in 1 .. Len(Left') :
          \/ k \in 1 .. n \/ k = n + 1
          \/ leaving /\ (k = n + 2 \/ k = n + 3)
          \/ Left'[k] = Change(StatePath, noted)
    BY <1>2 DEF Extracted
  <1>8. leaving => n + 3 \in 1 .. Len(Left') /\ Left'[n + 3] = ToCopy
    BY <1>2 DEF Extracted
  <1>9. n = Len(Left)
    BY <1>3
  <1> HIDE DEF filing, leaving, old, noted, n, ToRemove, ToCopy
  <1>10. \A k \in 1 .. Len(Left') : Files(Left'[k]) => k \in 1 .. n \/ k = n + 1
    BY <1>3, <1>4, <1>6, <1>7, <1>8
  <1>11. \A j \in ProposalIds : Leaves(Left, j) => Leaves(Left', j)
    BY <1>6, <1>9 DEF Leaves
  <1>12. NoMorePend(tree, Left, tree', Left')
    BY <1>5, <1>11 DEF NoMorePend
  <1>13. OneStays(tree', Left')
    BY <1>12, OneStillStays DEF AloneInv
  <1>14. Files(filing) /\ filing.data.target = c.slug
    BY <1>3 DEF Answers
  <1>15. FilesStandAlone(tree', Left', run'.todo)
    <2> SUFFICES ASSUME NEW k \in 1 .. Len(Left'), Files(Left'[k])
                 PROVE  /\ \A m \in 1 .. Len(Left') :
                             Files(Left'[m]) /\ Left'[m].data.target = Left'[k].data.target => m = k
                        /\ \A d \in run'.todo : d.slug # Left'[k].data.target
                        /\ \A j \in ProposalIds :
                             Pends(tree', j, Left'[k].data.target) =>
                               Left'[k].path = ReviewPath(j) \/ Leaves(Left', j)
      BY DEF FilesStandAlone
    <2>1. ASSUME NEW m \in 1 .. n, Files(Left'[m])
          PROVE  /\ m \in 1 .. Len(Left) /\ Files(Left[m]) /\ Left'[m] = Left[m]
                 /\ Left'[m].data.target # c.slug
      BY <1>6, <1>9, <2>1 DEF AloneInv, FilesStandAlone
    <2>2. CASE k \in 1 .. n
      <3>1. /\ k \in 1 .. Len(Left) /\ Files(Left[k]) /\ Left'[k] = Left[k]
            /\ Left'[k].data.target # c.slug
        BY <2>1, <2>2
      <3>2. /\ \A m \in 1 .. Len(Left) :
                 Files(Left[m]) /\ Left[m].data.target = Left[k].data.target => m = k
            /\ \A d \in run.todo : d.slug # Left[k].data.target
            /\ \A j \in ProposalIds :
                 Pends(tree, j, Left[k].data.target) =>
                   Left[k].path = ReviewPath(j) \/ Leaves(Left, j)
        BY <3>1 DEF AloneInv, FilesStandAlone
      <3>3. ASSUME NEW m \in 1 .. Len(Left'), Files(Left'[m]),
                   Left'[m].data.target = Left'[k].data.target
            PROVE  m = k
        <4>1. m # n + 1
          BY <1>6, <1>14, <3>1, <3>3
        <4>2. m \in 1 .. n
          BY <1>10, <3>3, <4>1
        <4> QED BY <2>1, <3>1, <3>2, <3>3, <4>2
      <3> QED BY <1>5, <1>11, <3>1, <3>2, <3>3
    <2>3. CASE k = n + 1
      <3>1. Left'[k].data.target = c.slug
        BY <1>6, <1>14, <2>3
      <3>2. ASSUME NEW m \in 1 .. Len(Left'), Files(Left'[m]),
                   Left'[m].data.target = Left'[k].data.target
            PROVE  m = k
        BY <1>10, <2>1, <2>3, <3>1, <3>2
      <3>3. \A d \in run'.todo : d.slug # c.slug
        BY <1>5 DEF RunInv, ProcessInv
      <3>4. ASSUME NEW j \in ProposalIds, Pends(tree', j, c.slug)
            PROVE  Leaves(Left', j)
        <4>1. c.slug \in DOMAIN run.old /\ run.old[c.slug].id = j
          BY <1>5, <3>4 DEF AloneInv, Looking, Foreseen
        <4>2. n + 2 \in 1 .. Len(Left') /\ Removes(Left'[n + 2], j)
          BY <1>4, <1>6, <4>1 DEF leaving, old
        <4> QED BY <4>2 DEF Leaves
      <3> QED BY <3>1, <3>2, <3>3, <3>4
    <2> QED BY <1>10, <2>2, <2>3
  <1>16. Foreseen(tree', run'.todo, run'.old)
    <2>1. \A d \in run'.todo : d \in run.todo /\ d.slug # c.slug
      BY <1>5 DEF RunInv, ProcessInv
    <2>2. \A d \in run'.todo : d.slug \in DOMAIN run.old =>
            d.slug \in DOMAIN run'.old /\ run'.old[d.slug] = run.old[d.slug]
      BY <1>5, <2>1
    <2>3. Foreseen(tree, run.todo, run.old)
      BY <1>5 DEF AloneInv, Looking
    <2>4. run'.todo \subseteq run.todo
      BY <2>1
    <2> HIDE DEF later
    <2> QED BY <1>12, <2>2, <2>3, <2>4, StillForeseen
  <1> QED BY <1>5, <1>13, <1>15, <1>16 DEF AloneInv

LEMMA AloneEnd ==
  ASSUME RunInv, AloneInv, End
  PROVE  AloneInv'
  <1>1. /\ Thinks /\ run.pc = "extract"
        /\ \/ /\ run.batch = << >>
              /\ run' = StateOf("idle", {}, 0, << >>, << >>, << >>, << >>, run.fresh)
           \/ run' = StateOf("commit", {}, run.attempted, run.state, run.old, run.batch,
                             WithState(run.batch, run.state), run.fresh)
    BY EndDoes DEF RunInv
  <1>2. Left = run.batch
    BY <1>1 DEF Left, CommitsNow
  <1>3. CASE /\ run.batch = << >>
             /\ run' = StateOf("idle", {}, 0, << >>, << >>, << >>, << >>, run.fresh)
    <2>1. run'.pc = "idle" /\ Left' = << >>
      BY <1>3 DEF StateOf, Left, CommitsNow
    <2> QED BY <1>1, <1>2, <1>3, <2>1, AloneAnew DEF Thinks, Looking
  <1>4. CASE run' = StateOf("commit", {}, run.attempted, run.state, run.old, run.batch,
                            WithState(run.batch, run.state), run.fresh)
    <2> DEFINE last == Change(StatePath, run.state)
    <2>1. /\ run'.pc = "commit" /\ run'.todo = {} /\ run'.old = run.old
          /\ Left' = Append(run.batch, last) /\ UNCHANGED tree
      BY <1>1, <1>4 DEF StateOf, Left, CommitsNow, Thinks, WithState
    <2>2. ~ Files(last)
      BY StateIsApart DEF Files, Change
    <2> HIDE DEF last
    <2>3. Longer(Left', Left, last)
      BY <1>2, <2>1, ListGrows DEF RunInv, ProcessInv, IsBatch
    <2>4. /\ Len(Left) \in Nat
          /\ \A k \in 1 .. Len(Left) : k \in 1 .. Len(Left') /\ Left'[k] = Left[k]
          /\ \A k \in 1 .. Len(Left') : Files(Left'[k]) =>
               k \in Nat /\ k + 0 \in 1 .. Len(Left) /\ Left'[k] = Left[k + 0]
      BY <2>2, <2>3 DEF Longer
    <2>5. NoMorePend(tree, Left, tree', Left')
      BY <2>1, <2>4 DEF NoMorePend, Leaves
    <2>6. OneStays(tree', Left')
      BY <2>5, OneStillStays DEF AloneInv
    <2>7. FilesStandAlone(tree', Left', run'.todo)
      <3>1. run'.todo \subseteq run.todo
        BY <2>1
      <3> QED BY <2>4, <2>5, <3>1, FilesStillAlone DEF AloneInv
    <2>8. Foreseen(tree', run'.todo, run'.old)
      BY <2>1 DEF Foreseen
    <2> QED BY <2>1, <2>6, <2>7, <2>8 DEF AloneInv
  <1> QED BY <1>1, <1>3, <1>4

LEMMA AloneRemove ==
  ASSUME RunInv, AloneInv, RunRemove
  PROVE  AloneInv'
  <1> DEFINE path == run.writes[1].path
  <1>1. /\ run.pc = "commit" /\ run.writes # << >> /\ run.writes[1].data = Absent
        /\ run' = StateOf("commit", run.todo, run.attempted, run.state, run.old,
                          run.batch, Tail(run.writes), run.fresh)
        /\ \A q \in Paths : tree'[q] = IF q = path THEN Absent ELSE tree[q]
    BY RunRemoveDoes DEF RunInv
  <1>2. /\ run'.pc = "commit" /\ run'.todo = run.todo /\ run'.old = run.old
        /\ run'.writes = Tail(run.writes)
    BY <1>1 DEF StateOf
  <1>3. /\ Left = run.writes /\ Len(Left) \in Nat /\ Len(Left') = Len(Left) - 1
        /\ \A k \in 1 .. Len(Left') :
             k \in Nat /\ k + 1 \in 1 .. Len(Left) /\ Left'[k] = Left[k + 1]
        /\ \A k \in 1 .. Len(Left) :
             k = 1 \/ (k - 1 \in 1 .. Len(Left') /\ Left'[k - 1] = Left[k])
    BY <1>1, <1>2, OthersAreLeft DEF RunInv
  <1> HIDE DEF path
  <1>4. ASSUME NEW i \in ProposalIds, tree'[ReviewPath(i)] # Absent
        PROVE  /\ tree'[ReviewPath(i)] = tree[ReviewPath(i)]
               /\ Leaves(Left, i) => Leaves(Left', i)
    <2>1. path # ReviewPath(i) /\ tree'[ReviewPath(i)] = tree[ReviewPath(i)]
      BY <1>1, <1>4, PathsAreDistinct
    <2>2. ASSUME NEW k \in 1 .. Len(Left), Removes(Left[k], i)
          PROVE  Leaves(Left', i)
      <3>1. k # 1
        BY <1>3, <2>1, <2>2 DEF Removes, path
      <3> QED BY <1>3, <2>2, <3>1 DEF Leaves
    <2> QED BY <2>1, <2>2 DEF Leaves
  <1>5. NoMorePend(tree, Left, tree', Left')
    BY <1>4 DEF NoMorePend
  <1>6. OneStays(tree', Left')
    BY <1>5, OneStillStays DEF AloneInv
  <1>7. FilesStandAlone(tree', Left', run'.todo)
    BY <1>2, <1>3, <1>5, FilesStillAlone DEF AloneInv
  <1>8. Foreseen(tree', run'.todo, run'.old)
    BY <1>1, <1>2, <1>5, StillForeseen DEF AloneInv, Looking
  <1> QED BY <1>2, <1>6, <1>7, <1>8 DEF AloneInv

(* A proposal that is filed: what was pending for its page is about to go.    *)
LEMMA AloneWrite ==
  ASSUME RunInv, AloneInv, RunWrite
  PROVE  AloneInv'
  <1> DEFINE change == run.writes[1]
             path   == change.path
             data   == change.data
  <1>1. /\ run.pc = "commit" /\ run.writes # << >> /\ data # Absent /\ path \in Paths
        /\ run' = StateOf("written", run.todo, run.attempted, run.state, run.old,
                          run.batch, run.writes, run.fresh)
        /\ \A q \in Paths : tree'[q] = IF q = path THEN data ELSE tree[q]
    BY RunWriteDoes DEF RunInv
  <1>2. /\ run'.pc = "written" /\ run'.todo = run.todo /\ run'.old = run.old
        /\ run'.writes = run.writes
    BY <1>1 DEF StateOf
  <1>3. Left' = Left /\ 1 \in 1 .. Len(Left) /\ Left[1] = change
    BY <1>1, <1>2, NextRunChange DEF RunInv, Left, CommitsNow
  <1>4. tree'[run'.writes[1].path] # Absent
    BY <1>1, <1>2
  <1> HIDE DEF change
  <1>5. CASE Files(change)
    <2>1. PICK n \in ProposalIds : path = ReviewPath(n)
      BY <1>5 DEF Files
    <2>2. \A j \in ProposalIds :
            tree'[ReviewPath(j)] = IF j = n THEN data ELSE tree[ReviewPath(j)]
      BY <1>1, <2>1, PathsAreDistinct
    <2>3. /\ \A m \in 1 .. Len(Left) :
               Files(Left[m]) /\ Left[m].data.target = data.target => m = 1
          /\ \A c \in run.todo : c.slug # data.target
          /\ \A j \in ProposalIds : Pends(tree, j, data.target) => j = n \/ Leaves(Left, j)
      BY <1>3, <1>5, <2>1, PathsAreDistinct DEF AloneInv, FilesStandAlone
    <2>4. \A j \in ProposalIds : \A s :
            Pends(tree', j, s) => IF j = n THEN s = data.target ELSE Pends(tree, j, s)
      BY <2>2 DEF Pends
    <2>5. OneStays(tree', Left')
      <3> SUFFICES ASSUME NEW i \in ProposalIds, NEW j \in ProposalIds,
                          i # j, tree'[ReviewPath(i)] # Absent,
                          Pends(tree', j, tree'[ReviewPath(i)].target)
                   PROVE  Leaves(Left, i) \/ Leaves(Left, j)
        BY <1>3 DEF OneStays
      <3>1. CASE i = n
        BY <2>2, <2>3, <2>4, <3>1
      <3>2. CASE j = n
        <4>1. Pends(tree, i, data.target)
          BY <2>2, <2>4, <3>2 DEF Pends
        <4> QED BY <2>3, <3>2, <4>1
      <3>3. CASE i # n /\ j # n
        BY <2>2, <3>3 DEF Pends, AloneInv, OneStays
      <3> QED BY <3>1, <3>2, <3>3
    <2>6. FilesStandAlone(tree', Left', run'.todo)
      <3> SUFFICES ASSUME NEW k \in 1 .. Len(Left), Files(Left[k]), NEW j \in ProposalIds,
                          Pends(tree', j, Left[k].data.target)
                   PROVE  Left[k].path = ReviewPath(j) \/ Leaves(Left, j)
        BY <1>2, <1>3 DEF AloneInv, FilesStandAlone
      <3>1. CASE j = n
        <4>1. k = 1
          BY <2>3, <2>4, <3>1
        <4> QED BY <1>3, <2>1, <3>1, <4>1
      <3>2. CASE j # n
        BY <2>4, <3>2 DEF AloneInv, FilesStandAlone
      <3> QED BY <3>1, <3>2
    <2>7. Foreseen(tree', run'.todo, run'.old)
      <3> SUFFICES ASSUME NEW c \in run.todo, NEW j \in ProposalIds, Pends(tree', j, c.slug)
                   PROVE  c.slug \in DOMAIN run.old /\ run.old[c.slug].id = j
        BY <1>2 DEF Foreseen
      <3>1. j # n
        BY <2>3, <2>4
      <3> QED BY <1>1, <2>4, <3>1 DEF AloneInv, Looking, Foreseen
    <2> QED BY <1>4, <2>5, <2>6, <2>7 DEF AloneInv
  <1>6. CASE ~ Files(change)
    <2>1. \A i \in ProposalIds : tree'[ReviewPath(i)] = tree[ReviewPath(i)]
      BY <1>1, <1>6, PathsAreDistinct DEF Files
    <2>2. NoMorePend(tree, Left, tree', Left')
      BY <1>3, <2>1 DEF NoMorePend
    <2>3. OneStays(tree', Left')
      BY <2>2, OneStillStays DEF AloneInv
    <2>4. FilesStandAlone(tree', Left', run'.todo)
      <3>1. \A k \in 1 .. Len(Left') :
              k \in Nat /\ k + 0 \in 1 .. Len(Left) /\ Left'[k] = Left[k + 0]
        BY <1>3
      <3> QED BY <1>2, <2>2, <3>1, FilesStillAlone DEF AloneInv
    <2>5. Foreseen(tree', run'.todo, run'.old)
      BY <1>1, <1>2, <2>2, StillForeseen DEF AloneInv, Looking
    <2> QED BY <1>4, <2>3, <2>4, <2>5 DEF AloneInv
  <1> QED BY <1>5, <1>6

(* The file just written is there to be staged.                               *)
LEMMA AloneAdd ==
  ASSUME RunInv, AloneInv, RunAdd
  PROVE  AloneInv'
  <1>1. /\ run.pc = "written" /\ run.writes # << >> /\ run.writes[1].data # Absent
        /\ UNCHANGED tree
        /\ \/ run' = StateOf("commit", run.todo, run.attempted, run.state, run.old,
                             run.batch, Tail(run.writes), run.fresh)
           \/ tree[run.writes[1].path] = Absent
    BY RunAddDoes DEF RunInv
  <1>2. run' = StateOf("commit", run.todo, run.attempted, run.state, run.old,
                       run.batch, Tail(run.writes), run.fresh)
    BY <1>1 DEF AloneInv
  <1>3. /\ run'.pc = "commit" /\ run'.todo = run.todo /\ run'.old = run.old
        /\ run'.writes = Tail(run.writes)
    BY <1>2 DEF StateOf
  <1>4. /\ Left = run.writes /\ Len(Left) \in Nat /\ Len(Left') = Len(Left) - 1
        /\ \A k \in 1 .. Len(Left') :
             k \in Nat /\ k + 1 \in 1 .. Len(Left) /\ Left'[k] = Left[k + 1]
        /\ \A k \in 1 .. Len(Left) :
             k = 1 \/ (k - 1 \in 1 .. Len(Left') /\ Left'[k - 1] = Left[k])
    BY <1>1, <1>3, OthersAreLeft DEF RunInv
  <1>5. ASSUME NEW i \in ProposalIds, NEW k \in 1 .. Len(Left), Removes(Left[k], i)
        PROVE  Leaves(Left', i)
    <2>1. k # 1
      BY <1>1, <1>4, <1>5 DEF Removes
    <2> QED BY <1>4, <1>5, <2>1 DEF Leaves
  <1>6. NoMorePend(tree, Left, tree', Left')
    BY <1>1, <1>5 DEF NoMorePend, Leaves
  <1>7. OneStays(tree', Left')
    BY <1>6, OneStillStays DEF AloneInv
  <1>8. FilesStandAlone(tree', Left', run'.todo)
    BY <1>3, <1>4, <1>6, FilesStillAlone DEF AloneInv
  <1>9. Foreseen(tree', run'.todo, run'.old)
    BY <1>1, <1>3, <1>6, StillForeseen DEF AloneInv, Looking
  <1> QED BY <1>3, <1>7, <1>8, <1>9 DEF AloneInv

LEMMA AloneFinish ==
  ASSUME RunInv, AloneInv, RunFinish
  PROVE  AloneInv'
  <1>1. /\ run.pc = "commit" /\ run.writes = << >> /\ UNCHANGED tree
        /\ run' = StateOf("extract", run.todo, run.attempted, run.state, run.old,
                          << >>, run.writes, run.fresh)
    BY RunFinishDoes DEF RunInv
  <1>2. /\ run'.pc = "extract" /\ run'.todo = run.todo /\ run'.old = run.old
        /\ Left = << >> /\ Left' = << >>
    BY <1>1 DEF StateOf, Left, CommitsNow
  <1> QED BY <1>1, <1>2, AloneOnQuietVault DEF Looking

LEMMA AloneStepsKeep ==
  RunsByItself /\ RunInv /\ AloneSoFar /\ [RunNext]_<<vars, runVars>> => AloneSoFar'
  <1> SUFFICES ASSUME RunsByItself, RunInv, AloneSoFar, [RunNext]_<<vars, runVars>>
               PROVE  AloneSoFar'
    OBVIOUS
  <1>1. CASE Next /\ UNCHANGED runVars
    BY <1>1, AloneBeside
  <1>2. CASE RunDies
    BY <1>2, DeathDoes DEF RunInv, AloneSoFar
  <1>3. CASE Start \/ RunStep
    <2>1. faults' = faults
      BY <1>3 DEF Start, RunStep, Scan, Skip, GiveUpOnPage, Extract, End,
                  RunRemove, RunWrite, RunAdd, RunFinish, vars
    <2>2. AloneInv => AloneInv'
      BY <1>3, AloneStart, AloneScan, AlonePass, AloneExtract, AloneEnd, AloneRemove,
         AloneWrite, AloneAdd, AloneFinish DEF RunStep
    <2> QED BY <2>1, <2>2 DEF AloneSoFar
  <1>4. CASE UNCHANGED <<vars, runVars>>
    <2>1. UNCHANGED <<tree, faults, run>>
      BY <1>4 DEF vars, runVars
    <2>2. Left' = Left /\ Looking' = Looking
      BY <2>1 DEF Left, CommitsNow, Looking
    <2> QED BY <2>1, <2>2 DEF AloneSoFar, AloneInv
  <1> QED BY <1>1, <1>2, <1>3, <1>4 DEF RunNext

(* FreshStandsAlone: without requests beside it, and while no call fails, a   *)
(* run leaves at most one pending proposal for each page it extracted, over   *)
(* all its batches (commitBatch and supersede), on an inbox that held no two  *)
(* for one page.                                                              *)
THEOREM FreshIsAlone ==
  ASSUME RunsByItself
  PROVE  RunSpec => []FreshStandsAlone
  <1>1. RunInit => AloneSoFar
    BY AloneAtFirst DEF AloneSoFar
  <1>2. RunInv /\ AloneSoFar /\ [RunNext]_<<vars, runVars>> => AloneSoFar'
    BY AloneStepsKeep
  <1>3. RunInv /\ AloneSoFar => FreshStandsAlone
    <2> SUFFICES ASSUME RunInv, AloneInv, run.pc = "idle", NEW s
                 PROVE  Cardinality(PendingFor(s)) <= 1
      BY DEF AloneSoFar, FreshStandsAlone, OnlyOnePending
    <2>1. OneStays(tree, << >>)
      BY DEF AloneInv, Left, CommitsNow
    <2>2. \A i, j \in PendingFor(s) : i = j
      BY <2>1, NothingLeft DEF OneStays, Pends, PendingFor, Pending
    <2> QED BY <2>2, AtMostOne
  <1> QED BY <1>1, <1>2, <1>3, RunHolds, PTL DEF RunSpec

------------------------------------------------------------------------------
(* No proposal lands twice beside a run either.  What a run has queued must   *)
(* be out of everybody's reach until it is written, and is written once.      *)

\* Neither in the inbox nor in the hands of a request.
Untouched(i) == ~ Pending(i) /\ \A h \in Handlers : req[h] = Idle \/ req[h].id # i

FilesUnder(change, i) == change.path = ReviewPath(i) /\ change.data # Absent

FilingIsFresh ==
  FilesItsOwn /\ \A h \in Handlers : Filing(h) => ~ Pending(req[h].id)

QueueInv ==
  /\ \A c \in run.todo, i \in ProposalIds : Quotes(c.page, i) => i \in minted
  /\ \A k \in 1 .. Len(Left), i \in ProposalIds : FilesUnder(Left[k], i) =>
       /\ i \in minted /\ Original(i, Left[k].data, Anything)
       /\ Untouched(i) \/ (run.pc = "written" /\ k = 1)
       /\ \A m \in 1 .. Len(Left) : FilesUnder(Left[m], i) => m = k

LandInv == FilingIsFresh /\ QueueInv /\ PInv(Anything)

(* What has to be seen of the queue after a step.                             *)
LEMMA QueueComesTo ==
  ASSUME \A c \in run'.todo, i \in ProposalIds : Quotes(c.page, i) => i \in minted',
         \A k \in 1 .. Len(Left'), i \in ProposalIds : FilesUnder(Left'[k], i) =>
           /\ i \in minted' /\ Original(i, Left'[k].data, Anything)
           /\ Untouched(i)' \/ (run'.pc = "written" /\ k = 1)
           /\ \A m \in 1 .. Len(Left') : FilesUnder(Left'[m], i) => m = k
  PROVE  QueueInv'
  <1>1. \A c, i : (Quotes(c.page, i))' <=> Quotes(c.page, i)
    BY DEF Quotes, Claimed
  <1>2. \A k, i : (FilesUnder(Left[k], i))' <=> FilesUnder(Left'[k], i)
    BY DEF FilesUnder
  <1>3. \A k, i : (Original(i, Left[k].data, Anything))' <=> Original(i, Left'[k].data, Anything)
    BY DEF Original, Quotes, Claimed
  <1> QED BY <1>1, <1>2, <1>3 DEF QueueInv

(* A request moves, under the id it has, a new one, or one in the inbox.      *)
LEMMA RequestMovesApart ==
  ASSUME RequestInv, FilingIsFresh, NEW h \in Handlers, NEW r,
         req' = [req EXCEPT ![h] = r],
         \/ r = Idle
         \/ req[h] # Idle /\ r.id = req[h].id /\ (Filing(h)' => Filing(h))
         \/ r.id \in ProposalIds \ minted
         \/ r.id \in ProposalIds /\ Pending(r.id) /\ ~ Filing(h)',
         \A i \in ProposalIds : Pending(i)' =>
           Pending(i) \/ (req[h] # Idle /\ i = req[h].id /\ Filing(h) /\ ~ Filing(h)')
  PROVE  FilingIsFresh' /\ \A i \in minted : Untouched(i) => Untouched(i)'
  <1>1. /\ req'[h] = r
        /\ \A x \in Handlers \ {h} : req'[x] = req[x] /\ Filing(x)' = Filing(x)
    BY DEF RequestInv, TypeOK, Filing
  <1>2. \A x \in Handlers : Filing(x) => req[x] # Idle
    BY DEF Filing, Idle
  <1>3. \A x \in Handlers : Filing(x)' => req'[x] # Idle
    BY DEF Filing, Idle
  <1>4. /\ minted \subseteq ProposalIds
        /\ \A x \in Handlers : req[x] # Idle => req[x].id \in minted
        /\ \A i \in ProposalIds : Pending(i) => i \in minted
    BY DEF RequestInv, TypeOK, PendingIds
  <1>5. ASSUME NEW g \in Handlers, Filing(g)', NEW x \in Handlers \ {g}
        PROVE  req'[x] = Idle \/ req'[x].id # req'[g].id
    <2>1. CASE g = h
      <3>1. CASE req[h] # Idle /\ r.id = req[h].id /\ Filing(h)
        BY <1>1, <1>5, <2>1, <3>1 DEF FilingIsFresh, FilesItsOwn
      <3>2. CASE r.id \notin minted
        BY <1>1, <1>4, <1>5, <2>1, <3>2
      <3> QED BY <1>1, <1>3, <1>5, <2>1, <3>1, <3>2
    <2>2. CASE g # h
      <3>1. Filing(g) /\ req'[g] = req[g] /\ req[g].id \in minted
        BY <1>1, <1>2, <1>4, <1>5, <2>2
      <3>2. CASE x = h
        <4>1. CASE req[h] # Idle /\ r.id = req[h].id
          BY <1>1, <2>2, <3>1, <3>2, <4>1 DEF FilingIsFresh, FilesItsOwn
        <4>2. CASE r.id \notin minted
          BY <1>1, <3>1, <3>2, <4>2
        <4>3. CASE Pending(r.id)
          BY <1>1, <3>1, <3>2, <4>3 DEF FilingIsFresh
        <4> QED BY <1>1, <3>2, <4>1, <4>2, <4>3
      <3>3. CASE x # h
        BY <1>1, <1>5, <3>1, <3>3 DEF FilingIsFresh, FilesItsOwn
      <3> QED BY <3>2, <3>3
    <2> QED BY <2>1, <2>2
  <1>6. ASSUME NEW g \in Handlers, Filing(g)', Pending(req[g].id)'
        PROVE  FALSE
    <2>1. CASE g = h
      <3>1. CASE req[h] # Idle /\ r.id = req[h].id /\ Filing(h)
        <4>1. ~ Pending(r.id) /\ r.id \in ProposalIds
          BY <1>4, <3>1 DEF FilingIsFresh
        <4> QED BY <1>1, <1>6, <2>1, <4>1 DEF Pending
      <3>2. CASE r.id \in ProposalIds \ minted
        <4>1. (~ Pending(r.id) /\ r.id # req[h].id) \/ req[h] = Idle
          BY <1>4, <3>2
        <4>2. ~ Pending(r.id)
          BY <1>4, <3>2
        <4> QED BY <1>1, <1>6, <2>1, <3>2, <4>1, <4>2 DEF Pending
      <3> QED BY <1>1, <1>3, <1>6, <2>1, <3>1, <3>2
    <2>2. CASE g # h
      <3>1. /\ Filing(g) /\ req'[g] = req[g] /\ req[g] # Idle /\ req[g].id \in ProposalIds
            /\ ~ Pending(req[g].id)
        BY <1>1, <1>2, <1>4, <1>6, <2>2 DEF FilingIsFresh
      <3>2. Filing(h) /\ req[g].id = req[h].id
        BY <1>6, <3>1 DEF Pending
      <3> QED BY <2>2, <3>1, <3>2 DEF FilingIsFresh, FilesItsOwn
    <2> QED BY <2>1, <2>2
  <1>7. ASSUME NEW i \in minted, Untouched(i)
        PROVE  Untouched(i)'
    <2>1. ~ Pending(i)'
      BY <1>4, <1>7 DEF Untouched
    <2>2. ASSUME NEW x \in Handlers PROVE req'[x] = Idle \/ req'[x].id # i
      <3>1. CASE x = h
        BY <1>1, <1>7, <3>1 DEF Untouched
      <3>2. CASE x # h
        BY <1>1, <1>7, <3>2 DEF Untouched
      <3> QED BY <3>1, <3>2
    <2> QED BY <2>1, <2>2 DEF Untouched
  <1>8. FilesItsOwn'
    BY <1>5 DEF FilesItsOwn
  <1>9. (\A g \in Handlers : Filing(g) => ~ Pending(req[g].id))'
    BY <1>6
  <1> QED BY <1>7, <1>8, <1>9 DEF FilingIsFresh

(* Whatever a request does, a crash or the owner.                             *)
LEMMA RequestsStayApart ==
  ASSUME RequestInv, FilingIsFresh, Next
  PROVE  FilingIsFresh' /\ \A i \in minted : Untouched(i) => Untouched(i)'
  <1> DEFINE Kept == FilingIsFresh' /\ \A i \in minted : Untouched(i) => Untouched(i)'
             Moved(h, r) ==
               /\ req' = [req EXCEPT ![h] = r]
               /\ req[h] # Idle /\ r.id = req[h].id /\ (Filing(h)' => Filing(h))
               /\ UNCHANGED tree
  <1>1. ASSUME NEW h \in Handlers, NEW r, Moved(h, r)
        PROVE  Kept
    <2>1. \A i \in ProposalIds : Pending(i)' => Pending(i)
      BY <1>1 DEF Pending
    <2> QED BY <1>1, <2>1, RequestMovesApart
  <1>2. ASSUME NEW h \in Handlers, req' = [req EXCEPT ![h] = Idle], UNCHANGED tree
        PROVE  Kept
    <2>1. \A i \in ProposalIds : Pending(i)' => Pending(i)
      BY <1>2 DEF Pending
    <2> QED BY <1>2, <2>1, RequestMovesApart
  <1>3. ASSUME NEW h \in Handlers, Refuse(h) \/ Fail(h)
        PROVE  Kept
    <2>1. req' = [req EXCEPT ![h] = Idle] /\ UNCHANGED tree
      BY <1>3 DEF Refuse, Fail, Answer, vault
    <2> QED BY <1>2, <2>1
  <1>4. ASSUME NEW h \in Handlers, NEW r, req' = [req EXCEPT ![h] = r]
        PROVE  req'[h] = r
    BY <1>4 DEF RequestInv, TypeOK
  <1>5. ASSUME NEW h \in Handlers, Load(h)
        PROVE  Kept
    <2>1. PICK op \in Decisions, i \in ProposalIds :
            /\ Pending(i) /\ UNCHANGED tree
            /\ req' = [req EXCEPT ![h] = [pc |-> "loaded", op |-> op, id |-> i,
                                         proposal |-> tree[ReviewPath(i)]]]
      BY <1>5 DEF Load, vault
    <2> DEFINE r == [pc |-> "loaded", op |-> op, id |-> i, proposal |-> tree[ReviewPath(i)]]
    <2>2. r.pc = "loaded" /\ r.id = i /\ req' = [req EXCEPT ![h] = r]
      BY <2>1
    <2> HIDE DEF r
    <2>3. ~ Filing(h)'
      BY <1>4, <2>2 DEF Filing
    <2>4. \A j \in ProposalIds : Pending(j)' => Pending(j)
      BY <2>1 DEF Pending
    <2> QED BY <2>1, <2>2, <2>3, <2>4, RequestMovesApart
  <1>6. ASSUME NEW h \in Handlers, Accept(h) \/ Reject(h), ~ Refuse(h)
        PROVE  Kept
    <2>1. PICK todo : /\ Committing(h, todo) /\ req[h].pc = "loaded" /\ UNCHANGED tree
                      /\ req[h].op # "propose"
      <3>1. CASE Accept(h)
        <4>1. PICK written \in Page :
                Committing(h, <<Change(PagePath(req[h].proposal.target), written),
                                Removal(req[h].id)>>)
          BY <1>6, <3>1, AcceptCommits DEF RequestInv
        <4>2. /\ req[h].pc = "loaded" /\ req[h].op \in {"accept", "editAccept"}
              /\ UNCHANGED <<vault, minted, acked, landed, faults>>
          BY <1>6, <3>1, AcceptCommits DEF RequestInv
        <4> QED BY <4>1, <4>2 DEF vault
      <3>2. CASE Reject(h)
        BY <1>6, <3>2 DEF Reject, vault
      <3> QED BY <1>6, <3>1, <3>2
    <2> DEFINE r == [pc |-> "committing", op |-> req[h].op, id |-> req[h].id, todo |-> todo]
    <2>2. req' = [req EXCEPT ![h] = r] /\ r.id = req[h].id /\ r.op = req[h].op
          /\ r.pc = "committing"
      BY <2>1 DEF Committing
    <2> HIDE DEF r
    <2>3. req[h] # Idle /\ ~ Filing(h)'
      BY <1>4, <2>1, <2>2 DEF Idle, Filing
    <2> QED BY <1>1, <2>1, <2>2, <2>3
  <1>7. ASSUME NEW h \in Handlers, Build(h)
        PROVE  Kept
    <2>0. PICK i \in ProposalIds \ minted :
            \E p : /\ req' = [req EXCEPT ![h] = [pc |-> "built", op |-> "propose", id |-> i,
                                               proposal |-> p]]
                   /\ UNCHANGED tree
      BY <1>7, BuildsAProposal DEF RequestInv, vault
    <2>1. PICK p : /\ req' = [req EXCEPT ![h] = [pc |-> "built", op |-> "propose", id |-> i,
                                               proposal |-> p]]
                   /\ UNCHANGED tree
      BY <2>0
    <2> DEFINE r == [pc |-> "built", op |-> "propose", id |-> i, proposal |-> p]
    <2>2. req' = [req EXCEPT ![h] = r] /\ r.id = i
      BY <2>1
    <2> HIDE DEF r
    <2>3. \A j \in ProposalIds : Pending(j)' => Pending(j)
      BY <2>1 DEF Pending
    <2> QED BY <2>2, <2>3, RequestMovesApart
  <1>8. ASSUME NEW h \in Handlers, Propose(h), ~ Refuse(h)
        PROVE  Kept
    <2> DEFINE r == [pc |-> "committing", op |-> req[h].op, id |-> req[h].id,
                     todo |-> <<Change(ReviewPath(req[h].id), req[h].proposal)>>]
    <2>1. req[h].pc = "built" /\ req' = [req EXCEPT ![h] = r] /\ UNCHANGED tree
      BY <1>8 DEF Propose, Committing, vault
    <2>2. r.id = req[h].id
      OBVIOUS
    <2> HIDE DEF r
    <2>3. req[h] # Idle /\ Filing(h)
      BY <2>1 DEF Idle, Filing
    <2> QED BY <1>1, <2>1, <2>2, <2>3
  <1>9. ASSUME NEW h \in Handlers, RemoveNext(h)
        PROVE  Kept
    <2> DEFINE r == [pc |-> "committing", op |-> req[h].op, id |-> req[h].id,
                     todo |-> Tail(req[h].todo)]
    <2>1. /\ req[h].pc = "committing" /\ req[h].todo # << >> /\ req' = [req EXCEPT ![h] = r]
      BY <1>9 DEF RemoveNext, Committing
    <2>2. r.id = req[h].id /\ r.op = req[h].op /\ r.pc = "committing"
      OBVIOUS
    <2> HIDE DEF r
    <2>3. req[h] # Idle /\ (Filing(h)' => Filing(h))
      BY <1>4, <2>1, <2>2 DEF Idle, Filing
    <2>4. \A j \in ProposalIds : Pending(j)' => Pending(j)
      BY <1>9, RemoveBesideRun DEF PendingIds, Pending
    <2> QED BY <2>1, <2>2, <2>3, <2>4, RequestMovesApart
  <1>10. ASSUME NEW h \in Handlers, WriteNext(h)
         PROVE  Kept
    <2>1. /\ req[h].pc = "committing" /\ req[h].todo # << >>
          /\ req' = [req EXCEPT ![h].pc = "written"]
      BY <1>10 DEF WriteNext
    <2>2. Committed(req[h]) /\ req[h] # Idle
      BY <2>1 DEF Committed, Idle
    <2> DEFINE r == [pc |-> "written", op |-> req[h].op, id |-> req[h].id,
                     todo |-> req[h].todo]
    <2>3. req' = [req EXCEPT ![h] = r]
      <3>1. req[h] = [pc |-> req[h].pc, op |-> req[h].op, id |-> req[h].id,
                      todo |-> req[h].todo]
        BY <2>2, RunRequest
      <3>2. [req[h] EXCEPT !.pc = "written"] = r
        BY <3>1
      <3> QED BY <2>1, <3>2
    <2>4. r.id = req[h].id /\ r.pc = "written"
      OBVIOUS
    <2> HIDE DEF r
    <2>5. ~ Filing(h)'
      BY <1>4, <2>3, <2>4 DEF Filing
    <2>6. \A j \in ProposalIds : Pending(j)' => Pending(j) \/ (j = req[h].id /\ Filing(h))
      BY <1>10, <2>1, WriteBesideRun DEF Filing
    <2> QED BY <2>2, <2>3, <2>4, <2>5, <2>6, RequestMovesApart
  <1>11. ASSUME NEW h \in Handlers, AddNext(h), ~ Refuse(h)
         PROVE  Kept
    <2> DEFINE r == [pc |-> "committing", op |-> req[h].op, id |-> req[h].id,
                     todo |-> Tail(req[h].todo)]
    <2>1. req[h].pc = "written" /\ req' = [req EXCEPT ![h] = r] /\ UNCHANGED tree
      BY <1>11 DEF AddNext, Add, Committing
    <2>2. Committed(req[h]) /\ req[h] # Idle
      BY <2>1 DEF Committed, Idle
    <2>3. /\ req[h].todo # << >> /\ req[h].todo[1].data # Absent
          /\ req[h].op \in Decisions \cup {"propose"}
      BY <2>1, <2>2, RunRequest
    <2>4. Tail(req[h].todo) # << >> => req[h].op \in Decisions
      BY <2>2, <2>3, CommitBesideRun
    <2>5. r.id = req[h].id /\ r.pc = "committing" /\ r.op = req[h].op
          /\ r.todo = Tail(req[h].todo)
      OBVIOUS
    <2> HIDE DEF r
    <2>6. ~ Filing(h)'
      BY <1>4, <2>1, <2>4, <2>5 DEF Filing, Decisions
    <2> QED BY <1>1, <2>1, <2>2, <2>5, <2>6
  <1>12. ASSUME NEW h \in Handlers, Finish(h)
         PROVE  Kept
    <2>1. req' = [req EXCEPT ![h] = Idle] /\ UNCHANGED tree
      BY <1>12 DEF Finish, RecordIndex, Answer
    <2> QED BY <1>2, <2>1
  <1>13. ASSUME NEW h \in Handlers, Handle(h) PROVE Kept
    <2>1. CASE Load(h)                   BY <1>5, <2>1
    <2>2. CASE Accept(h) \/ Reject(h)    BY <1>3, <1>6, <2>2
    <2>3. CASE Build(h)                  BY <1>7, <2>3
    <2>4. CASE Propose(h)                BY <1>3, <1>8, <2>4
    <2>5. CASE RemoveNext(h)             BY <1>9, <2>5
    <2>6. CASE WriteNext(h)              BY <1>10, <2>6
    <2>7. CASE AddNext(h)                BY <1>3, <1>11, <2>7
    <2>8. CASE Finish(h)                 BY <1>12, <2>8
    <2>9. CASE Fail(h)                   BY <1>3, <2>9
    <2> QED BY <1>13, <2>1, <2>2, <2>3, <2>4, <2>5, <2>6, <2>7, <2>8, <2>9 DEF Handle
  <1>14. CASE Crash
    <2>1. req' = [h \in Handlers |-> Idle] /\ UNCHANGED tree
      BY <1>14 DEF Crash, vault
    <2>2. \A h \in Handlers : ~ Filing(h)'
      BY <2>1 DEF Filing, Idle
    <2>3. \A i \in minted : Untouched(i) => Untouched(i)'
      BY <2>1 DEF Untouched, Pending
    <2> QED BY <2>2, <2>3 DEF FilingIsFresh, FilesItsOwn
  <1>15. CASE OwnerSavesPage
    <2>1. UNCHANGED req /\ PendingIds' = PendingIds
      BY <1>15, OwnerBesideRun
    <2>2. \A i \in ProposalIds : Pending(i)' <=> Pending(i)
      BY <2>1 DEF PendingIds, Pending
    <2>3. /\ minted \subseteq ProposalIds
          /\ \A h \in Handlers : req[h] # Idle => req[h].id \in ProposalIds
      BY RunRequest DEF RequestInv, TypeOK
    <2>4. \A h \in Handlers : Filing(h) => req[h] # Idle
      BY DEF Filing, Idle
    <2>5. FilesItsOwn'
      BY <2>1 DEF FilingIsFresh, FilesItsOwn, Filing
    <2>6. (\A h \in Handlers : Filing(h) => ~ Pending(req[h].id))'
      <3> SUFFICES ASSUME NEW h \in Handlers, Filing(h)' PROVE ~ Pending(req[h].id)'
        OBVIOUS
      <3>1. Filing(h) /\ req[h].id \in ProposalIds /\ req' = req
        BY <2>1, <2>3, <2>4 DEF Filing
      <3> QED BY <2>2, <3>1 DEF FilingIsFresh, Pending
    <2>7. \A i \in minted : Untouched(i) => Untouched(i)'
      BY <2>1, <2>2, <2>3 DEF Untouched
    <2> QED BY <2>5, <2>6, <2>7 DEF FilingIsFresh
  <1> QED BY <1>13, <1>14, <1>15 DEF Next

(* A step of a run: the requests stand still, and of the inbox it brings only *)
(* what was out of reach.                                                     *)
LEMMA RunLeavesRequests ==
  ASSUME RequestInv, FilingIsFresh, UNCHANGED req,
         \A i \in ProposalIds : Pending(i)' => Pending(i) \/ Untouched(i)
  PROVE  FilingIsFresh'
  <1>1. FilesItsOwn'
    BY DEF FilingIsFresh, FilesItsOwn, Filing
  <1>2. ASSUME NEW h \in Handlers, Filing(h)'
        PROVE  ~ Pending(req[h].id)'
    <2>1. Filing(h) /\ req' = req /\ req[h] # Idle
      BY <1>2 DEF Filing, Idle
    <2>2. req[h].id \in ProposalIds /\ ~ Pending(req[h].id) /\ ~ Untouched(req[h].id)
      BY <2>1, RunRequest DEF FilingIsFresh, Untouched
    <2> QED BY <2>1, <2>2 DEF Pending
  <1> QED BY <1>1, <1>2 DEF FilingIsFresh

LEMMA RunKeepsPages ==
  ASSUME RequestInv, NEW R, PInv(R), UNCHANGED <<req, landed>>, minted \subseteq minted',
         StoreOK(tree)', StoreOK(index)', StoreOK(head)',
         \A i \in ProposalIds :
           \/ tree'[ReviewPath(i)] \in {Absent, tree[ReviewPath(i)]}
           \/ Untouched(i) /\ Original(i, tree'[ReviewPath(i)], R)
  PROVE  PInv(R)'
  <1>1. ASSUME NEW h \in Handlers PROVE RequestOK(R, req[h], tree', landed')
    <2>1. CASE req[h] = Idle
      BY <2>1, IdleIsOK
    <2>2. CASE req[h] # Idle
      <3>1. req[h].id \in ProposalIds /\ RequestOK(R, req[h], tree, landed)
        BY <2>2, RunRequest DEF PInv
      <3>2. tree'[ReviewPath(req[h].id)] \in {Absent, tree[ReviewPath(req[h].id)]}
        BY <2>2, <3>1 DEF Untouched
      <3> QED BY <3>1, <3>2, RequestStaysOK
    <2> QED BY <2>1, <2>2
  <1>2. InboxOK(R)'
    <2> SUFFICES ASSUME NEW i \in ProposalIds, tree'[ReviewPath(i)] # Absent
                 PROVE  Original(i, tree'[ReviewPath(i)], R)
      BY DEF InboxOK, Pending, Original, Quotes, Claimed
    <2>1. CASE tree'[ReviewPath(i)] = tree[ReviewPath(i)]
      BY <2>1 DEF PInv, InboxOK, Pending
    <2>2. CASE tree'[ReviewPath(i)] # tree[ReviewPath(i)]
      BY <2>2
    <2> QED BY <2>1, <2>2
  <1> QED BY <1>1, <1>2 DEF PInv

\* What is left was left before, in this order.
Remains(drop) ==
  \A k \in 1 .. Len(Left') : k + drop \in 1 .. Len(Left) /\ Left'[k] = Left[k + drop]

(* A step of a run that queues nothing.                                       *)
LEMMA QueueShrinks ==
  ASSUME QueueInv, UNCHANGED req, minted \subseteq minted',
         \A i \in ProposalIds : Pending(i)' => Pending(i),
         run'.todo \subseteq run.todo,
         \/ Left' = << >>
         \/ Left' = Left /\ run.pc # "written" /\ run'.pc # "written"
         \/ Len(Left') \in Nat /\ Remains(1)
  PROVE  QueueInv'
  <1>1. \A c \in run'.todo, i \in ProposalIds : Quotes(c.page, i) => i \in minted'
    BY DEF QueueInv
  <1>2. \A i \in ProposalIds : Untouched(i) => Untouched(i)'
    BY DEF Untouched
  <1>3. ASSUME NEW k \in 1 .. Len(Left'), NEW i \in ProposalIds, FilesUnder(Left'[k], i)
        PROVE  /\ i \in minted' /\ Original(i, Left'[k].data, Anything)
               /\ Untouched(i)'
               /\ \A m \in 1 .. Len(Left') : FilesUnder(Left'[m], i) => m = k
    <2>1. CASE Left' = << >>
      BY <1>3, <2>1, RestIs
    <2>2. CASE Left' = Left /\ run.pc # "written"
      BY <1>2, <1>3, <2>2 DEF QueueInv
    <2>3. CASE Len(Left') \in Nat /\ Remains(1)
      <3>1. k \in Nat /\ k + 1 \in 1 .. Len(Left) /\ Left'[k] = Left[k + 1] /\ k + 1 # 1
        BY <1>3, <2>3 DEF Remains
      <3>2. /\ i \in minted /\ Original(i, Left'[k].data, Anything) /\ Untouched(i)
            /\ \A m \in 1 .. Len(Left) : FilesUnder(Left[m], i) => m = k + 1
        BY <1>3, <3>1 DEF QueueInv
      <3>3. ASSUME NEW m \in 1 .. Len(Left'), FilesUnder(Left'[m], i)
            PROVE  m = k
        <4>1. m \in Nat /\ m + 1 \in 1 .. Len(Left) /\ Left'[m] = Left[m + 1]
          BY <2>3, <3>3 DEF Remains
        <4>2. m + 1 = k + 1
          BY <3>2, <3>3, <4>1
        <4> QED BY <3>1, <4>1, <4>2
      <3> QED BY <1>2, <3>2, <3>3
    <2> QED BY <2>1, <2>2, <2>3
  <1> QED BY <1>1, <1>3, QueueComesTo

(* A run lets the requests and what has landed be.                            *)
LEMMA RunSparesRequests ==
  ASSUME Start \/ RunStep \/ RunDies
  PROVE  UNCHANGED <<req, landed>> /\ minted \subseteq minted'
  <1>1. CASE Start \/ Scan \/ Skip \/ GiveUpOnPage \/ End
    BY <1>1 DEF Start, Scan, Skip, GiveUpOnPage, End, vars
  <1>2. CASE Extract
    BY <1>2 DEF Extract
  <1>3. CASE RunRemove \/ RunWrite \/ RunAdd \/ RunFinish \/ RunDies
    BY <1>3 DEF RunRemove, RunWrite, RunAdd, RunFinish, RunDies
  <1> QED BY <1>1, <1>2, <1>3 DEF RunStep

LEMMA QuietVaultLands ==
  ASSUME RequestInv, FilingIsFresh, PInv(Anything), UNCHANGED <<tree, index, head, req, landed>>,
         minted \subseteq minted'
  PROVE  FilingIsFresh' /\ PInv(Anything)' /\ \A i \in ProposalIds : Pending(i)' => Pending(i)
  <1>1. \A i \in ProposalIds : Pending(i)' => Pending(i)
    BY DEF Pending
  <1>2. StoreOK(tree)' /\ StoreOK(index)' /\ StoreOK(head)'
    BY DEF PInv, StoreOK
  <1>3. PInv(Anything)'
    BY <1>2, RunKeepsPages
  <1> QED BY <1>1, <1>3, RunLeavesRequests

(* The pages a run reads at its start quote what has landed.                  *)
LEMMA StartLands ==
  ASSUME RunInv, LandInv, Start
  PROVE  LandInv'
  <1>1. UNCHANGED <<tree, index, head, req, landed, minted>>
    BY DEF Start, vars
  <1>2. FilingIsFresh' /\ PInv(Anything)'
    BY <1>1, QuietVaultLands DEF RunInv, LandInv
  <1>3. /\ run'.pc = "scan"
        /\ run'.todo = {[slug |-> s, page |-> tree[PagePath(s)]] :
                          s \in {s \in Slugs : tree[PagePath(s)] # Absent}}
    BY DEF Start, Resting
  <1>4. ASSUME NEW c \in run'.todo, NEW i \in ProposalIds, Quotes(c.page, i)
        PROVE  i \in minted'
    <2>1. PICK s \in Slugs : tree[PagePath(s)] # Absent /\ c.page = tree[PagePath(s)]
      BY <1>3
    <2>2. i \in landed
      BY <1>4, <2>1 DEF LandInv, PInv, StoreOK, PageOK
    <2> QED BY <1>1, <2>2 DEF RunInv, RequestInv, TypeOK
  <1>5. Left' = << >>
    BY <1>3 DEF Left, CommitsNow
  <1>6. QueueInv'
    BY <1>4, <1>5, RestIs DEF QueueInv, Quotes, Claimed
  <1> QED BY <1>2, <1>6 DEF LandInv

LEMMA PauseLands ==
  ASSUME RunInv, LandInv, Scan \/ Skip \/ GiveUpOnPage \/ RunDies
  PROVE  LandInv'
  <1>1. /\ Thinks /\ UNCHANGED <<req, landed>>
        /\ \/ run'.todo \subseteq run.todo /\ Left' = << >>
           \/ /\ run'.todo \subseteq run.todo /\ Left' = Left
              /\ run.pc # "written" /\ run'.pc # "written"
    <2>1. UNCHANGED <<req, landed>>
      BY RunSparesRequests DEF RunStep
    <2>2. CASE Scan
      <3>1. /\ Thinks /\ run.pc = "scan"
            /\ \E state, old : run' = StateOf("extract", run.todo, run.attempted, state, old,
                                              run.batch, run.writes, run.fresh)
        BY <2>2, ScanDoes DEF RunInv
      <3>2. run.batch = << >>
        BY <3>1 DEF RunInv, ProcessInv, Looking
      <3> QED BY <2>1, <3>1, <3>2 DEF StateOf, Left, CommitsNow
    <2>3. CASE Skip \/ GiveUpOnPage
      <3>1. /\ Thinks /\ run.pc = "extract"
            /\ \E c \in run.todo : \E attempted :
                 run' = StateOf("extract", run.todo \ {c}, attempted, run.state, run.old,
                                run.batch, run.writes, run.fresh)
        BY <2>3, PassDoes DEF RunInv
      <3> QED BY <2>1, <3>1 DEF StateOf, Left, CommitsNow
    <2>4. CASE RunDies
      <3>1. Thinks /\ run' = Resting
        BY <2>4, DeathDoes DEF RunInv
      <3> QED BY <2>1, <3>1, RestIs DEF StateOf, Left, CommitsNow
    <2> QED BY <2>2, <2>3, <2>4
  <1>2. UNCHANGED <<tree, index, head, req, landed>> /\ minted \subseteq minted'
    BY <1>1 DEF Thinks
  <1>3. FilingIsFresh' /\ PInv(Anything)' /\ \A i \in ProposalIds : Pending(i)' => Pending(i)
    BY <1>2, QuietVaultLands DEF RunInv, LandInv
  <1>4. QueueInv'
    BY <1>1, <1>2, <1>3, QueueShrinks DEF LandInv
  <1> QED BY <1>3, <1>4 DEF LandInv

(* What a run queues comes under a new id, for a page without its claims.     *)
LEMMA ExtractLands ==
  ASSUME RunInv, LandInv, Extract
  PROVE  LandInv'
  <1>1. \E c \in run.todo, i \in ProposalIds : \E p : Extracted(c, i, p)
    BY ExtractLeaves DEF RunInv
  <1>2. PICK c \in run.todo, i \in ProposalIds : \E p : Extracted(c, i, p)
    BY <1>1
  <1>3. PICK p : Extracted(c, i, p)
    BY <1>2
  <1> DEFINE n      == Len(run.batch)
             filing == Change(ReviewPath(i), p)
             old    == run.old[c.slug]
             noted  == WithRecorded(run.state, c)
  <1>4. /\ run.pc = "extract" /\ UNCHANGED <<tree, index, head>> /\ IsAnswer(i, p)
        /\ p.pin = c.page /\ minted' = minted \cup {i} /\ i \notin minted
        /\ run'.pc \in {"extract", "commit"} /\ run'.todo = run.todo \ {c}
    BY <1>3 DEF Extracted, StateOf
  <1>5. UNCHANGED <<req, landed>> /\ minted \subseteq minted'
    BY RunSparesRequests DEF RunStep
  <1>6. FilingIsFresh' /\ PInv(Anything)' /\ \A j \in ProposalIds : Pending(j)' => Pending(j)
    BY <1>4, <1>5, QuietVaultLands DEF RunInv, LandInv
  <1>7. /\ c \in Candidates /\ Left = run.batch
        /\ c.slug \in DOMAIN run.old => ~ Files(Supersede(old)[1]) /\ ~ Files(Supersede(old)[2])
        /\ ~ Files(Change(StatePath, noted))
    BY <1>3, WhatExtractAdds
  <1>8. Original(i, p, Anything)
    <2>1. i \notin DOMAIN Legacy
      BY <1>4 DEF LandInv, PInv
    <2>2. c.page \in Page /\ ~ Quotes(c.page, i)
      BY <1>4, <1>7 DEF Candidates, LandInv, QueueInv
    <2> QED BY <1>4, <2>1, <2>2 DEF Original, IsAnswer
  <1>9. Untouched(i)
    BY <1>4 DEF Untouched, RunInv, RequestInv, PendingIds
  <1>10. \A j \in ProposalIds : Untouched(j) => Untouched(j)'
    BY <1>5, <1>6 DEF Untouched
  <1>11. filing.path = ReviewPath(i) /\ filing.data = p
    BY DEF Change
  <1>12. /\ n \in Nat /\ Len(Left') \in Nat
         /\ \A k \in 1 .. n : Left'[k] = Left[k]
         /\ Left'[n + 1] = filing
         /\ \A k \in 1 .. Len(Left') : k \in 1 .. n \/ k = n + 1 \/ ~ Files(Left'[k])
    BY <1>3, <1>7 DEF Extracted
  <1> HIDE DEF n, filing
  <1>13. ASSUME NEW k \in 1 .. Len(Left'), NEW j \in ProposalIds, FilesUnder(Left'[k], j)
         PROVE  \/ k \in 1 .. n /\ FilesUnder(Left[k], j) /\ j \in minted
                \/ k = n + 1 /\ j = i
    <2>1. Files(Left'[k])
      BY <1>13 DEF FilesUnder, Files
    <2>2. CASE k \in 1 .. n
      BY <1>7, <1>12, <1>13, <2>2 DEF LandInv, QueueInv, n
    <2>3. CASE k = n + 1
      <3>1. ReviewPath(i) = ReviewPath(j)
        BY <1>11, <1>12, <1>13, <2>3 DEF FilesUnder
      <3> QED BY <2>3, <3>1, PathsAreDistinct
    <2> QED BY <1>12, <2>1, <2>2, <2>3
  <1>14. ASSUME NEW k \in 1 .. Len(Left'), NEW j \in ProposalIds, FilesUnder(Left'[k], j)
         PROVE  /\ j \in minted' /\ Original(j, Left'[k].data, Anything) /\ Untouched(j)'
                /\ \A m \in 1 .. Len(Left') : FilesUnder(Left'[m], j) => m = k
    <2>1. CASE k \in 1 .. n /\ FilesUnder(Left[k], j) /\ j \in minted
      <3>1. /\ Original(j, Left[k].data, Anything) /\ Untouched(j)
            /\ \A m \in 1 .. n : FilesUnder(Left[m], j) => m = k
        BY <1>4, <1>7, <2>1 DEF LandInv, QueueInv, n
      <3> QED BY <1>4, <1>10, <1>12, <1>13, <2>1, <3>1
    <2>2. CASE k = n + 1 /\ j = i
      BY <1>4, <1>8, <1>9, <1>10, <1>11, <1>12, <1>13, <2>2
    <2> QED BY <1>13, <1>14, <2>1, <2>2
  <1>15. \A d \in run'.todo, j \in ProposalIds : Quotes(d.page, j) => j \in minted'
    BY <1>4 DEF LandInv, QueueInv
  <1>16. QueueInv'
    BY <1>14, <1>15, QueueComesTo
  <1> QED BY <1>6, <1>16 DEF LandInv

(* The skip state goes behind it.                                             *)
LEMMA EndLands ==
  ASSUME RunInv, LandInv, End
  PROVE  LandInv'
  <1>1. /\ Thinks /\ run.pc = "extract"
        /\ \/ /\ run.batch = << >>
              /\ run' = StateOf("idle", {}, 0, << >>, << >>, << >>, << >>, run.fresh)
           \/ run' = StateOf("commit", {}, run.attempted, run.state, run.old, run.batch,
                             WithState(run.batch, run.state), run.fresh)
    BY EndDoes DEF RunInv
  <1>2. UNCHANGED <<tree, index, head, req, landed>> /\ minted \subseteq minted'
    BY <1>1, RunSparesRequests DEF Thinks, RunStep
  <1>3. FilingIsFresh' /\ PInv(Anything)' /\ \A j \in ProposalIds : Pending(j)' => Pending(j)
    BY <1>2, QuietVaultLands DEF RunInv, LandInv
  <1>4. CASE run'.pc = "idle"
    <2>1. run'.todo = {} /\ Left' = << >>
      BY <1>1, <1>4 DEF StateOf, Left, CommitsNow
    <2> QED BY <1>2, <1>3, <2>1, QueueShrinks DEF LandInv
  <1>5. CASE run' = StateOf("commit", {}, run.attempted, run.state, run.old, run.batch,
                            WithState(run.batch, run.state), run.fresh)
    <2> DEFINE last == Change(StatePath, run.state)
    <2>1. /\ run'.pc = "commit" /\ run'.todo = {} /\ Left = run.batch
          /\ Left' = Append(run.batch, last) /\ IsList(run.batch)
      BY <1>1, <1>5 DEF StateOf, Left, CommitsNow, WithState, RunInv, ProcessInv, IsBatch
    <2>2. \A j : ~ FilesUnder(last, j)
      BY StateIsApart DEF FilesUnder, Change
    <2> HIDE DEF last
    <2>3. Longer(Left', run.batch, last)
      BY <2>1, ListGrows
    <2>4. \A j \in ProposalIds : Untouched(j) => Untouched(j)'
      BY <1>2, <1>3 DEF Untouched
    <2>5. \A k \in 1 .. Len(Left'), j \in ProposalIds : FilesUnder(Left'[k], j) =>
            k \in 1 .. Len(Left) /\ Left'[k] = Left[k]
      BY <2>1, <2>2, <2>3 DEF Longer
    <2>6. ASSUME NEW k \in 1 .. Len(Left'), NEW j \in ProposalIds, FilesUnder(Left'[k], j)
          PROVE  /\ j \in minted' /\ Original(j, Left'[k].data, Anything) /\ Untouched(j)'
                 /\ \A m \in 1 .. Len(Left') : FilesUnder(Left'[m], j) => m = k
      BY <1>1, <1>2, <2>4, <2>5, <2>6 DEF LandInv, QueueInv
    <2>7. \A d \in run'.todo, j \in ProposalIds : Quotes(d.page, j) => j \in minted'
      BY <2>1
    <2>8. QueueInv'
      BY <2>6, <2>7, QueueComesTo
    <2> QED BY <1>3, <2>8 DEF LandInv
  <1>6. run'.pc = "idle" \/ run' = StateOf("commit", {}, run.attempted, run.state, run.old,
                                           run.batch, WithState(run.batch, run.state), run.fresh)
    BY <1>1 DEF StateOf
  <1> QED BY <1>4, <1>5, <1>6

(* The changes of a commit are gone through one by one.                       *)
LEMMA NextIsDone ==
  ASSUME ProcessInv, run.pc \in {"commit", "written"}, run.writes # << >>,
         run'.pc = "commit", run'.writes = Tail(run.writes)
  PROVE  Len(Left') \in Nat /\ Remains(1)
  BY OthersAreLeft DEF Remains

LEMMA RemoveLands ==
  ASSUME RunInv, LandInv, RunRemove
  PROVE  LandInv'
  <1> DEFINE path == run.writes[1].path
  <1>1. /\ run.pc = "commit" /\ run.writes # << >> /\ path \in Paths
        /\ run' = StateOf("commit", run.todo, run.attempted, run.state, run.old,
                          run.batch, Tail(run.writes), run.fresh)
        /\ \A q \in Paths : tree'[q] = IF q = path THEN Absent ELSE tree[q]
        /\ \A q \in Paths : index'[q] \in {index[q], Absent}
        /\ UNCHANGED head
    BY RunRemoveDoes DEF RunInv
  <1> HIDE DEF path
  <1>2. UNCHANGED <<req, landed>> /\ minted \subseteq minted'
    BY RunSparesRequests DEF RunStep
  <1>3. /\ \A q \in Paths : tree'[q] \in {Absent, tree[q]}
        /\ \A i \in ProposalIds : tree'[ReviewPath(i)] \in {Absent, tree[ReviewPath(i)]}
        /\ \A s \in Slugs : /\ tree'[PagePath(s)] \in {Absent, tree[PagePath(s)]}
                            /\ index'[PagePath(s)] \in {Absent, index[PagePath(s)]}
    BY <1>1, PathsAreDistinct
  <1>4. \A i \in ProposalIds : Pending(i)' => Pending(i)
    BY <1>3 DEF Pending
  <1>5. StoreOK(tree)' /\ StoreOK(index)' /\ StoreOK(head)'
    <2>1. \A s \in Slugs : tree'[PagePath(s)] # Absent => PageOK(tree'[PagePath(s)], landed')
      BY <1>2, <1>3 DEF LandInv, PInv, StoreOK
    <2>2. \A s \in Slugs : index'[PagePath(s)] # Absent => PageOK(index'[PagePath(s)], landed')
      BY <1>2, <1>3 DEF LandInv, PInv, StoreOK
    <2>3. \A s \in Slugs : head'[PagePath(s)] # Absent => PageOK(head'[PagePath(s)], landed')
      BY <1>1, <1>2 DEF LandInv, PInv, StoreOK
    <2> QED BY <2>1, <2>2, <2>3 DEF StoreOK, PageOK, Quotes, Once, Claimed
  <1>6. PInv(Anything)' /\ FilingIsFresh'
    BY <1>2, <1>3, <1>4, <1>5, RunKeepsPages, RunLeavesRequests DEF RunInv, LandInv
  <1>7. run'.pc = "commit" /\ run'.writes = Tail(run.writes) /\ run'.todo = run.todo
    BY <1>1 DEF StateOf
  <1>8. QueueInv'
    BY <1>1, <1>2, <1>4, <1>7, NextIsDone, QueueShrinks DEF RunInv, LandInv
  <1> QED BY <1>6, <1>8 DEF LandInv

(* What is filed was out of reach, and is queued no more.                     *)
LEMMA WriteLands ==
  ASSUME RunInv, LandInv, RunWrite
  PROVE  LandInv'
  <1> DEFINE path == run.writes[1].path
             data == run.writes[1].data
  <1>1. /\ run.pc = "commit" /\ run.writes # << >> /\ data # Absent /\ path \in Paths
        /\ run' = StateOf("written", run.todo, run.attempted, run.state, run.old,
                          run.batch, run.writes, run.fresh)
        /\ \A q \in Paths : tree'[q] = IF q = path THEN data ELSE tree[q]
        /\ UNCHANGED <<index, head>>
    BY RunWriteDoes DEF RunInv
  <1>2. UNCHANGED <<req, landed>> /\ minted \subseteq minted'
    BY RunSparesRequests DEF RunStep
  <1>3. /\ Left = run.writes /\ Left' = Left /\ 1 \in 1 .. Len(Left)
        /\ run'.todo = run.todo /\ run'.pc = "written"
    BY <1>1, NextRunChange DEF StateOf, Left, CommitsNow, RunInv
  <1>4. \A s \in Slugs : path # PagePath(s)
    <2>1. minted \subseteq ProposalIds /\ IsRunChange(run.writes[1], minted)
      BY <1>1, NextRunChange DEF RunInv, RequestInv, TypeOK
    <2> QED BY <2>1, RunChangesSuit, StateIsApart
  <1>5. ASSUME NEW i \in ProposalIds, path = ReviewPath(i)
        PROVE  /\ FilesUnder(Left[1], i) /\ Original(i, data, Anything) /\ Untouched(i)
               /\ tree'[ReviewPath(i)] = data
    <2>1. FilesUnder(Left[1], i)
      BY <1>1, <1>3, <1>5 DEF FilesUnder
    <2> QED BY <1>1, <1>3, <1>5, <2>1 DEF LandInv, QueueInv
  <1> HIDE DEF path, data
  <1>6. \A i \in ProposalIds : path # ReviewPath(i) => tree'[ReviewPath(i)] = tree[ReviewPath(i)]
    BY <1>1, PathsAreDistinct
  <1>7. \A i \in ProposalIds :
          \/ tree'[ReviewPath(i)] \in {Absent, tree[ReviewPath(i)]}
          \/ Untouched(i) /\ Original(i, tree'[ReviewPath(i)], Anything)
    BY <1>5, <1>6
  <1>8. StoreOK(tree)' /\ StoreOK(index)' /\ StoreOK(head)'
    <2>1. \A s \in Slugs : tree'[PagePath(s)] = tree[PagePath(s)]
      BY <1>1, <1>4, PathsAreDistinct
    <2>2. \A s \in Slugs : tree'[PagePath(s)] # Absent => PageOK(tree'[PagePath(s)], landed')
      BY <1>2, <2>1 DEF LandInv, PInv, StoreOK
    <2>3. StoreOK(tree)'
      BY <2>2 DEF StoreOK, PageOK, Quotes, Once, Claimed
    <2> QED BY <1>1, <1>2, <2>3 DEF LandInv, PInv, StoreOK
  <1>9. PInv(Anything)'
    BY <1>2, <1>7, <1>8, RunKeepsPages DEF RunInv, LandInv
  <1>10. FilingIsFresh'
    <2>1. \A i \in ProposalIds : Pending(i)' => Pending(i) \/ Untouched(i)
      BY <1>5, <1>6 DEF Pending
    <2> QED BY <1>2, <2>1, RunLeavesRequests DEF RunInv, LandInv
  <1>11. ASSUME NEW k \in 1 .. Len(Left), NEW i \in ProposalIds, FilesUnder(Left[k], i)
         PROVE  /\ i \in minted' /\ Original(i, Left[k].data, Anything)
                /\ Untouched(i)' \/ k = 1
                /\ \A m \in 1 .. Len(Left) : FilesUnder(Left[m], i) => m = k
    <2>1. /\ i \in minted /\ Original(i, Left[k].data, Anything) /\ Untouched(i)
          /\ \A m \in 1 .. Len(Left) : FilesUnder(Left[m], i) => m = k
      BY <1>1, <1>11 DEF LandInv, QueueInv
    <2>2. ASSUME k # 1 PROVE Untouched(i)'
      <3>1. path # ReviewPath(i)
        BY <1>3, <1>5, <2>1, <2>2
      <3> QED BY <1>2, <1>6, <2>1, <3>1 DEF Untouched, Pending
    <2> QED BY <1>2, <2>1, <2>2
  <1>12. QueueInv'
    <2>1. \A c \in run'.todo, i \in ProposalIds : Quotes(c.page, i) => i \in minted'
      BY <1>2, <1>3 DEF LandInv, QueueInv
    <2> QED BY <1>3, <1>11, <2>1, QueueComesTo
  <1> QED BY <1>9, <1>10, <1>12 DEF LandInv

LEMMA AddLands ==
  ASSUME RunInv, LandInv, RunAdd
  PROVE  LandInv'
  <1> DEFINE path == run.writes[1].path
  <1>1. /\ run.pc = "written" /\ run.writes # << >> /\ path \in Paths
        /\ UNCHANGED <<tree, head>>
        /\ \/ /\ run' = StateOf("commit", run.todo, run.attempted, run.state, run.old,
                                run.batch, Tail(run.writes), run.fresh)
              /\ \A q \in Paths : index'[q] = IF q = path THEN tree[q] ELSE index[q]
           \/ run' = Resting /\ UNCHANGED index
    BY RunAddDoes DEF RunInv
  <1> HIDE DEF path
  <1>2. UNCHANGED <<req, landed>> /\ minted \subseteq minted'
    BY RunSparesRequests DEF RunStep
  <1>3. \A i \in ProposalIds : Pending(i)' => Pending(i)
    BY <1>1 DEF Pending
  <1>4. \A s \in Slugs : index'[PagePath(s)] \in {tree[PagePath(s)], index[PagePath(s)]}
    BY <1>1, PathsAreDistinct
  <1>5. StoreOK(tree)' /\ StoreOK(index)' /\ StoreOK(head)'
    <2>1. \A s \in Slugs : index'[PagePath(s)] # Absent => PageOK(index'[PagePath(s)], landed')
      BY <1>2, <1>4 DEF LandInv, PInv, StoreOK
    <2>2. StoreOK(index)'
      BY <2>1 DEF StoreOK, PageOK, Quotes, Once, Claimed
    <2> QED BY <1>1, <1>2, <2>2 DEF LandInv, PInv, StoreOK
  <1>6. PInv(Anything)' /\ FilingIsFresh'
    <2>1. \A i \in ProposalIds : tree'[ReviewPath(i)] \in {Absent, tree[ReviewPath(i)]}
      BY <1>1
    <2> QED BY <1>2, <1>3, <1>5, <2>1, RunKeepsPages, RunLeavesRequests DEF RunInv, LandInv
  <1>7. CASE run' = StateOf("commit", run.todo, run.attempted, run.state, run.old,
                            run.batch, Tail(run.writes), run.fresh)
    <2>1. run'.pc = "commit" /\ run'.writes = Tail(run.writes) /\ run'.todo = run.todo
      BY <1>7 DEF StateOf
    <2>2. QueueInv'
      BY <1>1, <1>2, <1>3, <2>1, NextIsDone, QueueShrinks DEF RunInv, LandInv
    <2> QED BY <1>6, <2>2 DEF LandInv
  <1>8. CASE run' = Resting
    <2>1. run'.todo = {} /\ Left' = << >>
      BY <1>8, RestIs DEF StateOf, Left, CommitsNow
    <2>2. QueueInv'
      BY <1>2, <1>3, <2>1, QueueShrinks DEF LandInv
    <2> QED BY <1>6, <2>2 DEF LandInv
  <1> QED BY <1>1, <1>7, <1>8

LEMMA FinishLands ==
  ASSUME RunInv, LandInv, RunFinish
  PROVE  LandInv'
  <1>1. /\ head' = index /\ UNCHANGED <<tree, index>>
        /\ run' = StateOf("extract", run.todo, run.attempted, run.state, run.old,
                          << >>, run.writes, run.fresh)
    BY RunFinishDoes DEF RunInv
  <1>2. UNCHANGED <<req, landed>> /\ minted \subseteq minted'
    BY RunSparesRequests DEF RunStep
  <1>3. run'.todo = run.todo /\ Left' = << >>
    BY <1>1 DEF StateOf, Left, CommitsNow
  <1>4. \A i \in ProposalIds : Pending(i)' => Pending(i)
    BY <1>1 DEF Pending
  <1>5. StoreOK(tree)' /\ StoreOK(index)' /\ StoreOK(head)'
    BY <1>1, <1>2 DEF LandInv, PInv, StoreOK
  <1>6. PInv(Anything)' /\ FilingIsFresh'
    BY <1>1, <1>2, <1>4, <1>5, RunKeepsPages, RunLeavesRequests DEF RunInv, LandInv
  <1>7. QueueInv'
    BY <1>2, <1>3, <1>4, QueueShrinks DEF LandInv
  <1> QED BY <1>6, <1>7 DEF LandInv

(* What requests, crashes and the owner do beside a run.                      *)
LEMMA RequestsLand ==
  ASSUME Environment, RunInv, LandInv, Next, UNCHANGED runVars
  PROVE  LandInv'
  <1>1. WInv
    BY DEF WInv, RunInv, RequestInv, LandInv, FilingIsFresh
  <1>2. {} \in Anything
    BY DEF Anything
  <1>3. PInv(Anything)'
    BY <1>1, <1>2, StepsKeepPages DEF LandInv
  <1>4. FilingIsFresh' /\ \A i \in minted : Untouched(i) => Untouched(i)'
    BY RequestsStayApart DEF RunInv, LandInv
  <1>5. minted \subseteq minted' /\ run' = run
    BY StepsBesideRun DEF RunInv, SparesTheRun, runVars
  <1>6. Left' = Left
    BY <1>5 DEF Left, CommitsNow
  <1>7. ASSUME NEW k \in 1 .. Len(Left), NEW i \in ProposalIds, FilesUnder(Left[k], i)
        PROVE  /\ i \in minted' /\ Original(i, Left[k].data, Anything)
               /\ Untouched(i)' \/ (run.pc = "written" /\ k = 1)
               /\ \A m \in 1 .. Len(Left) : FilesUnder(Left[m], i) => m = k
    BY <1>4, <1>5, <1>7 DEF LandInv, QueueInv
  <1>8. \A c \in run'.todo, i \in ProposalIds : Quotes(c.page, i) => i \in minted'
    BY <1>5 DEF LandInv, QueueInv
  <1>9. QueueInv'
    BY <1>5, <1>6, <1>7, <1>8, QueueComesTo
  <1> QED BY <1>3, <1>4, <1>9 DEF LandInv

LEMMA LandStarts ==
  ASSUME Environment, RunInit
  PROVE  LandInv
  <1>1. /\ Init /\ run = Resting /\ PInv(Anything)
        /\ \A h \in Handlers : req[h] = Idle
    BY PagesStartOK DEF Environment, RunInit, Init
  <1>2. run.todo = {} /\ Left = << >>
    BY <1>1, RestIs DEF StateOf, Left, CommitsNow
  <1>3. QueueInv
    BY <1>2, RestIs DEF QueueInv
  <1>4. \A h \in Handlers : ~ Filing(h)
    BY <1>1 DEF Filing, Idle
  <1>5. FilingIsFresh
    BY <1>4 DEF FilingIsFresh, FilesItsOwn
  <1> QED BY <1>1, <1>3, <1>5 DEF LandInv

LEMMA LandStepsKeep ==
  ASSUME Environment
  PROVE  RunInv /\ LandInv /\ [RunNext]_<<vars, runVars>> => LandInv'
  <1> SUFFICES ASSUME RunInv, LandInv, [RunNext]_<<vars, runVars>> PROVE LandInv'
    OBVIOUS
  <1>1. CASE Next /\ UNCHANGED runVars     BY <1>1, RequestsLand
  <1>2. CASE Start                         BY <1>2, StartLands
  <1>3. CASE Scan \/ Skip \/ GiveUpOnPage \/ RunDies
    BY <1>3, PauseLands
  <1>4. CASE Extract                       BY <1>4, ExtractLands
  <1>5. CASE End                           BY <1>5, EndLands
  <1>6. CASE RunRemove                     BY <1>6, RemoveLands
  <1>7. CASE RunWrite                      BY <1>7, WriteLands
  <1>8. CASE RunAdd                        BY <1>8, AddLands
  <1>9. CASE RunFinish                     BY <1>9, FinishLands
  <1>10. CASE UNCHANGED <<vars, runVars>>
    <2>1. UNCHANGED <<tree, index, head, req, minted, landed, run>>
      BY <1>10 DEF vars, runVars
    <2>2. FilingIsFresh' /\ PInv(Anything)'
      BY <2>1, QuietVaultLands DEF RunInv, LandInv
    <2>3. Left' = Left
      BY <2>1 DEF Left, CommitsNow
    <2>4. QueueInv'
      <3>1. \A i \in ProposalIds : Untouched(i) => Untouched(i)'
        BY <2>1 DEF Untouched, Pending
      <3> QED BY <2>1, <2>3, <3>1, QueueComesTo DEF LandInv, QueueInv
    <2> QED BY <2>2, <2>4 DEF LandInv
  <1> QED BY <1>1, <1>2, <1>3, <1>4, <1>5, <1>6, <1>7, <1>8, <1>9, <1>10 DEF RunNext, RunStep

(* AppliedAtMostOnce, with runs filing and superseding proposals beside any   *)
(* number of requests, failing and restarting (run.go's commitBatch writes    *)
(* each proposal once; supersede takes out of review/ what may be loaded): no *)
(* page, on disk, staged or in HEAD, holds a pinned proposal's claims twice.  *)
THEOREM RunsLandOnce ==
  ASSUME Environment
  PROVE  RunSpec => []AppliedAtMostOnce
  <1>1. RunInit => LandInv
    BY LandStarts
  <1>2. RunInv /\ LandInv /\ [RunNext]_<<vars, runVars>> => LandInv'
    BY LandStepsKeep
  <1>3. LandInv => AppliedAtMostOnce
    BY LandsOnce DEF LandInv
  <1> QED BY <1>1, <1>2, <1>3, RunHolds, PTL DEF RunSpec

===============================================================================
