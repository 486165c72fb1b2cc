------------------------------- MODULE MCReview -------------------------------
EXTENDS Review, TLC

CONSTANTS h1, h2, i1, i2, s1, s2, b1, b2, o, w1, w2, e1, e2

MCPaths       == VaultPaths
MCWording     == (i1 :> w1) @@ (i2 :> w2)
MCRewording   == (i1 :> e1) @@ (i2 :> e2)

Seen == [body |-> b1, claims |-> <<[id |-> 1, text |-> o, status |-> "active"]>>]

\* s1 exists, s2 is free for a new page; the owner rewrites the body or saves a
\* buffer opened at the very start.
MCTwoPages == (s1 :> Seen) @@ (s2 :> Absent)

MCAnySave(page) == {[page EXCEPT !.body = b2], Seen}

\* One page, yet to be made; the owner saves it as it was made.
MCNoPage == s1 :> Absent

MCStaleSave(page) == {[page EXCEPT !.claims = << >>]}

NoLegacy == << >>

\* Handlers are alike, and so are the ids, each with the texts it comes with.
SameIds == [x \in {i1, i2, w1, w2, e1, e2} |-> x]

SwapIds ==
  (i1 :> i2) @@ (i2 :> i1) @@ (w1 :> w2) @@ (w2 :> w1) @@ (e1 :> e2) @@ (e2 :> e1)

Symmetry == {p @@ q : p \in Permutations(Handlers), q \in {SameIds, SwapIds}}

VARIABLE serial  \* history: requests came one after another, and nothing failed

OneAtATime == \A g, h \in Handlers : req[g] # Idle /\ req[h] # Idle => g = h

MCInit == Init /\ serial = TRUE

MCNext == Next /\ serial' = (serial /\ OneAtATime' /\ faults' = 0)

MCSpec == MCInit /\ [][MCNext]_<<vars, serial>>

(* As long as no two requests overlap and nothing fails, a page edit and the  *)
(* removal of its proposal come together in HEAD (handleReviewAccept).        *)
WholeWhileSerial == serial => NeverHalfAccepted

(* As long as no two requests overlap and nothing fails, the propose tool     *)
(* leaves a page at most one pending proposal (pending.go).                   *)
OnePendingWhileSerial == serial => OnePendingPerTarget

(* As long as no two requests overlap and nothing fails, a proposal is        *)
(* accepted or rejected and never both.                                       *)
OneDecisionWhileSerial == serial => OneDecision

(* As long as no two requests overlap and nothing fails, what a finished      *)
(* request staged is committed (GitPageStore.Commit).                         *)
CommittedWhileSerial == serial => QuietVaultIsCommitted

\* The instances are as the theorems about pages ask.
Proved == INSTANCE ReviewProofs

ASSUME InstanceIsProved ==
  /\ Proved!TextsAreApart /\ Proved!VaultStartsUnproposed
  /\ Proved!LegacyIsUnpinned /\ Proved!LegacyOnePerTarget

===============================================================================
