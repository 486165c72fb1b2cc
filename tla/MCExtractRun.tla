----------------------------- MODULE MCExtractRun -----------------------------
EXTENDS ExtractRun, SequencesExt, TLC

CONSTANTS
  h1, s1, s2, b1, b2, o, w1, w2, w3,
  MaxRequests    \* a bound on the requests beside the runs

MCPaths    == VaultPaths \cup {StatePath}
MCWording  == (1 :> w1) @@ (2 :> w2) @@ (3 :> w3)
MCTwoWords == (1 :> w1) @@ (2 :> w2)

MCOrder    == (s1 :> 1) @@ (s2 :> 2)

Noted == [body |-> b1, claims |-> <<[id |-> 1, text |-> o, status |-> "active"]>>]

MCPages == (s1 :> Noted) @@ (s2 :> Noted)

\* The owner has been over s2 already, and edits s1 alone.
MCEditedPages == (s1 :> Noted) @@ (s2 :> [Noted EXCEPT !.body = b2])

NoLegacy == << >>

\* A run's proposal for s1 that has been waiting since before.
MCWaiting ==
  1 :> Proposal("claims", s1, Noted, CHOOSE c \in ModelAnswers(1, Noted.claims) : c.retire = {})

MCNewBody(page) == IF page.body = b1 THEN {[page EXCEPT !.body = b2]} ELSE {}

VARIABLE asked  \* history: the requests beside the runs, in their order

MCInit == RunInit /\ asked = << >>

\* The operations of the requests this step takes up.
Taken == {req'[h].op : h \in {g \in Handlers : req[g] = Idle /\ req'[g] # Idle}}

MCNext ==
  /\ RunNext
  /\ asked' = asked \o SetToSeq(Taken)
  /\ Len(asked') <= MaxRequests

MCSpec ==
  MCInit /\ [][MCNext]_<<vars, runVars, asked>> /\ WF_<<vars, runVars>>(RunStep)

(* A run leaves its own proposal as the only pending one of each page it      *)
(* extracted (run.go: superseded in the same batch), whatever a reviewer      *)
(* decides meanwhile, as long as no agent proposes beside it.                 *)
FreshUnlessProposed ==
  (\A k \in DOMAIN asked : asked[k] # "propose") => FreshStandsAlone

Proved == INSTANCE ExtractRunProofs

\* What the proofs take of the vault at the start, and of the texts.
ASSUME InstanceIsProved ==
  /\ Proved!TextsAreApart /\ Proved!VaultStartsUnproposed
  /\ Proved!LegacyOnePerTarget

===============================================================================
