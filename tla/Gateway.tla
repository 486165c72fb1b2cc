-------------------------------- MODULE Gateway --------------------------------
(* The MCP server (internal/mcp) between its agents and the vault: the gate of *)
(* the HTTP transport, authentication, each tool's calls of the index and the  *)
(* files one by one, and the audit row; beside them the indexer, the owner's   *)
(* agents and tokens, a run of propose_pages and the clock.                    *)
(*                                                                             *)
(* A world is a small choice of what may happen (tokens, requests, pages);     *)
(* many worlds are checked in one run.                                         *)
EXTENDS RateLimit, Tokens, ProposeRun

CONSTANTS
  CallIds,
  Creators,         \* requests of the owner to create an agent
  Worlds,           \* bound
  DayLength,
  Header            \* the frontmatter of a memory page

ToolNames == {"pages", "fetch", "related", "search", "context", "remember"}

ASSUME WorldsAreSound ==
  \A w \in Worlds :
    /\ w.calls \subseteq CallIds
    /\ \A req \in w.requests : /\ req.token \in Keys /\ req.tool \in ToolNames
                               /\ {req.limit, req.depth, req.budget} \subseteq Int
    /\ \A p \in w.inbox : {"kind", "scope", "target", "cites", "status"} \subseteq DOMAIN p
    /\ DOMAIN EmptyTables \subseteq DOMAIN w.db
    /\ w.script \in Seq(ToSet(w.script))
    /\ \A k \in DOMAIN w.script : w.script[k].op \in {"upsert", "claims", "edges", "prune"}
    /\ \A id \in DOMAIN w.tokens :
         /\ {"revoked", "expires", "used"} \subseteq DOMAIN w.tokens[id]
         /\ w.tokens[id].expires \in Nat \cup {Never}
    /\ \A spec \in w.commands \cup {w.creates[who] : who \in DOMAIN w.creates} :
         spec.expires \in Nat \cup {Never}

ASSUME NeverIsNoTime == Never \notin Nat

\* What a memory page is: lines, the first of them its frontmatter and no other.
IsLogPage(lines) ==
  /\ lines \in Seq(ToSet(lines))
  /\ lines # << >> => lines[1] = Header
  /\ \A k \in DOMAIN lines : lines[k] = Header => k = 1

ASSUME LogPagesAreSound ==
  /\ DayLength \in Nat \ {0}
  /\ \A w \in Worlds :
       /\ DOMAIN w.memory = MemoryPaths
       /\ \A path \in MemoryPaths : IsLogPage(w.memory[path])
       /\ \A req \in w.requests, at \in 0..(DayLength - 1) :
            [at |-> at, text |-> req.text] # Header

VARIABLES
  world,       \* the world chosen
  tokens,      \* agent_tokens
  calls,       \* the tool calls that are sent
  audit,       \* audit_log: the rows each call wrote
  script,      \* the statements of an indexer still to come
  creating,    \* handleCreateAgent between its check and its insert
  ownerLog,    \* admin_audit
  raced        \* history: memory files written over a change not read

gateVars == <<world, tokens, calls, audit, script, creating, ownerLog, raced>>

vars == <<limiterVars, proposeVars, gateVars>>

\* What a step on calls alone leaves as it is.
Others == UNCHANGED <<limiterVars, proposeVars, world, tokens, audit, script, creating,
                      ownerLog, raced>>

\* Of a call's fields three are history: late, whether its token was revoked or
\* expired when it was sent; owned, the pages that have been in its scopes since
\* it was let in; quiet, whether the index is as it was then.
Fresh(req) ==
  [pc |-> IF req.http THEN "gate" ELSE "auth", req |-> req,
   late |-> req.token \in DOMAIN tokens
              /\ (tokens[req.token].revoked \/ Expired(tokens[req.token], clock)),
   owned |-> {}, quiet |-> TRUE,
   held |-> {}, rows |-> {}, claims |-> {}, hits |-> {}, found |-> {}, near |-> {},
   visited |-> {}, next |-> {}, hops |-> 0, path |-> None, at |-> 0, base |-> << >>,
   saw |-> << >>, pages |-> {}, aside |-> {}, outcome |-> "none"]

Send(c) ==
  /\ c \in world.calls \ DOMAIN calls
  /\ \E req \in world.requests :
       calls' = [d \in DOMAIN calls \cup {c} |-> IF d = c THEN Fresh(req) ELSE calls[d]]
  /\ Others

At(c, pc) == c \in DOMAIN calls /\ calls[c].pc = pc

\* A call with some of its fields changed; the other calls and the rest alone.
Step(c, call) == calls' = [calls EXCEPT ![c] = call] /\ Others

End(c, outcome) == [calls[c] EXCEPT !.pc = "done", !.outcome = outcome]

\* The tool's answer, or its refusal, is settled; the audit row is next.
Answered(call, pages, aside) ==
  [call EXCEPT !.pc = "audit", !.outcome = "ok", !.pages = pages, !.aside = aside]

Failed(call, outcome) == [call EXCEPT !.pc = "audit", !.outcome = outcome]

-------------------------------------------------------------------------------
(* The gate and the choke point all handlers share. *)

\* The 401 of authMiddleware.ServeHTTP, and a handler's return when authenticate
\* fails: the token is dead or unknown, or its row cannot be read.
TurnedAway(c) ==
  /\ At(c, "gate") \/ At(c, "auth")
  /\ ~TokenLive(tokens, calls[c].req.token, clock) \/ world.faults
  /\ Step(c, End(c, "unauthorized"))

\* The gate's 429.
GateLimits(c) ==
  /\ At(c, "gate") /\ TokenLive(tokens, calls[c].req.token, clock)
  /\ Refuse(calls[c].req.token)
  /\ Step(c, End(c, "limited"))

GateAdmits(c) ==
  /\ At(c, "gate") /\ TokenLive(tokens, calls[c].req.token, clock)
  /\ Admit(calls[c].req.token)
  /\ calls' = [calls EXCEPT ![c].pc = "auth"]
  /\ UNCHANGED <<proposeVars, world, tokens, audit, script, creating, ownerLog, raced>>

\* What else asks a limiter: a session's other requests, and the attempts to
\* log in, keyed by address (handleAuthLogin).
OtherRequest(key) ==
  /\ key \in world.others
  /\ Admit(key)
  /\ UNCHANGED <<proposeVars, gateVars>>

Capability(tool) == IF tool = "remember" THEN "remember" ELSE "read"

\* The early returns of the handlers before their first read.
Refused(req, token) ==
  \/ ~HasCapability(token, Capability(req.tool))
  \/ req.scope # None /\ ~AllowsScope(token, req.scope)
  \/ req.scope = None /\ req.tool \in {"remember", "fetch", "related"}
  \/ req.tool = "context" /\ req.budget < -1
  \/ req.tool = "remember" /\ req.text = None

FirstStep(tool) ==
  CASE tool = "pages"                 -> "list"
    [] tool \in {"fetch", "related"}  -> "page"
    [] tool \in {"search", "context"} -> "search"
    [] tool = "remember"              -> "read"

\* rememberPath: a file an agent, scope and day; the agent is named by the token.
RememberPath(scope, name, when) == [scope |-> scope, agent |-> name, day |-> when \div DayLength]

\* authenticate, the row it touches, and the handler up to its first read.
Authenticate(c) ==
  /\ At(c, "auth") /\ TokenLive(tokens, calls[c].req.token, clock)
  /\ \/ tokens' = TouchToken(tokens, calls[c].req.token)
     \/ world.faults /\ UNCHANGED tokens
  /\ LET call  == calls[c]
         req   == call.req
         token == tokens[req.token]
         held  == IF req.scope = None THEN token.scopes ELSE {req.scope}
     IN calls' = [calls EXCEPT ![c] =
          IF Refused(req, token) THEN Failed(call, "refused")
          ELSE [call EXCEPT !.pc = FirstStep(req.tool), !.held = held, !.owned = Owned(db, held),
                            !.path = IF req.tool = "remember"
                                     THEN RememberPath(req.scope, token.name, clock)
                                     ELSE None,
                            !.at = clock % DayLength]]
  /\ UNCHANGED <<limiterVars, proposeVars, world, audit, script, creating, ownerLog, raced>>

-------------------------------------------------------------------------------
(* The tools, one call of the store a step. *)

\* pages
ListStep(c) ==
  /\ At(c, "list")
  /\ LET req    == calls[c].req
         filter == [types |-> req.types, tags |-> {}, status |-> {}, historical |-> FALSE,
                    limit |-> PagesLimit(req.limit)]
     IN \E pages \in ListPages(db, calls[c].held, filter) :
          Step(c, Answered(calls[c], pages, {}))

\* fetch, and the first read of related
PageStep(c) ==
  /\ At(c, "page")
  /\ LET req == calls[c].req
         uid == GetPage(db, calls[c].held, req.scope, req.slug)
     IN Step(c, IF uid = None THEN Failed(calls[c], "not_found")
                ELSE IF req.tool = "fetch" THEN Answered(calls[c], {uid}, {})
                ELSE [calls[c] EXCEPT !.pc = "back", !.visited = {uid}, !.next = {uid}])

\* GetRelations, for the backlinks alone.
BackStep(c) ==
  /\ At(c, "back")
  /\ LET uid == CHOOSE u \in calls[c].visited : TRUE
     IN Step(c, [calls[c] EXCEPT !.pc = "hop",
                   !.aside = {e.from : e \in Backlinks(db, calls[c].held, uid)}])

\* One turn of related's loop, or its end; the page itself is in the audit row.
HopStep(c) ==
  /\ At(c, "hop")
  /\ LET call == calls[c]
         more == /\ call.hops < Depth(call.req.depth) /\ call.next # {}
                 /\ Cardinality(call.visited) < MaxNodes
         edges == OutboundNeighbors(db, call.held, call.next, {})
     IN \/ /\ more
           /\ \E new \in Hops(db, call.visited, edges) :
                Step(c, [call EXCEPT !.hops = @ + 1, !.visited = @ \cup new, !.next = new])
        \/ ~more /\ Step(c, Answered(call, call.visited, call.aside))

\* SearchClaims, for search and context: the lexical arms,
LexStep(c) ==
  /\ At(c, "search")
  /\ \E semantic \in world.semantic :
       LET call == calls[c]
           rows == LexTrigramRows(db, call.held, call.req.query, call.req.historical)
       IN Step(c, [call EXCEPT !.rows = rows,
                     !.pc = IF semantic THEN "texts" ELSE "meta"])

\* ... the texts of the semantic arm and their vectors,
TextsStep(c) ==
  /\ At(c, "texts")
  /\ LET call  == calls[c]
         texts == CandidateClaims(db, call.held, call.req.historical)
     IN Step(c, [call EXCEPT !.claims = texts, !.pc = IF texts = {} THEN "meta" ELSE "vectors"])

VectorsStep(c) ==
  /\ At(c, "vectors")
  /\ LET call == calls[c]
     IN Step(c, [call EXCEPT !.pc = "meta",
                   !.rows = @ \cup SemanticRows(call.claims, db.vectors, call.req.query)])

\* ... and what the documents are called now.
MetaStep(c) ==
  /\ At(c, "meta")
  /\ LET call == calls[c]
         most == IF call.req.tool = "search" THEN TopK(call.req.limit) ELSE SearchTopK
     IN \E best \in BestOf(Fused(call.rows), most) :
          LET hits == {HitOf(db, d) : d \in {e \in best : e.uid \in Owned(db, call.held)}}
          IN Step(c, IF call.req.tool = "search"
                     THEN Answered(call, {hit.uid : hit \in hits}, {})
                     ELSE [call EXCEPT !.pc = "load", !.hits = hits])

Named(candidates) == {d.uid : d \in candidates}

\* contextCandidates: each hit's page as it is by now, the best first and none
\* twice; then the pages they specialize.
LoadStep(c) ==
  /\ At(c, "load")
  /\ \E hit \in calls[c].hits :
       LET call == calls[c]
           uid  == GetPage(db, call.held, hit.scope, hit.slug)
       IN /\ \A other \in call.hits : other.score <= hit.score
          /\ Step(c, [call EXCEPT !.hits = @ \ {hit},
                        !.found = IF uid = None \/ uid \in Named(call.found) THEN @
                                  ELSE @ \cup {Candidate(db, uid, hit.score, Cardinality(@) + 1)}])

ExpandStep(c) ==
  /\ At(c, "load") /\ calls[c].hits = {}
  /\ LET call  == calls[c]
         kinds == {"specializes"} \cup (IF call.req.historical THEN {"supersedes"} ELSE {})
     IN Step(c, [call EXCEPT !.pc = "expand",
                   !.near = {e.to : e \in OutboundNeighbors(db, call.held, Named(call.found), kinds)}])

\* ... read in no particular order, then ordered and packed.
PackStep(c) ==
  /\ At(c, "expand")
  /\ LET call     == calls[c]
         expanded == PagesByUIDs(db, call.held, call.near \ Named(call.found))
         first    == Cardinality(call.found) + 1
     IN \E at \in Bijection(expanded, first..(first + Cardinality(expanded) - 1)) :
          LET all  == call.found \cup {Candidate(db, uid, 0, at[uid]) : uid \in expanded}
              kept == {d \in all : call.req.historical \/ ~d.historical}
          IN \E pages \in Packs(kept, Budget(call.req.budget)) :
               Step(c, Answered(call, Named(pages), Named(kept \ pages)))

\* Mutant: whatever goes wrong with the read is taken for "no such file".
ReadTakesErrorForAbsence(c) ==
  /\ At(c, "read")
  /\ \/ Step(c, [calls[c] EXCEPT !.pc = "write", !.base = memory[calls[c].path],
                                 !.saw = memory[calls[c].path]])
     \/ world.faults /\ Step(c, [calls[c] EXCEPT !.pc = "write", !.base = << >>,
                                                 !.saw = memory[calls[c].path]])

\* remember reads the day's file; an error other than its absence ends the call.
ReadStep(c) ==
  /\ At(c, "read")
  /\ \/ Step(c, [calls[c] EXCEPT !.pc = "write", !.base = memory[calls[c].path],
                                 !.saw = memory[calls[c].path]])
     \/ world.faults /\ Step(c, Failed(calls[c], "error"))

\* Mutant: the day's first entry starts a file without its frontmatter.
LogPageBare(base) == base

LogPage(base) == IF base = << >> THEN <<Header>> ELSE base

\* ... and commits it with its entry; the commit may fail with the file written.
WriteStep(c) ==
  /\ At(c, "write")
  /\ LET call  == calls[c]
         entry == [at |-> call.at, text |-> call.req.text]
     IN /\ memory' = [memory EXCEPT ![call.path] = Append(LogPage(call.base), entry)]
        /\ raced' = IF memory[call.path] # call.saw THEN raced \cup {call.path} ELSE raced
        /\ \/ calls' = [calls EXCEPT ![c] = Answered(call, {}, {})]
           \/ world.faults /\ calls' = [calls EXCEPT ![c] = Failed(call, "error")]
  /\ UNCHANGED <<limiterVars, db, existing, inbox, decided, prun, started, crossed,
                 world, tokens, audit, script, creating, ownerLog>>

Reading == {"list", "page", "back", "hop", "search", "texts", "vectors", "meta", "load", "expand"}

\* A read of the index fails.
ReadFails(c) ==
  /\ world.faults /\ c \in DOMAIN calls /\ calls[c].pc \in Reading
  /\ Step(c, Failed(calls[c], "error"))

\* recordAudit, best effort: a refusal and a failure have a row of no pages.
AuditStep(c) ==
  /\ At(c, "audit")
  /\ LET call == calls[c]
         row  == [token |-> call.req.token,
                  pages |-> IF call.outcome = "ok" THEN call.pages ELSE {},
                  file  |-> IF call.outcome = "ok" THEN call.path ELSE None]
     IN \/ audit' = [audit EXCEPT ![c] = Append(@, row)]
        \/ world.faults /\ UNCHANGED audit
  /\ calls' = [calls EXCEPT ![c].pc = "done"]
  /\ UNCHANGED <<limiterVars, proposeVars, world, tokens, script, creating, ownerLog, raced>>

ToolStep(c) ==
  \/ ListStep(c) \/ PageStep(c) \/ BackStep(c) \/ HopStep(c)
  \/ LexStep(c) \/ TextsStep(c) \/ VectorsStep(c) \/ MetaStep(c)
  \/ LoadStep(c) \/ ExpandStep(c) \/ PackStep(c)
  \/ ReadStep(c) \/ WriteStep(c) \/ ReadFails(c) \/ AuditStep(c)

-------------------------------------------------------------------------------
(* Beside the calls. *)

\* The index after a statement; an upsert may be refused.
Applied(statement) ==
  CASE statement.op = "upsert" ->
         IF UpsertOutcome(db, Scopes, statement.uid, statement.row) = "ok"
         THEN UpsertDocument(db, statement.uid, statement.row) ELSE db
    [] statement.op = "claims" -> ReplaceClaims(db, statement.uid, statement.claims)
    [] statement.op = "edges"  -> UpsertEdges(db, statement.edges)
    [] statement.op = "prune"  -> DeleteDocumentsNotIn(db, Scopes, statement.keep)

\* A statement of an indexer (module Reindex has its order and its failures).
IndexStep ==
  /\ script # << >>
  /\ db' = Applied(Head(script))
  /\ script' = Tail(script)
  /\ calls' = [c \in DOMAIN calls |->
       IF calls[c].pc \in Reading \cup {"audit"}
       THEN [calls[c] EXCEPT !.quiet = FALSE, !.owned = @ \cup Owned(db', calls[c].held)]
       ELSE calls[c]]
  /\ UNCHANGED <<limiterVars, memory, existing, inbox, decided, prun, started, crossed,
                 world, tokens, audit, creating, ownerLog, raced>>

TokensOnly == UNCHANGED <<limiterVars, proposeVars, world, calls, audit, script, raced>>

\* handleCreateAgent up to its check of the names in use; 400 and 409 end it.
AgentChecked(who) ==
  /\ creating[who] = "idle"
  /\ LET spec == world.creates[who]
     IN creating' = [creating EXCEPT ![who] =
          IF spec.scopes # {} /\ spec.scopes \subseteq Scopes /\ ~NameTaken(tokens, spec.name)
          THEN "checked" ELSE "done"]
  /\ UNCHANGED <<tokens, ownerLog>> /\ TokensOnly

\* ... CreateToken and its entry in the owner's log, best effort.
AgentInserted(who) ==
  /\ creating[who] = "checked"
  /\ LET spec == world.creates[who]
     IN \E id \in Unused(tokens) :
          /\ tokens' = InsertToken(tokens, id, spec.name, spec.scopes, spec.caps, spec.expires)
          /\ \/ ownerLog' = ownerLog \cup {<<"agent.create", id>>}
             \/ world.faults /\ UNCHANGED ownerLog
  /\ creating' = [creating EXCEPT ![who] = "done"]
  /\ TokensOnly

\* `balise token create`: CreateToken alone.
TokenCommand ==
  /\ \E spec \in world.commands, id \in Unused(tokens) :
       tokens' = InsertToken(tokens, id, spec.name, spec.scopes, spec.caps, spec.expires)
  /\ UNCHANGED <<creating, ownerLog>> /\ TokensOnly

\* handleRevokeAgent, by id and logged; `balise token revoke`, by id or name.
Revoke ==
  /\ \E what \in world.revokes :
       /\ RevokedBy(tokens, what) # {}
       /\ tokens' = RevokeRows(tokens, RevokedBy(tokens, what))
       /\ \/ what \in TokenIds /\ ownerLog' = ownerLog \cup {<<"agent.revoke", what>>}
          \/ UNCHANGED ownerLog
  /\ UNCHANGED creating /\ TokensOnly

\* The run of propose_pages and the owner's decisions on what it files.
Proposing ==
  /\ \/ started < Len(world.runs) /\ StartRun(world.runs[started + 1])
     \/ RunStep
     \/ world.decides /\ OwnerActs
  /\ UNCHANGED <<limiterVars, gateVars>>

TimePasses == clock < world.clock /\ Tick /\ UNCHANGED <<proposeVars, gateVars>>

Init ==
  /\ LimiterInit
  /\ world \in Worlds
  /\ tokens = world.tokens /\ db = world.db /\ memory = world.memory
  /\ existing = world.existing /\ inbox = world.inbox /\ script = world.script
  /\ decided = {} /\ prun = NoRun /\ started = 0 /\ crossed = {}
  /\ calls = << >>
  /\ audit = [c \in CallIds |-> << >>]
  /\ creating = [who \in Creators |-> "idle"]
  /\ ownerLog = {} /\ raced = {}

Next ==
  \/ \E c \in CallIds : Send(c) \/ TurnedAway(c) \/ GateLimits(c) \/ GateAdmits(c)
                          \/ Authenticate(c) \/ ToolStep(c)
  \/ \E key \in Keys : OtherRequest(key)
  \/ IndexStep
  \/ \E who \in Creators \cap DOMAIN world.creates : AgentChecked(who) \/ AgentInserted(who)
  \/ TokenCommand \/ Revoke
  \/ Proposing
  \/ TimePasses

Spec == Init /\ [][Next]_vars

-------------------------------------------------------------------------------

TypeOK ==
  /\ LimiterTypeOK
  /\ \A c \in DOMAIN calls :
       /\ calls[c].pc \in Reading \cup {"gate", "auth", "read", "write", "audit", "done"}
       /\ calls[c].outcome \in
            {"none", "ok", "refused", "not_found", "error", "unauthorized", "limited"}
       /\ calls[c].pages \subseteq Uids /\ calls[c].aside \subseteq Uids
       /\ calls[c].held \subseteq Scopes
  /\ \A path \in MemoryPaths : memory[path] # << >> => memory[path][1] = Header
  /\ existing \subseteq Scopes \X Names
  /\ \A p \in inbox : p.kind \in {"claims", "new_page"}
                        /\ p.status \in {"pending", "accepted", "rejected"}
  /\ creating \in [Creators -> {"idle", "checked", "done"}]

\* mcp/auth.go:57-61: a call sent after its token was revoked or had expired gets no
\* answer.
LateGetNothing ==
  \A c \in DOMAIN calls : calls[c].late => calls[c].outcome \in {"none", "unauthorized"}

\* An answer names pages that were in the call's own scopes while it was served,
\* whatever the indexer moves between its reads.
AnswersInScope == \A c \in DOMAIN calls : calls[c].pages \cup calls[c].aside \subseteq calls[c].owned

\* audit.go:12-18 and 24-28: a call that authenticate lets in leaves one row, with
\* the pages or the file of its answer, unless the row could not be written.  (That
\* one it turns away leaves a row too is EveryInvocationIsAudited, below.)
OneAuditRow ==
  \A c \in DOMAIN calls :
    calls[c].pc = "done" /\ calls[c].outcome \notin {"unauthorized", "limited"} =>
      /\ Len(audit[c]) = 1 \/ (world.faults /\ audit[c] = << >>)
      /\ \A k \in DOMAIN audit[c] :
           IF calls[c].outcome = "ok"
           THEN audit[c][k].pages = calls[c].pages /\ audit[c][k].file = calls[c].path
           ELSE audit[c][k].pages = {} /\ audit[c][k].file = None

\* mcp/auth.go:57-61, audit.go:12-18 and the scopes of every read (queries.go): the
\* three together, whatever tokens are revoked, pages moved and rows lost while
\* calls are served.
AnswersAreAccountable == LateGetNothing /\ AnswersInScope /\ OneAuditRow

\* What the comment of recordAudit says (audit.go:14-22): every handler writes one
\* row per invocation, also when authenticate failed.  Over stdio no gate stands
\* before the handlers, so each of these calls is an invocation; a world without
\* faults writes every row it attempts.
EveryInvocationIsAudited ==
  \A c \in DOMAIN calls :
    calls[c].pc = "done" /\ ~calls[c].req.http /\ ~world.faults => Len(audit[c]) = 1

Occurrences(entry, path) ==
  Cardinality({k \in DOMAIN memory[path] \ {1} : memory[path][k] = entry})

Remembered(path, entry) ==
  {c \in DOMAIN calls : /\ calls[c].req.tool = "remember"
                        /\ calls[c].outcome = "ok" /\ calls[c].path = path
                        /\ [at |-> calls[c].at, text |-> calls[c].req.text] = entry}

\* remember.go:71-134: what an agent was told is remembered is in the day's file,
\* once a call, below what was there before and under one header; unless another
\* call on the same file came between a read and its write.
RememberKeepsEntries ==
  \A path \in MemoryPaths \ raced :
    /\ \A k \in DOMAIN memory[path] : memory[path][k] = Header => k = 1
    /\ \A k \in DOMAIN world.memory[path] :
         k \in DOMAIN memory[path] /\ memory[path][k] = world.memory[path][k]
    /\ \A c \in DOMAIN calls : calls[c].path = path =>
         LET entry == [at |-> calls[c].at, text |-> calls[c].req.text]
         IN Occurrences(entry, path) >= Cardinality(Remembered(path, entry))

\* The pages some path of so many hops at most leads to.
Reach(index, held, from, depth) ==
  {uid \in Uids : \E m \in 0..depth : \E path \in [0..m -> Uids] :
     /\ path[0] = from /\ path[m] = uid
     /\ \A k \in 1..m :
          \E e \in OutboundNeighbors(index, held, {path[k - 1]}, {}) : e.to = path[k]}

RelatedIsExact(index, call) ==
  LET uid  == GetPage(index, call.held, call.req.scope, call.req.slug)
      near == Reach(index, call.held, uid, Depth(call.req.depth))
  IN /\ call.pages \subseteq near
     /\ call.pages = near \/ Cardinality(call.pages) = MaxNodes
     /\ call.aside = {e.from : e \in Backlinks(index, call.held, uid)}

\* Documents a claim of which matches the query.
Matching(index, call) ==
  {uid \in InSearch(index, call.held, call.req.historical) :
     \E k \in DOMAIN index.claims[uid] : Lexical(index.claims[uid][k].text, call.req.query) > 0}

Weight(index, uids) == MapThenSumSet(LAMBDA uid : index.rows[uid].tokens, uids)

ContextIsExact(index, call) ==
  LET budget == Budget(call.req.budget)
      match  == Matching(index, call)
      close  == {e.to : e \in OutboundNeighbors(index, call.held, match, {"specializes"})}
      wanted == {uid \in match \cup close : call.req.historical \/ ~index.rows[uid].historical}
      named  == call.pages \cup call.aside
  IN /\ call.pages \cap call.aside = {}
     /\ Weight(index, call.pages) <= budget
     /\ \A uid \in call.aside : Weight(index, call.pages) + index.rows[uid].tokens > budget
     /\ \A uid \in named : call.req.historical \/ ~index.rows[uid].historical
     /\ \/ wanted \subseteq named
        \/ /\ Cardinality(InSearch(index, call.held, call.req.historical)) > SearchTopK
           /\ Cardinality(named) >= SearchTopK

SearchIsExact(index, call) ==
  \/ Matching(index, call) \subseteq call.pages
  \/ Cardinality(call.pages) = TopK(call.req.limit)

ListIsExact(index, call) ==
  LET filter == [types |-> call.req.types, tags |-> {}, status |-> {}, historical |-> FALSE]
      all    == Listed(index, call.held, filter)
  IN /\ call.pages \subseteq all
     /\ call.pages = all \/ Cardinality(call.pages) = PagesLimit(call.req.limit)

AnswerIsExact(index, call) ==
  CASE call.req.tool = "related" -> RelatedIsExact(index, call)
    [] call.req.tool = "context" -> ContextIsExact(index, call)
    [] call.req.tool = "search"  -> SearchIsExact(index, call)
    [] call.req.tool = "pages"   -> ListIsExact(index, call)
    [] OTHER                     -> TRUE

\* context.go:114-308, related.go:108-163, pages.go:93-117, search.go: while the
\* index stays as it was, related names what is within reach, context fills its
\* budget with whole pages, names every match the search has room for and leaves
\* nothing out that would fit, search finds the matches and pages lists up to its limit.
AnswersAreExact ==
  \A c \in DOMAIN calls :
    calls[c].pc = "audit" /\ calls[c].outcome = "ok" /\ calls[c].quiet
      => AnswerIsExact(db, calls[c])

===============================================================================
