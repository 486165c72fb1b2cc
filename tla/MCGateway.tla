------------------------------- MODULE MCGateway -------------------------------
EXTENDS Gateway, TLC

CONSTANTS a, b, x, y, n, s1, s2, u1, u2, u3, u4, u5, k1, k2, k3, k4, addr,
          ada, bob, c1, c2, c3, o1, o2

\* Claims, titles and queries are numbers: a query is in the claim of its number
\* and, less, in the one 10 above it; the claim 20 above it means the same.
MCLexical(text, query) == IF text = query THEN 9 ELSE IF text = query + 10 THEN 4 ELSE 0
MCSimilar(title, query) == IF title = query + 4 THEN 80 ELSE IF title = query THEN 20 ELSE 0
MCCosine(text, query) == IF text = query + 20 THEN 50 ELSE IF text = query THEN 30 ELSE 10

MCKindOrder == [dangling |-> 1, link |-> 2, specializes |-> 3, supersedes |-> 4]

MCNormal == [name \in Names |-> name]

MCConfigured == (k1 :> 2) @@ (k2 :> 2) @@ (k3 :> 2) @@ (k4 :> 2) @@ (addr :> 0)

Page(scope, slug, type, title, size, historical) ==
  [scope |-> scope, slug |-> slug, path |-> <<scope, slug>>, aliases |-> {}, type |-> type,
   title |-> title, status |-> "active", tags |-> {}, tokens |-> size,
   historical |-> historical]

Claimed(texts) == [k \in DOMAIN texts |-> [id |-> k, text |-> texts[k]]]

Edge(from, kind, to) == [from |-> from, to |-> to, ref |-> a, kind |-> kind, field |-> kind]

\* Type 9 is a log's.  u4 is in the other scope and linked both ways.
MCDb ==
  [EmptyTables EXCEPT
     !.rows = (u1 :> Page(s1, a, 1, 1, 2, FALSE)) @@ (u2 :> Page(s1, b, 2, 5, 2, FALSE))
                @@ (u3 :> Page(s1, x, 1, 6, 1, TRUE)) @@ (u4 :> Page(s2, y, 1, 7, 1, FALSE))
                @@ (u5 :> Page(s1, y, 9, 8, 3, FALSE)),
     !.claims = (u1 :> Claimed(<<1, 12>>)) @@ (u2 :> Claimed(<<21, 3>>))
                  @@ (u3 :> Claimed(<<1>>)) @@ (u4 :> Claimed(<<1, 2>>))
                  @@ (u5 :> Claimed(<<11>>)),
     !.edges = {Edge(u1, "specializes", u2), Edge(u1, "link", u4), Edge(u1, "dangling", None),
                Edge(u2, "link", u3), Edge(u2, "specializes", u5), Edge(u3, "supersedes", u1),
                Edge(u4, "link", u1), Edge(u5, "link", u1), Edge(u5, "specializes", u1)},
     !.vectors = {1, 3, 11, 21}]

\* A page goes to the other scope, a second takes its slug, a third is removed.
MCScript ==
  << [op |-> "upsert", uid |-> u1, row |-> Page(s2, a, 1, 1, 2, FALSE)],
     [op |-> "upsert", uid |-> u2, row |-> Page(s1, a, 2, 5, 1, FALSE)],
     [op |-> "claims", uid |-> u2, claims |-> Claimed(<<1>>)],
     [op |-> "edges", edges |-> {Edge(u2, "link", u1)}],
     [op |-> "prune", keep |-> {<<s2, a>>, <<s1, a>>, <<s2, y>>, <<s1, y>>}] >>

Token(name, scopes, caps, expires) ==
  [name |-> name, scopes |-> scopes, caps |-> caps, expires |-> expires, revoked |-> FALSE,
   used |-> FALSE]

Request(tool, token) ==
  [tool |-> tool, token |-> token, scope |-> None, slug |-> a, query |-> 1, depth |-> 0,
   budget |-> -1, historical |-> FALSE, limit |-> 0, types |-> {}, text |-> None,
   http |-> FALSE]

Reads ==
  LET In(tool) == [Request(tool, k1) EXCEPT !.scope = s1]
      Narrow   == Request("context", k1)
      Wide     == Request("context", k2)
  IN {Request("pages", k1), [Request("pages", k2) EXCEPT !.limit = 9, !.types = {1}],
      In("fetch"), [In("fetch") EXCEPT !.scope = s2], [In("fetch") EXCEPT !.scope = None],
      [Request("fetch", k2) EXCEPT !.scope = s2, !.slug = y, !.http = TRUE],
      Request("search", k1), [Request("search", k2) EXCEPT !.limit = 2],
      In("related"), [In("related") EXCEPT !.depth = 2], [In("related") EXCEPT !.depth = 9],
      [Request("related", k2) EXCEPT !.scope = s2, !.slug = y],
      Narrow, [Narrow EXCEPT !.budget = 4], [Narrow EXCEPT !.budget = 2, !.historical = TRUE],
      [Wide EXCEPT !.budget = 4], [Wide EXCEPT !.historical = TRUE], [Wide EXCEPT !.query = 2],
      [Wide EXCEPT !.budget = -2]}

Nothing ==
  [calls |-> {}, requests |-> {}, others |-> {}, script |-> << >>, semantic |-> {TRUE, FALSE},
   creates |-> << >>, commands |-> {}, revokes |-> {}, runs |-> << >>, decides |-> FALSE,
   faults |-> FALSE, clock |-> 0, tokens |-> << >>, db |-> EmptyTables,
   memory |-> [path \in MemoryPaths |-> << >>], existing |-> {}, inbox |-> {}]

All == {"read", "remember"}

\* The pages of the tables and of the script, the log's left out.
MCExisting == {<<s1, a>>, <<s1, b>>, <<s1, x>>, <<s2, y>>, <<s2, a>>}

ReadWorlds ==
  {[Nothing EXCEPT !.calls = {c1}, !.requests = Reads, !.script = MCScript, !.db = MCDb,
      !.existing = MCExisting,
      !.faults = faults, !.revokes = {k1, ada}, !.clock = 1,
      !.tokens = (k1 :> Token(ada, {s1}, All, Never)) @@ (k2 :> Token(bob, {s1, s2}, {"read"}, 0))] :
     faults \in BOOLEAN}

\* A token at its limit, beside other requests of its own and logins.
LimitWorlds ==
  {[Nothing EXCEPT !.calls = {c1}, !.clock = 4, !.others = {k1, addr}, !.db = MCDb,
      !.existing = MCExisting,
      !.requests = {[Request("fetch", k1) EXCEPT !.scope = s1, !.http = TRUE]},
      !.tokens = k1 :> Token(ada, {s1}, All, 3)]}

MemoryPath(scope, agent, day) == [scope |-> scope, agent |-> agent, day |-> day]

Entry(at, text) == [at |-> at, text |-> text]

Note(token, text) ==
  [Request("remember", token) EXCEPT !.scope = s1, !.text = text]

\* Three calls, two of them by tokens of one name, over a midnight.
MemoryWorlds ==
  {[Nothing EXCEPT !.calls = {c1, c2}, !.clock = 2, !.faults = TRUE, !.revokes = {ada},
      !.requests = {Note(k1, 1), Note(k2, 1), [Note(k2, None) EXCEPT !.http = TRUE],
                    [Note(k1, 1) EXCEPT !.scope = s2]},
      !.memory = [@ EXCEPT ![MemoryPath(s1, ada, 0)] = <<Header, Entry(0, 1)>>],
      !.tokens = (k1 :> Token(ada, {s1}, All, Never)) @@ (k2 :> Token(ada, {s1}, All, 1))],
   [Nothing EXCEPT !.calls = {c1, c2, c3}, !.clock = 2,
      !.requests = {Note(k1, 1), Note(k2, 2), [Note(k2, 2) EXCEPT !.scope = s2]},
      !.tokens = (k1 :> Token(ada, {s1}, All, Never)) @@ (k2 :> Token(bob, {s1, s2}, {"remember"}, Never))]}

\* Two requests to create one agent, and the command line beside them.
AgentWorlds ==
  LET spec == [name |-> ada, scopes |-> {s1}, caps |-> All, expires |-> Never] IN
  {[Nothing EXCEPT !.calls = {c1, c2}, !.requests = {Note(k1, 1), Note(k2, 1)},
      !.creates = (o1 :> spec) @@ (o2 :> spec), !.revokes = {k1, ada}],
   [Nothing EXCEPT !.faults = TRUE, !.creates = (o1 :> [spec EXCEPT !.scopes = {}]) @@ (o2 :> spec),
      !.commands = {spec}, !.revokes = {k2}]}

Options(scope, limit, batch, semantic) ==
  [scope |-> scope, limit |-> limit, batch |-> batch, semantic |-> semantic]

\* Runs over a page with a proposal from before; batches that see each other's
\* new pages while the owner decides, and while the indexer takes up a page that
\* was not indexed; notes of two scopes; and an agent that remembers while a run is
\* at work.
PlacementWorlds ==
  LET ada0 == MemoryPath(s1, ada, 0)
      bob0 == MemoryPath(s1, bob, 0)
      Base == [Nothing EXCEPT !.db = MCDb, !.existing = MCExisting \ {<<s2, a>>}]
  IN {[Base EXCEPT !.runs = <<Options(None, 0, 2, FALSE), Options(s1, 2, 1, TRUE)>>,
         !.inbox = {[id |-> 1, kind |-> "claims", scope |-> s1, target |-> b, cites |-> {},
                     status |-> "pending"]},
         !.memory = [@ EXCEPT ![ada0] = <<Header, Entry(0, 1), Entry(1, 2)>>,
                              ![bob0] = <<Header, Entry(1, 1)>>]],
      [Base EXCEPT !.runs = <<Options(None, 0, 1, FALSE), Options(s1, 0, 2, FALSE)>>,
         !.decides = TRUE,
         !.memory = [@ EXCEPT ![ada0] = <<Header, Entry(0, 1), Entry(1, 2)>>,
                              ![bob0] = <<Header, Entry(1, 1)>>]],
      [Base EXCEPT !.runs = <<Options(s1, 0, 1, FALSE)>>, !.decides = TRUE,
         !.db.rows[u2] = NoRow,
         !.script = <<[op |-> "upsert", uid |-> u2, row |-> MCDb.rows[u2]]>>,
         !.inbox = {[id |-> 1, kind |-> "claims", scope |-> s1, target |-> b, cites |-> {},
                     status |-> "pending"]},
         !.memory = [@ EXCEPT ![ada0] = <<Header, Entry(0, 1), Entry(1, 1)>>]],
      [Base EXCEPT !.runs = <<Options(None, 0, 1, FALSE), Options(None, 0, 2, TRUE)>>,
         !.memory = [@ EXCEPT ![ada0] = <<Header, Entry(0, 1)>>,
                              ![MemoryPath(s2, bob, 0)] = <<Header, Entry(0, 1)>>]],
      [Base EXCEPT !.runs = <<Options(s1, 0, 2, FALSE), Options(s1, 0, 2, FALSE)>>,
         !.memory = [@ EXCEPT ![ada0] = <<Header, Entry(0, 1)>>],
         !.calls = {c1}, !.requests = {Note(k1, 2)},
         !.tokens = k1 :> Token(ada, {s1}, All, Never)]}

Decision(note, action, to, claim) ==
  [note |-> note, action |-> action, to |-> to, claim |-> claim]

NewPage(slug, type) == [slug |-> slug, type |-> type, title |-> "ok"]

Answer(decisions, pages) == [decisions |-> decisions, pages |-> pages]

MCAnswers ==
  {Answer(<<Decision(1, "attach", b, "ok")>>, << >>),
   Answer(<<Decision(1, "new_page", n, "ok")>>, <<NewPage(n, 1)>>),
   Answer(<<Decision(1, "skip", None, "ok")>>, << >>),
   Answer(<<Decision(1, "new_page", a, "ok"), Decision(2, "attach", b, "long")>>, << >>),
   Answer(<<Decision(1, "new_page", n, "ok"), Decision(2, "new_page", n, "ok"),
            Decision(1, "attach", b, "ok")>>, <<NewPage(n, 1)>>),
   Answer(<<Decision(1, "attach", a, "bad"), Decision(2, "skip", None, "ok")>>, << >>)}

MCWorlds == ReadWorlds \cup LimitWorlds \cup MemoryWorlds \cup AgentWorlds \cup PlacementWorlds

MCMemoryOrder ==
  <<MemoryPath(s1, ada, 0), MemoryPath(s1, ada, 1), MemoryPath(s1, bob, 0), MemoryPath(s1, bob, 1),
    MemoryPath(s2, ada, 0), MemoryPath(s2, ada, 1), MemoryPath(s2, bob, 0), MemoryPath(s2, bob, 1)>>

MCMemoryPaths == ToSet(MCMemoryOrder)

MCScopeOrder == <<s1, s2>>

\* The worlds are as the theorems about new pages, types and exact answers ask.
Proved == INSTANCE GatewayProofs

ASSUME WorldsAreProved == Proved!WorldsAreIndexed

ASSUME WorldsHaveTypes == Proved!WorldsAreTyped

ASSUME WorldsCanBeRead == Proved!WorldsAreReadable

===============================================================================
