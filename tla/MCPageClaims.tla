----------------------------- MODULE MCPageClaims -----------------------------
EXTENDS PageClaims, TLC

CONSTANTS t1, bare

Add(text, status) == [text |-> text, status |-> status]

MCAdditions ==
  {<< >>, <<Add(bare, "active")>>,
   <<Add(t1, "superseded"), Add(t1, "active")>>}

Answer(put, add) ==
  [keep   |-> {id \in DOMAIN put : "keep" \in put[id]},
   reword |-> [id \in {i \in DOMAIN put : "reword" \in put[i]} |-> t1],
   retire |-> {id \in DOMAIN put : "retire" \in put[id]},
   add    |-> add]

\* Every way of putting each claim into one bucket, and the same with one id,
\* perhaps one the page does not hold, in no bucket or in another.
MCAnswers(list) ==
  LET Invented == MaxID + 1
      Buckets  == {{"keep"}, {"reword"}, {"retire"}}
      exact    == [Ids(list) -> Buckets]
      faulty   == {(id :> b) @@ put :
                     id \in Ids(list) \cup {Invented}, put \in exact,
                     b \in {{}, {"retire"}, {"keep", "reword"}}}
  IN {Answer(put, add) : put \in exact \cup faulty, add \in MCAdditions}

MCAgentAdditions ==
  {<< >>, <<Add(bare, "active")>>, <<Add(t1, "active"), Add(t1, "active")>>}

\* No edit, and one edit of a claim with a good and with a bare text.
MCEdits ==
  {<< >>} \cup {[id \in {n} |-> text] : n \in {1, 3}, text \in {t1, bare}}

===============================================================================
