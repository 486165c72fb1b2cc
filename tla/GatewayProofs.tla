----------------------------- MODULE GatewayProofs -----------------------------
(* What holds of the server for any tokens, requests, pages and notes: that a  *)
(* dead token gets nothing and a call leaves one audit row, that the limiter's *)
(* bound stands in the whole server, that the state file of propose_pages      *)
(* tells the truth, that an entry a call was told of stays on its page, and    *)
(* that an answer is exact while the index stays as it was.                    *)
EXTENDS Gateway, ProposeRunProofs, FiniteSetTheorems, SequenceTheorems, WellFoundedInduction

(* The limiter alone, for every rate, window and number of keys. *)

\* Of the last `count` calls none is before the window's start, of the others
\* none is after it, and those more than a rate before them are a whole window
\* before it.
KeyInv(key) ==
  LET log == admitted[key]
      len == Len(log)
      w   == windows[key]
      P   == PerMin(key)
  IN /\ \A j \in 1..len : log[j] <= clock
     /\ w = NoWindow => len = 0
     /\ w # NoWindow =>
          /\ 1 <= w.count /\ w.count <= P /\ w.count <= len /\ w.start <= clock
          /\ \A j \in 1..len : j > len - w.count => log[j] >= w.start
          /\ \A j \in 1..len : j <= len - w.count => log[j] <= w.start
          /\ \A j \in 1..len : j <= len - w.count - P => log[j] + Window <= w.start

LimiterInv ==
  /\ LimiterTypeOK
  /\ \A key \in Keys : KeyInv(key)
  /\ BurstBound

LEMMA PerMinIsPositive == \A key \in Keys : PerMin(key) \in Nat \ {0}
  BY ConfiguredIsInt, DefaultIsPositive DEF PerMin

\* One call let through keeps what is known of its key, and the bound.
LEMMA AdmitKeepsKey ==
  ASSUME NEW key \in Keys, LimiterInv, Admit(key)
  PROVE  /\ KeyInv(key)'
         /\ \A i \in DOMAIN admitted'[key] :
              i + 2 * PerMin(key) \in DOMAIN admitted'[key] =>
                admitted'[key][i + 2 * PerMin(key)] - admitted'[key][i] >= Window
  <1> DEFINE log  == admitted[key]
             len  == Len(log)
             w    == windows[key]
             P    == PerMin(key)
             nlog == admitted'[key]
             nw   == windows'[key]
  <1>1. /\ log \in Seq(Nat) /\ len \in Nat /\ clock \in Nat /\ P \in Nat \ {0}
        /\ w \in [start : Nat, count : Nat] \cup {NoWindow} /\ Window \in Nat \ {0}
        /\ \A j \in 1..len : log[j] \in Nat
    BY PerMinIsPositive, WindowIsPositive, MaxClockIsNat DEF LimiterInv, LimiterTypeOK
  <1>2. /\ \A j \in 1..len : log[j] <= clock
        /\ w = NoWindow => len = 0
        /\ w # NoWindow =>
             /\ 1 <= w.count /\ w.count <= P /\ w.count <= len /\ w.start <= clock
             /\ \A j \in 1..len : j > len - w.count => log[j] >= w.start
             /\ \A j \in 1..len : j <= len - w.count => log[j] <= w.start
             /\ \A j \in 1..len : j <= len - w.count - P => log[j] + Window <= w.start
    BY DEF LimiterInv, KeyInv
  <1>3. /\ nlog = Append(log, clock) /\ clock' = clock
        /\ nw = IF Opens(key) THEN [start |-> clock, count |-> 1]
                ELSE [start |-> w.start, count |-> w.count + 1]
    <2>1. windows \in [Keys -> [start : Nat, count : Nat] \cup {NoWindow}]
      BY DEF LimiterInv, LimiterTypeOK
    <2>2. nw = IF Opens(key) THEN [start |-> clock, count |-> 1]
               ELSE [start |-> w.start, count |-> w.count + 1]
      BY <2>1 DEF Admit
    <2>3. nlog = Append(log, clock) /\ clock' = clock
      BY DEF Admit, LimiterInv, LimiterTypeOK
    <2> QED BY <2>2, <2>3
  <1>4. /\ Len(nlog) = len + 1 /\ nlog[len + 1] = clock /\ DOMAIN nlog = 1..(len + 1)
        /\ \A j \in 1..len : nlog[j] = log[j]
        /\ nlog \in Seq(Nat)
    BY <1>1, <1>3
  <1>a. /\ Opens(key) <=> w = NoWindow \/ clock - w.start >= Window
        /\ ~Opens(key) => w.count < P
    BY DEF Opens, Admit, Admits
  <1> HIDE DEF log, len, w, P, nlog, nw
  <1>5. nw # NoWindow /\ nw \in [start : Nat, count : Nat]
    <2>1. CASE Opens(key)
      BY <1>1, <1>3, <2>1, NoWindowIsNone
    <2>2. CASE ~Opens(key)
      <3>1. w \in [start : Nat, count : Nat]
        BY <1>1, <1>a, <2>2
      <3>2. nw \in [start : Nat, count : Nat]
        BY <1>3, <2>2, <3>1
      <3> QED BY <3>2, NoWindowIsNone
    <2> QED BY <2>1, <2>2
  <1>6. /\ 1 <= nw.count /\ nw.count <= P /\ nw.count <= len + 1 /\ nw.start <= clock
        /\ \A j \in 1..len : j > len + 1 - nw.count => log[j] >= nw.start
        /\ \A j \in 1..len : j <= len + 1 - nw.count => log[j] <= nw.start
        /\ \A j \in 1..len : j <= len + 1 - nw.count - P => log[j] + Window <= nw.start
    <2>1. CASE Opens(key)
      <3>1. nw.start = clock /\ nw.count = 1
        BY <1>3, <2>1
      <3>2. CASE w = NoWindow
        BY <1>1, <1>2, <3>1, <3>2
      <3>3. CASE w # NoWindow
        <4>1. clock - w.start >= Window /\ w.start \in Nat /\ w.count \in Nat
          BY <1>1, <1>a, <2>1, <3>3
        <4>2. \A j \in 1..len : j <= len - P => log[j] + Window <= clock
          <5>1. /\ w.count <= P
                /\ \A j \in 1..len : j <= len - w.count => log[j] <= w.start
            BY <1>2, <3>3
          <5>2. \A j \in 1..len : j <= len - P => log[j] <= w.start
            BY <1>1, <4>1, <5>1
          <5> QED BY <1>1, <4>1, <5>2
        <4> QED BY <1>1, <1>2, <3>1, <4>2
      <3> QED BY <3>2, <3>3
    <2>2. CASE ~Opens(key)
      <3>1. /\ w # NoWindow /\ w \in [start : Nat, count : Nat] /\ w.count < P
        BY <1>1, <1>a, <2>2
      <3>2. nw.start = w.start /\ nw.count = w.count + 1
        BY <1>3, <2>2, <3>1
      <3>3. w.start \in Nat /\ w.count \in Nat
        BY <3>1
      <3>4. /\ 1 <= w.count /\ w.count <= len /\ w.start <= clock
            /\ \A j \in 1..len : j > len - w.count => log[j] >= w.start
            /\ \A j \in 1..len : j <= len - w.count => log[j] <= w.start
            /\ \A j \in 1..len : j <= len - w.count - P => log[j] + Window <= w.start
        BY <1>2, <3>1
      <3>5. len + 1 - nw.count = len - w.count
        BY <1>1, <3>2, <3>3
      <3>6. /\ 1 <= nw.count /\ nw.count <= P /\ nw.count <= len + 1 /\ nw.start <= clock
        BY <1>1, <3>1, <3>2, <3>3, <3>4
      <3>7. /\ \A j \in 1..len : j > len + 1 - nw.count => log[j] >= nw.start
            /\ \A j \in 1..len : j <= len + 1 - nw.count => log[j] <= nw.start
            /\ \A j \in 1..len : j <= len + 1 - nw.count - P => log[j] + Window <= nw.start
        <4> SUFFICES ASSUME NEW j \in 1..len
                     PROVE  /\ j > len + 1 - nw.count => log[j] >= nw.start
                            /\ j <= len + 1 - nw.count => log[j] <= nw.start
                            /\ j <= len + 1 - nw.count - P => log[j] + Window <= nw.start
          OBVIOUS
        <4> QED BY <1>1, <3>2, <3>3, <3>4, SMTT(30)
      <3> QED BY <3>6, <3>7
    <2> QED BY <2>1, <2>2
  <1>7. /\ \A j \in 1..(len + 1) : nlog[j] <= clock
        /\ \A j \in 1..(len + 1) : j > len + 1 - nw.count => nlog[j] >= nw.start
        /\ \A j \in 1..(len + 1) : j <= len + 1 - nw.count => nlog[j] <= nw.start
        /\ \A j \in 1..(len + 1) : j <= len + 1 - nw.count - P => nlog[j] + Window <= nw.start
    <2> SUFFICES ASSUME NEW j \in 1..(len + 1)
                 PROVE  /\ nlog[j] <= clock
                        /\ j > len + 1 - nw.count => nlog[j] >= nw.start
                        /\ j <= len + 1 - nw.count => nlog[j] <= nw.start
                        /\ j <= len + 1 - nw.count - P => nlog[j] + Window <= nw.start
      OBVIOUS
    <2>1. nw.count \in Nat /\ nw.start \in Nat
      BY <1>5
    <2>2. CASE j = len + 1
      BY <1>1, <1>4, <1>6, <2>1, <2>2, SMTT(30)
    <2>3. CASE j \in 1..len
      BY <1>1, <1>2, <1>4, <1>6, <2>1, <2>3
    <2> QED BY <1>1, <2>2, <2>3
  <1>8. KeyInv(key)'
    <2>1. Len(nlog) = len + 1 /\ clock' = clock /\ PerMin(key)' = P
      BY <1>3, <1>4 DEF PerMin, P
    <2>2. len + 1 # 0
      BY <1>1
    <2>3. /\ 1 <= nw.count /\ nw.count <= P /\ nw.count <= len + 1 /\ nw.start <= clock
      BY <1>6
    <2>4. /\ admitted'[key] = nlog /\ windows'[key] = nw
      BY DEF nlog, nw
    <2> HIDE DEF P
    <2> DEFINE m == Len(nlog)
    <2>5. m = len + 1 /\ m # 0 /\ nw # NoWindow /\ m \in Nat /\ nw.count \in Nat
      BY <1>1, <1>5, <2>1, <2>2
    <2> HIDE DEF m
    <2>6. /\ \A j \in 1..m : nlog[j] <= clock
          /\ \A j \in 1..m : j > m - nw.count => nlog[j] >= nw.start
          /\ \A j \in 1..m : j <= m - nw.count => nlog[j] <= nw.start
          /\ \A j \in 1..m : j <= m - nw.count - P => nlog[j] + Window <= nw.start
      BY <1>1, <1>7, <2>5
    <2>7. 1 <= nw.count /\ nw.count <= P /\ nw.count <= m /\ nw.start <= clock
      BY <2>3, <2>5
    <2> QED BY ONLY <2>1, <2>4, <2>5, <2>6, <2>7 DEF KeyInv, m
  <1>9. ASSUME NEW i \in DOMAIN nlog, i + 2 * P \in DOMAIN nlog
        PROVE  nlog[i + 2 * P] - nlog[i] >= Window
    <2>1. i \in 1..(len + 1) /\ i + 2 * P \in 1..(len + 1) /\ nw.count \in Nat /\ nw.start \in Nat
      BY <1>4, <1>5, <1>9
    <2>2. CASE i + 2 * P = len + 1
      <3>1. i <= len + 1 - nw.count - P
        BY <1>1, <1>6, <2>1, <2>2
      <3>2. nlog[i] + Window <= nw.start
        BY <1>7, <2>1, <3>1
      <3>3. nlog[i] \in Nat /\ nlog[i + 2 * P] = clock
        BY <1>1, <1>4, <2>1, <2>2
      <3> QED BY <1>1, <1>6, <2>1, <3>2, <3>3
    <2>3. CASE i + 2 * P # len + 1
      <3>1. i \in 1..len /\ i + 2 * P \in 1..len
        BY <1>1, <2>1, <2>3
      <3>2. log[i + 2 * P] - log[i] >= Window
        <4>1. DOMAIN log = 1..len
          BY <1>1 DEF len
        <4>2. i \in DOMAIN log /\ i + 2 * P \in DOMAIN log
          BY <3>1, <4>1
        <4> QED BY <4>2 DEF LimiterInv, BurstBound, log, P
      <3> QED BY <1>4, <3>1, <3>2
    <2> QED BY <2>2, <2>3
  <1> QED BY <1>8, <1>9 DEF nlog, P

LEMMA AdmitKeepsInv ==
  ASSUME NEW key \in Keys, LimiterInv, Admit(key)
  PROVE  LimiterInv'
  <1>1. LimiterTypeOK'
    <2>1. clock' \in 0..MaxClock /\ clock \in Nat
      BY MaxClockIsNat DEF LimiterInv, LimiterTypeOK, Admit
    <2>2. windows' \in [Keys -> [start : Nat, count : Nat] \cup {NoWindow}]
      <3>1. windows \in [Keys -> [start : Nat, count : Nat] \cup {NoWindow}]
        BY DEF LimiterInv, LimiterTypeOK
      <3>2. (IF Opens(key) THEN [start |-> clock, count |-> 1]
             ELSE [start |-> windows[key].start, count |-> windows[key].count + 1])
              \in [start : Nat, count : Nat] \cup {NoWindow}
        <4>1. CASE Opens(key)
          BY <2>1, <4>1
        <4>2. CASE ~Opens(key)
          <5>1. windows[key] \in [start : Nat, count : Nat]
            BY <3>1, <4>2 DEF Opens
          <5>2. [start |-> windows[key].start, count |-> windows[key].count + 1]
                  \in [start : Nat, count : Nat]
            BY <5>1
          <5> QED BY <4>2, <5>2
        <4> QED BY <4>1, <4>2
      <3>3. windows' = [windows EXCEPT ![key] =
                          IF Opens(key) THEN [start |-> clock, count |-> 1]
                          ELSE [start |-> windows[key].start, count |-> windows[key].count + 1]]
        BY <3>1 DEF Admit
      <3> DEFINE new == IF Opens(key) THEN [start |-> clock, count |-> 1]
                        ELSE [start |-> windows[key].start, count |-> windows[key].count + 1]
      <3>4. new \in [start : Nat, count : Nat] \cup {NoWindow}
        BY <3>2
      <3> HIDE DEF new
      <3> QED BY <3>1, <3>3, <3>4 DEF new
    <2>3. admitted' \in [Keys -> Seq(Nat)]
      BY <2>1 DEF LimiterInv, LimiterTypeOK, Admit
    <2> QED BY <2>1, <2>2, <2>3 DEF LimiterTypeOK
  <1>2. \A other \in Keys \ {key} :
          admitted'[other] = admitted[other] /\ windows'[other] = windows[other]
    BY DEF Admit, LimiterInv, LimiterTypeOK
  <1>3. \A other \in Keys \ {key} : KeyInv(other)'
    BY <1>2 DEF LimiterInv, KeyInv, Admit, PerMin
  <1>4. KeyInv(key)'
    BY AdmitKeepsKey
  <1>5. BurstBound'
    <2> SUFFICES ASSUME NEW other \in Keys,
                        NEW i \in DOMAIN admitted'[other],
                        i + 2 * PerMin(other) \in DOMAIN admitted'[other]
                 PROVE  admitted'[other][i + 2 * PerMin(other)] - admitted'[other][i] >= Window
      BY DEF BurstBound, PerMin
    <2>1. CASE other = key
      BY <2>1, AdmitKeepsKey
    <2>2. CASE other # key
      BY <1>2, <2>2 DEF LimiterInv, BurstBound
    <2> QED BY <2>1, <2>2
  <1> QED BY <1>1, <1>3, <1>4, <1>5 DEF LimiterInv

\* The inductive step, with the steps that leave the limiter alone.
LEMMA LimiterStep == LimiterInv /\ [LimiterNext]_limiterVars => LimiterInv'
  <1> SUFFICES ASSUME LimiterInv, [LimiterNext]_limiterVars PROVE LimiterInv'
    OBVIOUS
  <1>1. CASE \E key \in Keys : Admit(key)
    BY <1>1, AdmitKeepsInv
  <1>2. CASE Tick
    <2>1. /\ clock' = clock + 1 /\ clock \in 0..MaxClock /\ clock < MaxClock
          /\ windows' = windows /\ admitted' = admitted
      BY <1>2 DEF Tick, LimiterInv, LimiterTypeOK
    <2>2. LimiterTypeOK'
      BY <2>1, MaxClockIsNat DEF LimiterInv, LimiterTypeOK
    <2>3. BurstBound'
      BY <2>1 DEF LimiterInv, BurstBound, PerMin
    <2>4. ASSUME NEW key \in Keys PROVE KeyInv(key)'
      <3>1. /\ \A j \in 1..Len(admitted[key]) : admitted[key][j] \in Nat
            /\ windows[key] \in [start : Nat, count : Nat] \cup {NoWindow}
        BY <2>4 DEF LimiterInv, LimiterTypeOK
      <3>2. KeyInv(key)
        BY <2>4 DEF LimiterInv
      <3>3. \A j \in 1..Len(admitted[key]) : admitted[key][j] <= clock + 1
        BY <2>1, <3>1, <3>2, MaxClockIsNat DEF KeyInv
      <3>4. windows[key] # NoWindow => windows[key].start <= clock + 1
        BY <2>1, <3>1, <3>2, MaxClockIsNat DEF KeyInv
      <3> QED BY <2>1, <3>2, <3>3, <3>4 DEF KeyInv, PerMin
    <2> QED BY <2>2, <2>3, <2>4 DEF LimiterInv
  <1>3. CASE UNCHANGED limiterVars
    BY <1>3 DEF LimiterInv, LimiterTypeOK, BurstBound, KeyInv, PerMin, limiterVars
  <1>4. CASE \E key \in Keys : Refuse(key)
    BY <1>3, <1>4 DEF Refuse
  <1> QED BY <1>1, <1>2, <1>3, <1>4 DEF LimiterNext

LEMMA LimiterStarts == LimiterInit => LimiterInv
  <1> SUFFICES ASSUME LimiterInit PROVE LimiterInv
    OBVIOUS
  <1>1. LimiterTypeOK
    BY MaxClockIsNat DEF LimiterInit, LimiterTypeOK
  <1>2. \A key \in Keys : KeyInv(key)
    <2> SUFFICES ASSUME NEW key \in Keys PROVE KeyInv(key)
      OBVIOUS
    <2>1. admitted[key] = << >> /\ windows[key] = NoWindow
      BY DEF LimiterInit
    <2>2. Len(admitted[key]) = 0
      BY <2>1
    <2> QED BY <2>1, <2>2 DEF KeyInv
  <1>3. BurstBound
    BY DEF LimiterInit, BurstBound
  <1> QED BY <1>1, <1>2, <1>3 DEF LimiterInv

\* Windows and logs keep their shape (keyWindow).
THEOREM LimiterTypeCorrect == LimiterSpec => []LimiterTypeOK
  <1>1. LimiterInv => LimiterTypeOK
    BY DEF LimiterInv
  <1> QED BY <1>1, LimiterStarts, LimiterStep, PTL DEF LimiterSpec

\* No key ever gets more than twice its rate in a window (ratelimit.go:61-69),
\* for any rate, any window, and however its calls and the clock interleave.
THEOREM BurstsAreBounded == LimiterSpec => []BurstBound
  <1>1. LimiterInv => BurstBound
    BY DEF LimiterInv
  <1> QED BY <1>1, LimiterStarts, LimiterStep, PTL DEF LimiterSpec

-------------------------------------------------------------------------------
(* The whole server. *)

CallFields == {"pc", "req", "late", "outcome", "pages", "path"}

Dead(id) == id \in DOMAIN tokens /\ (tokens[id].revoked \/ Expired(tokens[id], clock))

\* What the code holds of one call: a late one is at the gate or refused and its
\* token is dead; a row is written by the last step alone.
CallInv(c) ==
  /\ CallFields \subseteq DOMAIN calls[c]
  /\ calls[c].req.token \in Keys /\ calls[c].req.tool \in ToolNames
  /\ calls[c].pc # "done" => audit[c] = << >>
  /\ calls[c].late => /\ calls[c].pc \in {"gate", "auth", "done"}
                      /\ calls[c].outcome \in {"none", "unauthorized"}
                      /\ audit[c] = << >>
                      /\ Dead(calls[c].req.token)

RowOf(c) ==
  calls[c].pc = "done" /\ calls[c].outcome \notin {"unauthorized", "limited"} =>
    /\ Len(audit[c]) = 1 \/ (world.faults /\ audit[c] = << >>)
    /\ \A k \in DOMAIN audit[c] :
         IF calls[c].outcome = "ok"
         THEN audit[c][k].pages = calls[c].pages /\ audit[c][k].file = calls[c].path
         ELSE audit[c][k].pages = {} /\ audit[c][k].file = None

CallsInv == \A c \in DOMAIN calls : CallInv(c) /\ RowOf(c)

TokensInv ==
  \A id \in DOMAIN tokens : /\ {"revoked", "expires", "used"} \subseteq DOMAIN tokens[id]
                            /\ tokens[id].expires \in Nat \cup {Never}

GateInv ==
  /\ world \in Worlds
  /\ clock \in Nat
  /\ DOMAIN calls \subseteq CallIds
  /\ DOMAIN audit = CallIds
  /\ \A c \in CallIds \ DOMAIN calls : audit[c] = << >>
  /\ TokensInv
  /\ CallsInv

-------------------------------------------------------------------------------
(* Steps of one call. *)

\* A step that moves a call that was let in, and writes no row.
LEMMA MoveKeepsInv ==
  ASSUME GateInv, NEW c \in DOMAIN calls, NEW new,
         calls' = [calls EXCEPT ![c] = new],
         calls[c].pc \notin {"gate", "auth", "done"},
         CallFields \subseteq DOMAIN new, new.req = calls[c].req, new.late = calls[c].late,
         new.pc # "done",
         UNCHANGED <<world, clock, tokens, audit>>
  PROVE  GateInv'
<1>1. ~calls[c].late /\ audit[c] = << >>
  BY DEF GateInv, CallsInv, CallInv
<1>2. DOMAIN calls' = DOMAIN calls /\ calls'[c] = new
        /\ \A d \in DOMAIN calls \ {c} : calls'[d] = calls[d]
  OBVIOUS
<1>3. ASSUME NEW d \in DOMAIN calls PROVE (CallInv(d) /\ RowOf(d))'
  <2>1. CASE d = c
    BY <1>1, <1>2, <2>1 DEF GateInv, CallsInv, CallInv, RowOf
  <2>2. CASE d # c
    BY <1>2, <2>2 DEF GateInv, CallsInv, CallInv, RowOf, Dead
  <2> QED
    BY <2>1, <2>2
<1> QED
  BY <1>2, <1>3 DEF GateInv, CallsInv, TokensInv

LEMMA AnsweredShape ==
  ASSUME NEW call, CallFields \subseteq DOMAIN call, NEW pages, NEW aside
  PROVE  LET new == Answered(call, pages, aside)
         IN /\ CallFields \subseteq DOMAIN new /\ new.req = call.req
            /\ new.late = call.late /\ new.pc = "audit"
BY DEF Answered, CallFields

LEMMA FailedShape ==
  ASSUME NEW call, CallFields \subseteq DOMAIN call, NEW outcome
  PROVE  LET new == Failed(call, outcome)
         IN /\ CallFields \subseteq DOMAIN new /\ new.req = call.req
            /\ new.late = call.late /\ new.pc = "audit"
BY DEF Failed, CallFields

\* The same for a step on calls alone, of a call in a tool.
LEMMA StepKeepsInv ==
  ASSUME GateInv, NEW c \in DOMAIN calls, NEW new, Step(c, new),
         calls[c].pc \notin {"gate", "auth", "done"},
         CallFields \subseteq DOMAIN new, new.req = calls[c].req, new.late = calls[c].late,
         new.pc # "done"
  PROVE  GateInv'
BY MoveKeepsInv DEF Step, Others, limiterVars

\* The tools: each step moves the call on, or settles its answer or refusal.
LEMMA ListStepKeepsInv ==
  ASSUME GateInv, NEW c, ListStep(c)
  PROVE  GateInv'
<1>1. c \in DOMAIN calls /\ calls[c].pc = "list" /\ CallFields \subseteq DOMAIN calls[c]
  BY DEF ListStep, At, GateInv, CallsInv, CallInv
<1>2. PICK pages : Step(c, Answered(calls[c], pages, {}))
  BY DEF ListStep
<1> QED
  BY <1>1, <1>2, AnsweredShape, StepKeepsInv

LEMMA PageStepKeepsInv ==
  ASSUME GateInv, NEW c, PageStep(c)
  PROVE  GateInv'
<1>1. c \in DOMAIN calls /\ calls[c].pc = "page" /\ CallFields \subseteq DOMAIN calls[c]
  BY DEF PageStep, At, GateInv, CallsInv, CallInv
<1>2. PICK visited :
        \/ \E pages, aside : Step(c, Answered(calls[c], pages, aside))
        \/ \E outcome : Step(c, Failed(calls[c], outcome))
        \/ Step(c, [calls[c] EXCEPT !.pc = "back", !.visited = visited, !.next = visited])
  BY DEF PageStep
<1> DEFINE new == [calls[c] EXCEPT !.pc = "back", !.visited = visited, !.next = visited]
<1>3. /\ CallFields \subseteq DOMAIN new /\ new.req = calls[c].req
      /\ new.late = calls[c].late /\ new.pc # "done"
  BY <1>1 DEF CallFields
<1>4. Step(c, new) \/ (\E pages, aside : Step(c, Answered(calls[c], pages, aside)))
        \/ (\E outcome : Step(c, Failed(calls[c], outcome)))
  BY <1>2
<1> HIDE DEF new
<1> QED
  BY <1>1, <1>3, <1>4, AnsweredShape, FailedShape, StepKeepsInv

LEMMA BackStepKeepsInv ==
  ASSUME GateInv, NEW c, BackStep(c)
  PROVE  GateInv'
<1>1. c \in DOMAIN calls /\ calls[c].pc = "back" /\ CallFields \subseteq DOMAIN calls[c]
  BY DEF BackStep, At, GateInv, CallsInv, CallInv
<1>2. PICK aside :
        Step(c, [calls[c] EXCEPT !.pc = "hop", !.aside = aside])
  BY DEF BackStep
<1> DEFINE new == [calls[c] EXCEPT !.pc = "hop", !.aside = aside]
<1>3. /\ CallFields \subseteq DOMAIN new /\ new.req = calls[c].req
      /\ new.late = calls[c].late /\ new.pc # "done"
  BY <1>1, <1>2 DEF CallFields
<1> HIDE DEF new
<1>4. Step(c, new)
  BY <1>2 DEF new
<1> QED
  BY <1>1, <1>3, <1>4, StepKeepsInv

LEMMA HopStepKeepsInv ==
  ASSUME GateInv, NEW c, HopStep(c)
  PROVE  GateInv'
<1>1. c \in DOMAIN calls /\ calls[c].pc = "hop" /\ CallFields \subseteq DOMAIN calls[c]
  BY DEF HopStep, At, GateInv, CallsInv, CallInv
<1>2. PICK hops, visited, next :
        \/ \E pages, aside : Step(c, Answered(calls[c], pages, aside))
        \/ \E outcome : Step(c, Failed(calls[c], outcome))
        \/ Step(c, [calls[c] EXCEPT !.hops = hops, !.visited = visited, !.next = next])
  BY DEF HopStep
<1> DEFINE new == [calls[c] EXCEPT !.hops = hops, !.visited = visited, !.next = next]
<1>3. /\ CallFields \subseteq DOMAIN new /\ new.req = calls[c].req
      /\ new.late = calls[c].late /\ new.pc # "done"
  BY <1>1 DEF CallFields
<1>4. Step(c, new) \/ (\E pages, aside : Step(c, Answered(calls[c], pages, aside)))
        \/ (\E outcome : Step(c, Failed(calls[c], outcome)))
  BY <1>2
<1> HIDE DEF new
<1> QED
  BY <1>1, <1>3, <1>4, AnsweredShape, FailedShape, StepKeepsInv

LEMMA LexStepKeepsInv ==
  ASSUME GateInv, NEW c, LexStep(c)
  PROVE  GateInv'
<1>1. c \in DOMAIN calls /\ calls[c].pc = "search" /\ CallFields \subseteq DOMAIN calls[c]
  BY DEF LexStep, At, GateInv, CallsInv, CallInv
<1>2. PICK rows, pc :
        pc \in {"texts", "meta"} /\ Step(c, [calls[c] EXCEPT !.rows = rows, !.pc = pc])
  BY DEF LexStep
<1> DEFINE new == [calls[c] EXCEPT !.rows = rows, !.pc = pc]
<1>3. /\ CallFields \subseteq DOMAIN new /\ new.req = calls[c].req
      /\ new.late = calls[c].late /\ new.pc # "done"
  BY <1>1, <1>2 DEF CallFields
<1> HIDE DEF new
<1>4. Step(c, new)
  BY <1>2 DEF new
<1> QED
  BY <1>1, <1>3, <1>4, StepKeepsInv

LEMMA TextsStepKeepsInv ==
  ASSUME GateInv, NEW c, TextsStep(c)
  PROVE  GateInv'
<1>1. c \in DOMAIN calls /\ calls[c].pc = "texts" /\ CallFields \subseteq DOMAIN calls[c]
  BY DEF TextsStep, At, GateInv, CallsInv, CallInv
<1>2. PICK claims, pc :
        pc \in {"meta", "vectors"} /\ Step(c, [calls[c] EXCEPT !.claims = claims, !.pc = pc])
  BY DEF TextsStep
<1> DEFINE new == [calls[c] EXCEPT !.claims = claims, !.pc = pc]
<1>3. /\ CallFields \subseteq DOMAIN new /\ new.req = calls[c].req
      /\ new.late = calls[c].late /\ new.pc # "done"
  BY <1>1, <1>2 DEF CallFields
<1> HIDE DEF new
<1>4. Step(c, new)
  BY <1>2 DEF new
<1> QED
  BY <1>1, <1>3, <1>4, StepKeepsInv

LEMMA VectorsStepKeepsInv ==
  ASSUME GateInv, NEW c, VectorsStep(c)
  PROVE  GateInv'
<1>1. c \in DOMAIN calls /\ calls[c].pc = "vectors" /\ CallFields \subseteq DOMAIN calls[c]
  BY DEF VectorsStep, At, GateInv, CallsInv, CallInv
<1>2. PICK rows :
        Step(c, [calls[c] EXCEPT !.pc = "meta", !.rows = rows])
  BY DEF VectorsStep
<1> DEFINE new == [calls[c] EXCEPT !.pc = "meta", !.rows = rows]
<1>3. /\ CallFields \subseteq DOMAIN new /\ new.req = calls[c].req
      /\ new.late = calls[c].late /\ new.pc # "done"
  BY <1>1, <1>2 DEF CallFields
<1> HIDE DEF new
<1>4. Step(c, new)
  BY <1>2 DEF new
<1> QED
  BY <1>1, <1>3, <1>4, StepKeepsInv

LEMMA MetaStepKeepsInv ==
  ASSUME GateInv, NEW c, MetaStep(c)
  PROVE  GateInv'
<1>1. c \in DOMAIN calls /\ calls[c].pc = "meta" /\ CallFields \subseteq DOMAIN calls[c]
  BY DEF MetaStep, At, GateInv, CallsInv, CallInv
<1>2. PICK hits :
        \/ \E pages, aside : Step(c, Answered(calls[c], pages, aside))
        \/ \E outcome : Step(c, Failed(calls[c], outcome))
        \/ Step(c, [calls[c] EXCEPT !.pc = "load", !.hits = hits])
  BY DEF MetaStep
<1> DEFINE new == [calls[c] EXCEPT !.pc = "load", !.hits = hits]
<1>3. /\ CallFields \subseteq DOMAIN new /\ new.req = calls[c].req
      /\ new.late = calls[c].late /\ new.pc # "done"
  BY <1>1 DEF CallFields
<1>4. Step(c, new) \/ (\E pages, aside : Step(c, Answered(calls[c], pages, aside)))
        \/ (\E outcome : Step(c, Failed(calls[c], outcome)))
  BY <1>2
<1> HIDE DEF new
<1> QED
  BY <1>1, <1>3, <1>4, AnsweredShape, FailedShape, StepKeepsInv

LEMMA LoadStepKeepsInv ==
  ASSUME GateInv, NEW c, LoadStep(c)
  PROVE  GateInv'
<1>1. c \in DOMAIN calls /\ calls[c].pc = "load" /\ CallFields \subseteq DOMAIN calls[c]
  BY DEF LoadStep, At, GateInv, CallsInv, CallInv
<1>2. PICK hits, found :
        Step(c, [calls[c] EXCEPT !.hits = hits, !.found = found])
  BY DEF LoadStep
<1> DEFINE new == [calls[c] EXCEPT !.hits = hits, !.found = found]
<1>3. /\ CallFields \subseteq DOMAIN new /\ new.req = calls[c].req
      /\ new.late = calls[c].late /\ new.pc # "done"
  BY <1>1, <1>2 DEF CallFields
<1> HIDE DEF new
<1>4. Step(c, new)
  BY <1>2 DEF new
<1> QED
  BY <1>1, <1>3, <1>4, StepKeepsInv

LEMMA ExpandStepKeepsInv ==
  ASSUME GateInv, NEW c, ExpandStep(c)
  PROVE  GateInv'
<1>1. c \in DOMAIN calls /\ calls[c].pc = "load" /\ CallFields \subseteq DOMAIN calls[c]
  BY DEF ExpandStep, At, GateInv, CallsInv, CallInv
<1>2. PICK near :
        Step(c, [calls[c] EXCEPT !.pc = "expand", !.near = near])
  BY DEF ExpandStep
<1> DEFINE new == [calls[c] EXCEPT !.pc = "expand", !.near = near]
<1>3. /\ CallFields \subseteq DOMAIN new /\ new.req = calls[c].req
      /\ new.late = calls[c].late /\ new.pc # "done"
  BY <1>1, <1>2 DEF CallFields
<1> HIDE DEF new
<1>4. Step(c, new)
  BY <1>2 DEF new
<1> QED
  BY <1>1, <1>3, <1>4, StepKeepsInv

LEMMA PackStepKeepsInv ==
  ASSUME GateInv, NEW c, PackStep(c)
  PROVE  GateInv'
<1>1. c \in DOMAIN calls /\ calls[c].pc = "expand" /\ CallFields \subseteq DOMAIN calls[c]
  BY DEF PackStep, At, GateInv, CallsInv, CallInv
<1>2. PICK pages, aside : Step(c, Answered(calls[c], pages, aside))
  BY DEF PackStep
<1> QED
  BY <1>1, <1>2, AnsweredShape, StepKeepsInv

LEMMA ReadStepKeepsInv ==
  ASSUME GateInv, NEW c, ReadStep(c)
  PROVE  GateInv'
<1>1. c \in DOMAIN calls /\ calls[c].pc = "read" /\ CallFields \subseteq DOMAIN calls[c]
  BY DEF ReadStep, At, GateInv, CallsInv, CallInv
<1>2. PICK base, saw :
        \/ \E pages, aside : Step(c, Answered(calls[c], pages, aside))
        \/ \E outcome : Step(c, Failed(calls[c], outcome))
        \/ Step(c, [calls[c] EXCEPT !.pc = "write", !.base = base, !.saw = saw])
  BY DEF ReadStep
<1> DEFINE new == [calls[c] EXCEPT !.pc = "write", !.base = base, !.saw = saw]
<1>3. /\ CallFields \subseteq DOMAIN new /\ new.req = calls[c].req
      /\ new.late = calls[c].late /\ new.pc # "done"
  BY <1>1 DEF CallFields
<1>4. Step(c, new) \/ (\E pages, aside : Step(c, Answered(calls[c], pages, aside)))
        \/ (\E outcome : Step(c, Failed(calls[c], outcome)))
  BY <1>2
<1> HIDE DEF new
<1> QED
  BY <1>1, <1>3, <1>4, AnsweredShape, FailedShape, StepKeepsInv

LEMMA ReadFailsKeepsInv ==
  ASSUME GateInv, NEW c, ReadFails(c)
  PROVE  GateInv'
<1>1. /\ c \in DOMAIN calls /\ calls[c].pc \notin {"gate", "auth", "done"}
      /\ CallFields \subseteq DOMAIN calls[c]
  BY DEF ReadFails, Reading, GateInv, CallsInv, CallInv
<1>2. Step(c, Failed(calls[c], "error"))
  BY DEF ReadFails
<1> QED
  BY <1>1, <1>2, FailedShape, StepKeepsInv

LEMMA WriteStepKeepsInv ==
  ASSUME GateInv, NEW c, WriteStep(c)
  PROVE  GateInv'
<1>1. c \in DOMAIN calls /\ calls[c].pc = "write" /\ CallFields \subseteq DOMAIN calls[c]
  BY DEF WriteStep, At, GateInv, CallsInv, CallInv
<1>2. \/ calls' = [calls EXCEPT ![c] = Answered(calls[c], {}, {})]
      \/ calls' = [calls EXCEPT ![c] = Failed(calls[c], "error")]
  BY DEF WriteStep
<1>3. UNCHANGED <<world, clock, tokens, audit>>
  BY DEF WriteStep, limiterVars
<1> QED
  BY <1>1, <1>2, <1>3, AnsweredShape, FailedShape, MoveKeepsInv

\* The row: of what the call answered, unless it cannot be written.
LEMMA AuditStepKeepsInv ==
  ASSUME GateInv, NEW c, AuditStep(c)
  PROVE  GateInv'
<1>1. c \in DOMAIN calls /\ calls[c].pc = "audit"
  BY DEF AuditStep, At
<1>2. CallFields \subseteq DOMAIN calls[c] /\ audit[c] = << >> /\ ~calls[c].late
  BY <1>1 DEF GateInv, CallsInv, CallInv
<1>3. UNCHANGED <<world, clock, tokens>>
  BY DEF AuditStep, limiterVars
<1> DEFINE new == [calls[c] EXCEPT !.pc = "done"]
           row == [token |-> calls[c].req.token,
                   pages |-> IF calls[c].outcome = "ok" THEN calls[c].pages ELSE {},
                   file  |-> IF calls[c].outcome = "ok" THEN calls[c].path ELSE None]
<1>4. calls' = [calls EXCEPT ![c] = new]
  BY DEF AuditStep
<1>5. /\ CallFields \subseteq DOMAIN new /\ new.req = calls[c].req /\ ~new.late
      /\ new.outcome = calls[c].outcome /\ new.pages = calls[c].pages
      /\ new.path = calls[c].path /\ new.pc = "done"
  BY <1>2 DEF CallFields
<1>6. \/ audit' = [audit EXCEPT ![c] = Append(audit[c], row)]
      \/ world.faults /\ audit' = audit
  BY DEF AuditStep
<1>7. \/ audit'[c] = <<row>>
      \/ world.faults /\ audit'[c] = << >>
  <2>1. Append(<< >>, row) = <<row>>
    OBVIOUS
  <2>2. c \in DOMAIN audit
    BY <1>1 DEF GateInv
  <2> HIDE DEF row
  <2> QED
    BY <1>2, <1>6, <2>1, <2>2
<1>8. \A d \in CallIds \ {c} : audit'[d] = audit[d]
  BY <1>6 DEF GateInv
<1>9. DOMAIN audit' = CallIds /\ c \in CallIds
  BY <1>1, <1>6 DEF GateInv
<1>10. /\ row.pages = (IF calls[c].outcome = "ok" THEN calls[c].pages ELSE {})
       /\ row.file = (IF calls[c].outcome = "ok" THEN calls[c].path ELSE None)
  OBVIOUS
<1> HIDE DEF new, row
<1>11. DOMAIN calls' = DOMAIN calls /\ calls'[c] = new
        /\ \A d \in DOMAIN calls \ {c} : calls'[d] = calls[d]
  BY <1>1, <1>4
<1>12. ASSUME NEW d \in DOMAIN calls PROVE (CallInv(d) /\ RowOf(d))'
  <2>1. CASE d = c
    <3>1. CallInv(c)'
      BY <1>1, <1>5, <1>11 DEF GateInv, CallsInv, CallInv
    <3>2. RowOf(c)'
      <4>1. CASE audit'[c] = <<row>>
        <5>1. Len(<<row>>) = 1 /\ \A k \in DOMAIN <<row>> : <<row>>[k] = row
          OBVIOUS
        <5> QED
          BY <1>5, <1>10, <1>11, <4>1, <5>1 DEF RowOf
      <4>2. CASE world.faults /\ audit'[c] = << >>
        <5>1. DOMAIN << >> = {}
          OBVIOUS
        <5> QED
          BY <1>3, <4>2, <5>1 DEF RowOf
      <4> QED
        BY <1>7, <4>1, <4>2
    <3> QED
      BY <2>1, <3>1, <3>2
  <2>2. CASE d # c
    BY <1>3, <1>8, <1>11, <2>2 DEF GateInv, CallsInv, CallInv, RowOf, Dead
  <2> QED
    BY <2>1, <2>2
<1>13. \A d \in CallIds \ DOMAIN calls' : audit'[d] = << >>
  BY <1>1, <1>8, <1>11 DEF GateInv
<1>14. CallsInv'
  BY <1>11, <1>12 DEF CallsInv
<1>15. (world \in Worlds /\ clock \in Nat /\ TokensInv)'
  BY <1>3 DEF GateInv, TokensInv
<1> QED
  BY <1>9, <1>11, <1>13, <1>14, <1>15 DEF GateInv

LEMMA ToolStepKeepsInv ==
  ASSUME GateInv, NEW c, ToolStep(c)
  PROVE  GateInv'
BY ListStepKeepsInv, PageStepKeepsInv, BackStepKeepsInv, HopStepKeepsInv, LexStepKeepsInv,
   TextsStepKeepsInv, VectorsStepKeepsInv, MetaStepKeepsInv, LoadStepKeepsInv,
   ExpandStepKeepsInv, PackStepKeepsInv, ReadStepKeepsInv, WriteStepKeepsInv,
   ReadFailsKeepsInv, AuditStepKeepsInv DEF ToolStep

-------------------------------------------------------------------------------
(* The gate. *)

\* A call is turned away: its state is done, with no row.
LEMMA EndKeepsInv ==
  ASSUME GateInv, NEW c \in DOMAIN calls, NEW outcome \in {"unauthorized", "limited"},
         calls[c].pc # "done", calls[c].late => outcome = "unauthorized",
         calls' = [calls EXCEPT ![c] = End(c, outcome)],
         UNCHANGED <<world, clock, tokens, audit>>
  PROVE  GateInv'
<1> DEFINE new == End(c, outcome)
<1>1. CallFields \subseteq DOMAIN calls[c] /\ audit[c] = << >>
  BY DEF GateInv, CallsInv, CallInv
<1>2. /\ CallFields \subseteq DOMAIN new /\ new.req = calls[c].req /\ new.late = calls[c].late
      /\ new.outcome = outcome /\ new.pc = "done"
  BY <1>1 DEF End, CallFields
<1>3. DOMAIN calls' = DOMAIN calls /\ calls'[c] = new
        /\ \A d \in DOMAIN calls \ {c} : calls'[d] = calls[d]
  OBVIOUS
<1> HIDE DEF new
<1>4. ASSUME NEW d \in DOMAIN calls PROVE (CallInv(d) /\ RowOf(d))'
  <2>1. CASE d = c
    BY <1>1, <1>2, <1>3, <2>1 DEF GateInv, CallsInv, CallInv, RowOf, Dead
  <2>2. CASE d # c
    BY <1>3, <2>2 DEF GateInv, CallsInv, CallInv, RowOf, Dead
  <2> QED
    BY <2>1, <2>2
<1> QED
  BY <1>3, <1>4 DEF GateInv, CallsInv, TokensInv

\* A late call's token is dead, so it is not live.
LEMMA LateIsNotLive ==
  ASSUME GateInv, NEW c \in DOMAIN calls, calls[c].late
  PROVE  ~TokenLive(tokens, calls[c].req.token, clock)
BY DEF GateInv, CallsInv, CallInv, Dead, TokenLive

LEMMA GateKeepsInv ==
  ASSUME GateInv, NEW c, TurnedAway(c) \/ GateLimits(c) \/ GateAdmits(c)
  PROVE  GateInv'
<1>1. /\ c \in DOMAIN calls /\ calls[c].pc \in {"gate", "auth"}
      /\ CallFields \subseteq DOMAIN calls[c]
  BY DEF TurnedAway, GateLimits, GateAdmits, At, GateInv, CallsInv, CallInv
<1>2. CASE TurnedAway(c)
  <2>1. calls' = [calls EXCEPT ![c] = End(c, "unauthorized")]
          /\ UNCHANGED <<world, clock, tokens, audit>>
    BY <1>2 DEF TurnedAway, Step, Others, limiterVars
  <2> QED
    BY <1>1, <2>1, EndKeepsInv
<1>3. CASE GateLimits(c)
  <2>1. calls' = [calls EXCEPT ![c] = End(c, "limited")]
          /\ UNCHANGED <<world, clock, tokens, audit>>
    BY <1>3 DEF GateLimits, Step, Others, limiterVars
  <2>2. ~calls[c].late
    BY <1>1, <1>3, LateIsNotLive DEF GateLimits
  <2> QED
    BY <1>1, <2>1, <2>2, EndKeepsInv
<1>4. CASE GateAdmits(c)
  <2> DEFINE new == [calls[c] EXCEPT !.pc = "auth"]
  <2>1. calls' = [calls EXCEPT ![c] = new] /\ UNCHANGED <<world, clock, tokens, audit>>
    BY <1>4 DEF GateAdmits, Admit
  <2>2. ~calls[c].late /\ audit[c] = << >>
    <3>1. TokenLive(tokens, calls[c].req.token, clock)
      BY <1>4 DEF GateAdmits
    <3> QED
      BY <1>1, <3>1, LateIsNotLive DEF GateInv, CallsInv, CallInv
  <2>3. /\ CallFields \subseteq DOMAIN new /\ new.req = calls[c].req /\ ~new.late
        /\ new.pc = "auth"
    BY <1>1, <2>2 DEF CallFields
  <2> HIDE DEF new
  <2>4. DOMAIN calls' = DOMAIN calls /\ calls'[c] = new
          /\ \A d \in DOMAIN calls \ {c} : calls'[d] = calls[d]
    BY <1>1, <2>1
  <2>5. ASSUME NEW d \in DOMAIN calls PROVE (CallInv(d) /\ RowOf(d))'
    <3>1. CASE d = c
      BY <2>1, <2>2, <2>3, <2>4, <3>1 DEF GateInv, CallsInv, CallInv, RowOf
    <3>2. CASE d # c
      BY <2>1, <2>4, <3>2 DEF GateInv, CallsInv, CallInv, RowOf, Dead
    <3> QED
      BY <3>1, <3>2
  <2> QED
    BY <2>1, <2>4, <2>5 DEF GateInv, CallsInv, TokensInv
<1> QED
  BY <1>2, <1>3, <1>4

LEMMA SendKeepsInv ==
  ASSUME GateInv, NEW c, Send(c)
  PROVE  GateInv'
<1>1. PICK req \in world.requests :
        calls' = [d \in DOMAIN calls \cup {c} |-> IF d = c THEN Fresh(req) ELSE calls[d]]
  BY DEF Send
<1>2. c \in CallIds /\ c \notin DOMAIN calls /\ UNCHANGED <<world, clock, tokens, audit>>
  BY WorldsAreSound DEF Send, Others, limiterVars, GateInv
<1>3. req.token \in Keys /\ req.tool \in ToolNames
  BY WorldsAreSound DEF GateInv
<1>4. /\ CallFields \subseteq DOMAIN Fresh(req)
      /\ Fresh(req).req = req
      /\ Fresh(req).pc \in {"gate", "auth"}
      /\ Fresh(req).outcome = "none"
      /\ Fresh(req).late => Dead(req.token)
  BY DEF Fresh, CallFields, Dead
<1> DEFINE new == Fresh(req)
<1>5. DOMAIN calls' = DOMAIN calls \cup {c} /\ calls'[c] = new
        /\ \A d \in DOMAIN calls : calls'[d] = calls[d]
  BY <1>1, <1>2
<1> HIDE DEF new
<1>6. audit[c] = << >>
  BY <1>2 DEF GateInv
<1>7. CallInv(c)' /\ RowOf(c)'
  BY <1>2, <1>3, <1>4, <1>5, <1>6 DEF CallInv, RowOf, Dead, new
<1>8. ASSUME NEW d \in DOMAIN calls PROVE (CallInv(d) /\ RowOf(d))'
  BY <1>2, <1>5 DEF GateInv, CallsInv, CallInv, RowOf, Dead
<1> QED
  BY <1>2, <1>5, <1>7, <1>8 DEF GateInv, CallsInv, TokensInv

LEMMA AuthenticateKeepsInv ==
  ASSUME GateInv, NEW c, Authenticate(c)
  PROVE  GateInv'
<1>1. c \in DOMAIN calls /\ calls[c].pc = "auth" /\ CallFields \subseteq DOMAIN calls[c]
  BY DEF Authenticate, At, GateInv, CallsInv, CallInv
<1>2. UNCHANGED <<world, clock, audit>>
  BY DEF Authenticate, limiterVars
<1> DEFINE req   == calls[c].req
           token == tokens[req.token]
           held  == IF req.scope = None THEN token.scopes ELSE {req.scope}
           path  == IF req.tool = "remember"
                    THEN RememberPath(req.scope, token.name, clock) ELSE None
           pc    == FirstStep(req.tool)
           moved == [calls[c] EXCEPT !.pc = pc, !.held = held, !.owned = Owned(db, held),
                                     !.path = path, !.at = clock % DayLength]
<1>3. calls' = [calls EXCEPT ![c] = IF Refused(req, token)
                                    THEN Failed(calls[c], "refused") ELSE moved]
  BY DEF Authenticate
<1>4. pc \notin {"gate", "auth", "done"}
  BY <1>1 DEF GateInv, CallsInv, CallInv, ToolNames, FirstStep
<1> HIDE DEF pc, held, path
<1>5. /\ CallFields \subseteq DOMAIN moved /\ moved.req = calls[c].req
      /\ moved.late = calls[c].late /\ moved.pc = pc
  BY <1>1 DEF CallFields
<1> HIDE DEF moved, req, token
<1>6. PICK new :
        /\ calls' = [calls EXCEPT ![c] = new]
        /\ CallFields \subseteq DOMAIN new /\ new.req = calls[c].req
        /\ new.late = calls[c].late /\ new.pc # "done"
  <2>1. CASE Refused(req, token)
    <3>1. calls' = [calls EXCEPT ![c] = Failed(calls[c], "refused")]
      BY <1>3, <2>1
    <3> QED
      BY <1>1, <3>1, FailedShape
  <2>2. CASE ~Refused(req, token)
    <3>1. calls' = [calls EXCEPT ![c] = moved]
      BY <1>3, <2>2
    <3> QED
      BY <1>4, <1>5, <3>1
  <2> QED
    BY <2>1, <2>2
<1>7. ~calls[c].late /\ audit[c] = << >>
  <2>1. TokenLive(tokens, calls[c].req.token, clock)
    BY DEF Authenticate
  <2> QED
    BY <1>1, <2>1, LateIsNotLive DEF GateInv, CallsInv, CallInv
<1>8. DOMAIN calls' = DOMAIN calls /\ calls'[c] = new
        /\ \A d \in DOMAIN calls \ {c} : calls'[d] = calls[d]
  BY <1>1, <1>6
<1>9. DOMAIN tokens' = DOMAIN tokens
        /\ \A id \in DOMAIN tokens : /\ DOMAIN tokens'[id] = DOMAIN tokens[id]
                                     /\ tokens'[id].revoked = tokens[id].revoked
                                     /\ tokens'[id].expires = tokens[id].expires
  <2>1. tokens' = TouchToken(tokens, calls[c].req.token) \/ tokens' = tokens
    BY DEF Authenticate
  <2> QED
    BY <2>1 DEF TouchToken, GateInv, TokensInv
<1>10. \A id : Dead(id) => Dead(id)'
  BY <1>2, <1>9 DEF Dead, Expired
<1>11. ASSUME NEW d \in DOMAIN calls PROVE (CallInv(d) /\ RowOf(d))'
  <2>1. CASE d = c
    BY <1>2, <1>6, <1>7, <1>8, <2>1 DEF GateInv, CallsInv, CallInv, RowOf
  <2>2. CASE d # c
    BY <1>2, <1>8, <1>10, <2>2 DEF GateInv, CallsInv, CallInv, RowOf
  <2> QED
    BY <2>1, <2>2
<1>12. CallsInv'
  BY <1>8, <1>11 DEF CallsInv
<1>13. TokensInv'
  BY <1>9 DEF GateInv, TokensInv
<1> QED
  BY <1>2, <1>8, <1>12, <1>13 DEF GateInv

-------------------------------------------------------------------------------
(* Beside the calls. *)

\* A step of the clock or on the tokens: no dead token comes to life.
LEMMA TokensKeepInv ==
  ASSUME GateInv, UNCHANGED <<world, calls, audit>>,
         clock' \in Nat, clock' >= clock, TokensInv',
         \A id \in DOMAIN tokens : /\ id \in DOMAIN tokens'
                                   /\ tokens[id].revoked => tokens'[id].revoked
                                   /\ tokens'[id].expires = tokens[id].expires
  PROVE  GateInv'
<1>1. \A id : Dead(id) => Dead(id)'
  BY NeverIsNoTime DEF Dead, Expired, GateInv, TokensInv
<1>2. \A d \in DOMAIN calls : (CallInv(d) /\ RowOf(d))'
  BY <1>1 DEF GateInv, CallsInv, CallInv, RowOf
<1> QED
  BY <1>2 DEF GateInv, CallsInv

LEMMA InsertedKeepsInv ==
  ASSUME GateInv, UNCHANGED <<world, calls, audit, clock>>, NEW id \in Unused(tokens),
         NEW spec, spec.expires \in Nat \cup {Never},
         tokens' = InsertToken(tokens, id, spec.name, spec.scopes, spec.caps, spec.expires)
  PROVE  GateInv'
<1> DEFINE row == [name |-> spec.name, scopes |-> spec.scopes, caps |-> spec.caps,
                   expires |-> spec.expires, revoked |-> FALSE, used |-> FALSE]
<1>1. {"revoked", "expires", "used"} \subseteq DOMAIN row /\ row.expires = spec.expires
  OBVIOUS
<1>2. id \notin DOMAIN tokens
  BY DEF Unused
<1>3. tokens' = [t \in DOMAIN tokens \cup {id} |-> IF t = id THEN row ELSE tokens[t]]
  BY DEF InsertToken
<1> HIDE DEF row
<1>4. DOMAIN tokens' = DOMAIN tokens \cup {id} /\ tokens'[id] = row
        /\ \A t \in DOMAIN tokens : tokens'[t] = tokens[t]
  BY <1>2, <1>3
<1>5. TokensInv'
  BY <1>1, <1>4 DEF GateInv, TokensInv
<1>6. clock' \in Nat /\ clock' >= clock
  BY DEF GateInv
<1> QED
  BY <1>4, <1>5, <1>6, TokensKeepInv

LEMMA RevokeKeepsInv ==
  ASSUME GateInv, Revoke
  PROVE  GateInv'
<1>1. PICK what : tokens' = RevokeRows(tokens, RevokedBy(tokens, what))
  BY DEF Revoke
<1>2. UNCHANGED <<world, calls, audit, clock>>
  BY DEF Revoke, TokensOnly, limiterVars
<1> DEFINE gone == RevokedBy(tokens, what)
<1> HIDE DEF gone
<1>3. tokens' = [id \in DOMAIN tokens |->
                   IF id \in gone THEN [tokens[id] EXCEPT !.revoked = TRUE] ELSE tokens[id]]
  BY <1>1 DEF RevokeRows, gone
<1>4. ASSUME NEW id \in DOMAIN tokens
      PROVE  /\ id \in DOMAIN tokens'
             /\ DOMAIN tokens'[id] = DOMAIN tokens[id]
             /\ tokens[id].revoked => tokens'[id].revoked
             /\ tokens'[id].expires = tokens[id].expires
  <2>1. {"revoked", "expires"} \subseteq DOMAIN tokens[id]
    BY DEF GateInv, TokensInv
  <2>2. CASE id \in gone
    BY <1>3, <2>1, <2>2
  <2>3. CASE id \notin gone
    BY <1>3, <2>3
  <2> QED
    BY <2>2, <2>3
<1>5. DOMAIN tokens' = DOMAIN tokens
  BY <1>3
<1>6. TokensInv'
  BY <1>4, <1>5 DEF GateInv, TokensInv
<1>7. clock' \in Nat /\ clock' >= clock
  BY <1>2 DEF GateInv
<1> QED
  BY <1>2, <1>4, <1>6, <1>7, TokensKeepInv

LEMMA AgentsKeepInv ==
  ASSUME GateInv,
         \/ TokenCommand
         \/ \E who \in Creators \cap DOMAIN world.creates : AgentInserted(who)
  PROVE  GateInv'
<1>1. UNCHANGED <<world, calls, audit, clock>>
  BY DEF TokenCommand, AgentInserted, TokensOnly, limiterVars
<1>2. CASE TokenCommand
  <2>1. PICK spec \in world.commands, id \in Unused(tokens) :
          tokens' = InsertToken(tokens, id, spec.name, spec.scopes, spec.caps, spec.expires)
    BY <1>2 DEF TokenCommand
  <2>2. spec.expires \in Nat \cup {Never}
    BY WorldsAreSound DEF GateInv
  <2> QED
    BY <1>1, <2>1, <2>2, InsertedKeepsInv
<1>3. CASE \E who \in Creators \cap DOMAIN world.creates : AgentInserted(who)
  <2>1. PICK who \in DOMAIN world.creates : AgentInserted(who)
    BY <1>3
  <2> DEFINE spec == world.creates[who]
  <2>2. PICK id \in Unused(tokens) :
          tokens' = InsertToken(tokens, id, spec.name, spec.scopes, spec.caps, spec.expires)
    BY <2>1 DEF AgentInserted
  <2>3. spec.expires \in Nat \cup {Never}
    BY WorldsAreSound DEF GateInv
  <2> HIDE DEF spec
  <2> QED
    BY <1>1, <2>2, <2>3, InsertedKeepsInv
<1> QED
  BY <1>2, <1>3

\* The indexer touches the two history fields of calls alone.
LEMMA IndexKeepsInv ==
  ASSUME GateInv, IndexStep
  PROVE  GateInv'
<1>1. UNCHANGED <<world, clock, tokens, audit>>
  BY DEF IndexStep, limiterVars
<1>2. DOMAIN calls' = DOMAIN calls
  BY DEF IndexStep
<1>3. ASSUME NEW d \in DOMAIN calls
      PROVE  /\ DOMAIN calls'[d] = DOMAIN calls[d]
             /\ \A f \in CallFields : calls'[d][f] = calls[d][f]
  <2> DEFINE told == [calls[d] EXCEPT !.quiet = FALSE, !.owned = @ \cup Owned(db', calls[d].held)]
  <2>1. calls'[d] = told \/ calls'[d] = calls[d]
    BY DEF IndexStep
  <2>2. DOMAIN told = DOMAIN calls[d] /\ \A f \in CallFields : told[f] = calls[d][f]
    BY DEF GateInv, CallsInv, CallInv, CallFields
  <2> HIDE DEF told
  <2> QED
    BY <2>1, <2>2
<1>4. ASSUME NEW d \in DOMAIN calls PROVE (CallInv(d) /\ RowOf(d))'
  <2>1. /\ DOMAIN calls'[d] = DOMAIN calls[d]
        /\ calls'[d].pc = calls[d].pc /\ calls'[d].req = calls[d].req
        /\ calls'[d].late = calls[d].late /\ calls'[d].outcome = calls[d].outcome
        /\ calls'[d].pages = calls[d].pages /\ calls'[d].path = calls[d].path
    BY <1>3 DEF CallFields
  <2> QED
    BY <1>1, <1>2, <2>1 DEF GateInv, CallsInv, CallInv, RowOf, Dead
<1> QED
  BY <1>1, <1>2, <1>4 DEF GateInv, CallsInv, TokensInv

\* What leaves calls, tokens, rows and the clock alone keeps the invariant.
LEMMA RestKeepsInv ==
  ASSUME GateInv, UNCHANGED <<world, clock, calls, tokens, audit>>
  PROVE  GateInv'
BY DEF GateInv, CallsInv, CallInv, RowOf, TokensInv, Dead

LEMMA TimeKeepsInv ==
  ASSUME GateInv, TimePasses
  PROVE  GateInv'
<1>1. UNCHANGED <<world, calls, audit, tokens>> /\ clock' = clock + 1
  BY DEF TimePasses, Tick, gateVars
<1>2. clock' \in Nat /\ clock' >= clock /\ TokensInv'
  BY <1>1 DEF GateInv, TokensInv
<1> QED
  BY <1>1, <1>2, TokensKeepInv

LEMMA GateInvInit == Init => GateInv
BY WorldsAreSound DEF Init, LimiterInit, GateInv, CallsInv, TokensInv

LEMMA GateInvNext == GateInv /\ [Next]_vars => GateInv'
<1> SUFFICES ASSUME GateInv, [Next]_vars PROVE GateInv'
  OBVIOUS
<1>1. ASSUME NEW c \in CallIds, Send(c) PROVE GateInv'
  BY <1>1, SendKeepsInv
<1>2. ASSUME NEW c \in CallIds, TurnedAway(c) \/ GateLimits(c) \/ GateAdmits(c) PROVE GateInv'
  BY <1>2, GateKeepsInv
<1>3. ASSUME NEW c \in CallIds, Authenticate(c) PROVE GateInv'
  BY <1>3, AuthenticateKeepsInv
<1>4. ASSUME NEW c \in CallIds, ToolStep(c) PROVE GateInv'
  BY <1>4, ToolStepKeepsInv
<1>5. ASSUME NEW key \in Keys, OtherRequest(key) PROVE GateInv'
  <2>1. UNCHANGED <<world, clock, calls, tokens, audit>>
    BY <1>5 DEF OtherRequest, Admit, gateVars
  <2> QED
    BY <2>1, RestKeepsInv
<1>6. CASE IndexStep
  BY <1>6, IndexKeepsInv
<1>7. ASSUME NEW who \in Creators, AgentChecked(who) PROVE GateInv'
  <2>1. UNCHANGED <<world, clock, calls, tokens, audit>>
    BY <1>7 DEF AgentChecked, TokensOnly, limiterVars
  <2> QED
    BY <2>1, RestKeepsInv
<1>8. CASE TokenCommand \/ \E who \in Creators \cap DOMAIN world.creates : AgentInserted(who)
  BY <1>8, AgentsKeepInv
<1>9. CASE Revoke
  BY <1>9, RevokeKeepsInv
<1>10. CASE Proposing
  <2>1. UNCHANGED <<world, clock, calls, tokens, audit>>
    BY <1>10 DEF Proposing, limiterVars, gateVars
  <2> QED
    BY <2>1, RestKeepsInv
<1>11. CASE TimePasses
  BY <1>11, TimeKeepsInv
<1>12. CASE UNCHANGED vars
  <2>1. UNCHANGED <<world, clock, calls, tokens, audit>>
    BY <1>12 DEF vars, limiterVars, gateVars
  <2> QED
    BY <2>1, RestKeepsInv
<1> QED
  BY <1>1, <1>2, <1>3, <1>4, <1>5, <1>6, <1>7, <1>8, <1>9, <1>10, <1>11, <1>12 DEF Next

-------------------------------------------------------------------------------

\* The state both theorems on the gate rest on.
THEOREM GateHolds == Spec => []GateInv
BY GateInvInit, GateInvNext, PTL DEF Spec

\* mcp/auth.go:57-61: whatever tokens are revoked, expire or are created while
\* requests are on their way, a call sent with a dead token gets no answer.
THEOREM DeadTokensGetNothing == Spec => []LateGetNothing
<1>1. GateInv => LateGetNothing
  BY DEF GateInv, CallsInv, CallInv, LateGetNothing
<1> QED
  BY <1>1, GateHolds, PTL

\* audit.go:12-18: a call that authenticate lets in leaves one row, and it says what
\* the call answered.
THEOREM CallsAreAudited == Spec => []OneAuditRow
<1>1. GateInv => OneAuditRow
  BY DEF GateInv, CallsInv, RowOf, OneAuditRow
<1> QED
  BY <1>1, GateHolds, PTL

-------------------------------------------------------------------------------
(* The scopes of an answer. *)

ScopeFields == {"pc", "held", "owned", "visited", "found", "pages", "aside"}

\* Whatever a call has gathered are pages that have been in its scopes since it
\* was let in; while it reads, those in them now are among these.
Scoped(call, index) ==
  /\ ScopeFields \subseteq DOMAIN call
  /\ call.pages \cup call.aside \cup call.visited \cup Named(call.found) \subseteq call.owned
  /\ call.pc \in Reading => Owned(index, call.held) \subseteq call.owned
  /\ call.pc \in {"gate", "auth"} => call.owned = {}

ScopeInv == \A c \in DOMAIN calls : Scoped(calls[c], db)

LEMMA ChangeKeepsScope ==
  ASSUME ScopeInv, NEW c \in DOMAIN calls, NEW new, Scoped(new, db),
         calls' = [calls EXCEPT ![c] = new], db' = db
  PROVE  ScopeInv'
<1>1. DOMAIN calls' = DOMAIN calls /\ calls'[c] = new
        /\ \A d \in DOMAIN calls \ {c} : calls'[d] = calls[d]
  OBVIOUS
<1>2. ASSUME NEW d \in DOMAIN calls PROVE Scoped(calls'[d], db)
  BY <1>1 DEF ScopeInv
<1> QED
  BY <1>1, <1>2 DEF ScopeInv

LEMMA StepKeepsScope ==
  ASSUME ScopeInv, NEW c \in DOMAIN calls, NEW new, Scoped(new, db), Step(c, new)
  PROVE  ScopeInv'
BY ChangeKeepsScope DEF Step, Others, proposeVars

LEMMA AnsweredIsScoped ==
  ASSUME NEW call, ScopeFields \subseteq DOMAIN call,
         call.visited \cup Named(call.found) \subseteq call.owned,
         NEW pages, pages \subseteq call.owned, NEW aside, aside \subseteq call.owned
  PROVE  Scoped(Answered(call, pages, aside), db)
<1> DEFINE new == Answered(call, pages, aside)
<1>1. /\ ScopeFields \subseteq DOMAIN new /\ new.pc = "audit" /\ new.owned = call.owned
      /\ new.visited = call.visited /\ new.found = call.found
      /\ new.pages = pages /\ new.aside = aside
  BY DEF Answered, ScopeFields
<1> HIDE DEF new
<1>2. Scoped(new, db)
  BY <1>1 DEF Scoped, Reading
<1> QED
  BY <1>2 DEF new

LEMMA FailedIsScoped ==
  ASSUME NEW call, Scoped(call, db), NEW outcome
  PROVE  Scoped(Failed(call, outcome), db)
<1> DEFINE new == Failed(call, outcome)
<1>1. /\ ScopeFields \subseteq DOMAIN new /\ new.pc = "audit" /\ new.owned = call.owned
      /\ new.visited = call.visited /\ new.found = call.found
      /\ new.pages = call.pages /\ new.aside = call.aside
  BY DEF Failed, ScopeFields, Scoped
<1> HIDE DEF new
<1>2. Scoped(new, db)
  BY <1>1 DEF Scoped, Reading
<1> QED
  BY <1>2 DEF new

LEMMA EndIsScoped ==
  ASSUME ScopeInv, NEW c \in DOMAIN calls, NEW outcome
  PROVE  Scoped(End(c, outcome), db)
<1> DEFINE new == End(c, outcome)
<1>1. /\ ScopeFields \subseteq DOMAIN new /\ new.pc = "done" /\ new.owned = calls[c].owned
      /\ new.visited = calls[c].visited /\ new.found = calls[c].found
      /\ new.pages = calls[c].pages /\ new.aside = calls[c].aside
  BY DEF End, ScopeFields, ScopeInv, Scoped
<1> HIDE DEF new
<1>2. Scoped(new, db)
  BY <1>1 DEF ScopeInv, Scoped, Reading
<1> QED
  BY <1>2 DEF new

LEMMA ListKeepsScope ==
  ASSUME ScopeInv, NEW c, ListStep(c)
  PROVE  ScopeInv'
<1>1. c \in DOMAIN calls /\ calls[c].pc = "list" /\ Scoped(calls[c], db)
  BY DEF ListStep, At, ScopeInv
<1> DEFINE filter == [types |-> calls[c].req.types, tags |-> {}, status |-> {},
                      historical |-> FALSE, limit |-> PagesLimit(calls[c].req.limit)]
<1>2. PICK pages \in ListPages(db, calls[c].held, filter) :
        Step(c, Answered(calls[c], pages, {}))
  BY DEF ListStep
<1> HIDE DEF filter
<1>3. pages \subseteq Listed(db, calls[c].held, filter)
  BY <1>2 DEF ListPages, Firsts, kSubset
<1>4. pages \subseteq calls[c].owned
  BY <1>1, <1>3 DEF Listed, Scoped, Reading
<1> QED
  BY <1>1, <1>2, <1>4, AnsweredIsScoped, StepKeepsScope, ZenonT(30) DEF Scoped

\* A page that is found is in the scopes asked.
LEMMA PageIsOwned ==
  ASSUME NEW held, NEW scope, NEW slug, GetPage(db, held, scope, slug) # None
  PROVE  GetPage(db, held, scope, slug) \in Owned(db, held)
<1> DEFINE found == {uid \in Owned(db, held) :
                       db.rows[uid].slug = slug /\ db.rows[uid].scope = scope}
<1>1. found # {} /\ GetPage(db, held, scope, slug) = CHOOSE uid \in found : TRUE
  BY DEF GetPage
<1> QED
  BY <1>1

LEMMA PageKeepsScope ==
  ASSUME ScopeInv, NEW c, PageStep(c)
  PROVE  ScopeInv'
<1> DEFINE req == calls[c].req
           uid == GetPage(db, calls[c].held, req.scope, req.slug)
           new == [calls[c] EXCEPT !.pc = "back", !.visited = {uid}, !.next = {uid}]
<1>1. c \in DOMAIN calls /\ calls[c].pc = "page" /\ Scoped(calls[c], db)
  BY DEF PageStep, At, ScopeInv
<1>2. Step(c, IF uid = None THEN Failed(calls[c], "not_found")
              ELSE IF req.tool = "fetch" THEN Answered(calls[c], {uid}, {}) ELSE new)
  BY DEF PageStep
<1>3. uid # None => uid \in calls[c].owned
  BY <1>1, PageIsOwned DEF Scoped, Reading
<1> HIDE DEF uid
<1>4. CASE uid = None
  BY <1>1, <1>2, <1>4, FailedIsScoped, StepKeepsScope
<1>5. CASE uid # None /\ req.tool = "fetch"
  <2>1. Scoped(Answered(calls[c], {uid}, {}), db)
    <3>1. /\ ScopeFields \subseteq DOMAIN calls[c]
          /\ calls[c].visited \cup Named(calls[c].found) \subseteq calls[c].owned
          /\ {uid} \subseteq calls[c].owned
      BY <1>1, <1>3, <1>5 DEF Scoped
    <3> QED
      BY <3>1, AnsweredIsScoped
  <2>2. Step(c, Answered(calls[c], {uid}, {}))
    BY <1>2, <1>5
  <2> QED
    BY <1>1, <2>1, <2>2, StepKeepsScope
<1>6. CASE uid # None /\ req.tool # "fetch"
  <2>1. /\ ScopeFields \subseteq DOMAIN new /\ new.pc = "back" /\ new.visited = {uid}
        /\ new.found = calls[c].found
        /\ new.held = calls[c].held /\ new.owned = calls[c].owned
        /\ new.pages = calls[c].pages /\ new.aside = calls[c].aside
    BY <1>1 DEF Scoped, ScopeFields
  <2>2. Step(c, new)
    BY <1>2, <1>6
  <2> HIDE DEF new, uid
  <2>3. Scoped(new, db)
    BY <1>1, <1>3, <1>6, <2>1 DEF Scoped, Reading
  <2> QED
    BY <1>1, <2>2, <2>3, StepKeepsScope
<1> QED
  BY <1>4, <1>5, <1>6

LEMMA BackKeepsScope ==
  ASSUME ScopeInv, NEW c, BackStep(c)
  PROVE  ScopeInv'
<1>1. c \in DOMAIN calls /\ calls[c].pc = "back" /\ Scoped(calls[c], db)
  BY DEF BackStep, At, ScopeInv
<1>2. PICK uid : Step(c, [calls[c] EXCEPT !.pc = "hop",
                   !.aside = {e.from : e \in Backlinks(db, calls[c].held, uid)}])
  BY DEF BackStep
<1> DEFINE aside == {e.from : e \in Backlinks(db, calls[c].held, uid)}
           new   == [calls[c] EXCEPT !.pc = "hop", !.aside = aside]
<1>3. aside \subseteq Owned(db, calls[c].held)
  BY DEF Backlinks
<1> HIDE DEF aside
<1>4. /\ ScopeFields \subseteq DOMAIN new /\ new.pc = "hop" /\ new.visited = calls[c].visited
      /\ new.found = calls[c].found
      /\ new.held = calls[c].held /\ new.owned = calls[c].owned
      /\ new.pages = calls[c].pages /\ new.aside = aside
  BY <1>1 DEF Scoped, ScopeFields
<1>5. Step(c, new)
  BY <1>2 DEF aside
<1> HIDE DEF new
<1>6. Scoped(new, db)
  BY <1>1, <1>3, <1>4 DEF Scoped, Reading
<1> QED
  BY <1>1, <1>5, <1>6, StepKeepsScope

LEMMA HopKeepsScope ==
  ASSUME ScopeInv, NEW c, HopStep(c)
  PROVE  ScopeInv'
<1> DEFINE edges == OutboundNeighbors(db, calls[c].held, calls[c].next, {})
<1>1. c \in DOMAIN calls /\ calls[c].pc = "hop" /\ Scoped(calls[c], db)
  BY DEF HopStep, At, ScopeInv
<1>2. CASE Step(c, Answered(calls[c], calls[c].visited, calls[c].aside))
  BY <1>1, <1>2, AnsweredIsScoped, StepKeepsScope DEF Scoped
<1>3. ASSUME NEW found \in Hops(db, calls[c].visited, edges),
             Step(c, [calls[c] EXCEPT !.hops = @ + 1, !.visited = @ \cup found, !.next = found])
      PROVE  ScopeInv'
  <2>1. found \subseteq {e.to : e \in edges}
    BY <1>3 DEF Hops, Firsts, kSubset
  <2>2. found \subseteq Owned(db, calls[c].held)
    BY <2>1 DEF OutboundNeighbors
  <2> DEFINE new == [calls[c] EXCEPT !.hops = @ + 1, !.visited = @ \cup found, !.next = found]
  <2>3. /\ ScopeFields \subseteq DOMAIN new /\ new.pc = "hop"
        /\ new.visited = calls[c].visited \cup found
        /\ new.found = calls[c].found
        /\ new.held = calls[c].held /\ new.owned = calls[c].owned
        /\ new.pages = calls[c].pages /\ new.aside = calls[c].aside
    BY <1>1 DEF Scoped, ScopeFields
  <2>4. Step(c, new)
    BY <1>3
  <2> HIDE DEF new
  <2>5. Scoped(new, db)
    BY <1>1, <2>2, <2>3 DEF Scoped, Reading
  <2> QED
    BY <1>1, <2>4, <2>5, StepKeepsScope
<1> QED
  BY <1>2, <1>3 DEF HopStep

LEMMA SearchKeepsScope ==
  ASSUME ScopeInv, NEW c, LexStep(c) \/ TextsStep(c) \/ VectorsStep(c)
  PROVE  ScopeInv'
<1>1. /\ c \in DOMAIN calls /\ calls[c].pc \in {"search", "texts", "vectors"}
      /\ Scoped(calls[c], db)
  BY DEF LexStep, TextsStep, VectorsStep, At, ScopeInv
<1>2. ASSUME NEW new, Step(c, new), ScopeFields \subseteq DOMAIN new,
             new.pc \in {"texts", "vectors", "meta"},
             new.held = calls[c].held, new.owned = calls[c].owned,
             new.visited = calls[c].visited, new.found = calls[c].found,
             new.pages = calls[c].pages, new.aside = calls[c].aside
      PROVE  ScopeInv'
  <2>1. Scoped(new, db)
    BY <1>1, <1>2 DEF Scoped, Reading
  <2> QED
    BY <1>1, <1>2, <2>1, StepKeepsScope
<1>3. ASSUME NEW pc \in {"texts", "vectors", "meta"}, NEW rows,
             Step(c, [calls[c] EXCEPT !.rows = rows, !.pc = pc])
      PROVE  ScopeInv'
  <2> DEFINE new == [calls[c] EXCEPT !.rows = rows, !.pc = pc]
  <2>1. /\ ScopeFields \subseteq DOMAIN new /\ new.pc = pc
        /\ new.held = calls[c].held /\ new.owned = calls[c].owned
        /\ new.visited = calls[c].visited /\ new.found = calls[c].found
        /\ new.pages = calls[c].pages /\ new.aside = calls[c].aside
    BY <1>1 DEF Scoped, ScopeFields
  <2> HIDE DEF new
  <2> QED
    BY <1>2, <1>3, <2>1 DEF new
<1>4. ASSUME NEW pc \in {"texts", "vectors", "meta"}, NEW claims,
             Step(c, [calls[c] EXCEPT !.claims = claims, !.pc = pc])
      PROVE  ScopeInv'
  <2> DEFINE new == [calls[c] EXCEPT !.claims = claims, !.pc = pc]
  <2>1. /\ ScopeFields \subseteq DOMAIN new /\ new.pc = pc
        /\ new.held = calls[c].held /\ new.owned = calls[c].owned
        /\ new.visited = calls[c].visited /\ new.found = calls[c].found
        /\ new.pages = calls[c].pages /\ new.aside = calls[c].aside
    BY <1>1 DEF Scoped, ScopeFields
  <2> HIDE DEF new
  <2> QED
    BY <1>2, <1>4, <2>1 DEF new
<1>5. CASE LexStep(c)
  <2>1. PICK pc \in {"texts", "meta"} : \E rows :
          Step(c, [calls[c] EXCEPT !.rows = rows, !.pc = pc])
    BY <1>5 DEF LexStep
  <2> QED
    BY <1>3, <2>1
<1>6. CASE TextsStep(c)
  <2>1. PICK pc \in {"vectors", "meta"} : \E claims :
          Step(c, [calls[c] EXCEPT !.claims = claims, !.pc = pc])
    BY <1>6 DEF TextsStep
  <2> QED
    BY <1>4, <2>1
<1>7. CASE VectorsStep(c)
  <2> DEFINE rows == calls[c].rows
                       \cup SemanticRows(calls[c].claims, db.vectors, calls[c].req.query)
             new  == [calls[c] EXCEPT !.pc = "meta", !.rows = rows]
  <2>1. Step(c, [calls[c] EXCEPT !.pc = "meta",
                  !.rows = @ \cup SemanticRows(calls[c].claims, db.vectors, calls[c].req.query)])
    BY <1>7 DEF VectorsStep
  <2>2. Step(c, new)
    BY <1>1, <2>1
  <2> HIDE DEF rows
  <2>3. /\ ScopeFields \subseteq DOMAIN new /\ new.pc = "meta"
        /\ new.held = calls[c].held /\ new.owned = calls[c].owned
        /\ new.visited = calls[c].visited /\ new.found = calls[c].found
        /\ new.pages = calls[c].pages /\ new.aside = calls[c].aside
    BY <1>1 DEF Scoped, ScopeFields
  <2> HIDE DEF new
  <2> QED
    BY <1>2, <2>2, <2>3
<1> QED
  BY <1>5, <1>6, <1>7

LEMMA MetaKeepsScope ==
  ASSUME ScopeInv, NEW c, MetaStep(c)
  PROVE  ScopeInv'
<1>1. c \in DOMAIN calls /\ calls[c].pc = "meta" /\ Scoped(calls[c], db)
  BY DEF MetaStep, At, ScopeInv
<1>0. PICK best :
        LET hits == {HitOf(db, d) : d \in {e \in best : e.uid \in Owned(db, calls[c].held)}}
        IN Step(c, IF calls[c].req.tool = "search"
                   THEN Answered(calls[c], {hit.uid : hit \in hits}, {})
                   ELSE [calls[c] EXCEPT !.pc = "load", !.hits = hits])
  BY DEF MetaStep
<1> DEFINE hits == {HitOf(db, d) : d \in {e \in best : e.uid \in Owned(db, calls[c].held)}}
           uids == {hit.uid : hit \in hits}
           new  == [calls[c] EXCEPT !.pc = "load", !.hits = hits]
<1>2. Step(c, IF calls[c].req.tool = "search" THEN Answered(calls[c], uids, {}) ELSE new)
  BY <1>0
<1>3. uids \subseteq Owned(db, calls[c].held)
  BY DEF HitOf
<1> HIDE DEF hits, uids
<1>4. CASE calls[c].req.tool = "search"
  <2>1. Scoped(Answered(calls[c], uids, {}), db)
    BY <1>1, <1>3, AnsweredIsScoped DEF Scoped, Reading
  <2> QED
    BY <1>1, <1>2, <1>4, <2>1, StepKeepsScope
<1>5. CASE calls[c].req.tool # "search"
  <2>1. /\ ScopeFields \subseteq DOMAIN new /\ new.pc = "load"
        /\ new.visited = calls[c].visited /\ new.found = calls[c].found
        /\ new.held = calls[c].held /\ new.owned = calls[c].owned
        /\ new.pages = calls[c].pages /\ new.aside = calls[c].aside
    BY <1>1 DEF Scoped, ScopeFields
  <2>2. Step(c, new)
    BY <1>2, <1>5
  <2> HIDE DEF new
  <2>3. Scoped(new, db)
    BY <1>1, <2>1 DEF Scoped, Reading
  <2> QED
    BY <1>1, <2>2, <2>3, StepKeepsScope
<1> QED
  BY <1>4, <1>5

LEMMA LoadKeepsScope ==
  ASSUME ScopeInv, NEW c, LoadStep(c) \/ ExpandStep(c)
  PROVE  ScopeInv'
<1>1. c \in DOMAIN calls /\ calls[c].pc = "load" /\ Scoped(calls[c], db)
  BY DEF LoadStep, ExpandStep, At, ScopeInv
<1>2. ASSUME NEW new, Step(c, new), ScopeFields \subseteq DOMAIN new,
             new.pc \in {"load", "expand"},
             Named(new.found) \subseteq calls[c].owned,
             new.visited = calls[c].visited,
             new.held = calls[c].held, new.owned = calls[c].owned,
             new.pages = calls[c].pages, new.aside = calls[c].aside
      PROVE  ScopeInv'
  <2>1. Scoped(new, db)
    BY <1>1, <1>2 DEF Scoped, Reading
  <2> QED
    BY <1>1, <1>2, <2>1, StepKeepsScope
<1>3. CASE ExpandStep(c)
  <2>1. PICK near : Step(c, [calls[c] EXCEPT !.pc = "expand", !.near = near])
    BY <1>3 DEF ExpandStep
  <2> DEFINE new == [calls[c] EXCEPT !.pc = "expand", !.near = near]
  <2>2. /\ ScopeFields \subseteq DOMAIN new /\ new.pc = "expand"
        /\ new.found = calls[c].found /\ new.visited = calls[c].visited
        /\ new.held = calls[c].held /\ new.owned = calls[c].owned
        /\ new.pages = calls[c].pages /\ new.aside = calls[c].aside
    BY <1>1 DEF Scoped, ScopeFields
  <2> HIDE DEF new
  <2>3. Step(c, new)
    BY <2>1 DEF new
  <2>4. Named(new.found) \subseteq calls[c].owned
    BY <1>1, <2>2 DEF Scoped
  <2> QED
    BY <1>2, <2>2, <2>3, <2>4
<1>4. CASE LoadStep(c)
  <2>0. PICK hit : LET uid == GetPage(db, calls[c].held, hit.scope, hit.slug)
                   IN Step(c, [calls[c] EXCEPT !.hits = @ \ {hit},
                        !.found = IF uid = None \/ uid \in Named(calls[c].found) THEN @
                                  ELSE @ \cup {Candidate(db, uid, hit.score, Cardinality(@) + 1)}])
    BY <1>4 DEF LoadStep
  <2> DEFINE uid   == GetPage(db, calls[c].held, hit.scope, hit.slug)
             one   == Candidate(db, uid, hit.score, Cardinality(calls[c].found) + 1)
             found == IF uid = None \/ uid \in Named(calls[c].found) THEN calls[c].found
                      ELSE calls[c].found \cup {one}
  <2>1. PICK hits : Step(c, [calls[c] EXCEPT !.hits = hits, !.found = found])
    BY <1>1, <2>0
  <2>2. uid # None => one.uid \in Owned(db, calls[c].held)
    BY PageIsOwned DEF Candidate
  <2> HIDE DEF one, uid
  <2>3. Named(found) \subseteq Named(calls[c].found)
          \/ (uid # None /\ Named(found) \subseteq Named(calls[c].found) \cup {one.uid})
    BY DEF Named
  <2>4. Named(found) \subseteq calls[c].owned
    BY <1>1, <2>2, <2>3 DEF Scoped, Reading
  <2> HIDE DEF found
  <2> DEFINE new == [calls[c] EXCEPT !.hits = hits, !.found = found]
  <2>5. /\ ScopeFields \subseteq DOMAIN new /\ new.pc = "load" /\ new.found = found
        /\ new.visited = calls[c].visited
        /\ new.held = calls[c].held /\ new.owned = calls[c].owned
        /\ new.pages = calls[c].pages /\ new.aside = calls[c].aside
    BY <1>1 DEF Scoped, ScopeFields
  <2> HIDE DEF new
  <2>6. Step(c, new)
    BY <2>1 DEF new
  <2> QED
    BY <1>2, <2>4, <2>5, <2>6
<1> QED
  BY <1>3, <1>4

\* Packed or left out, a page was loaded or is read in the call's scopes.
LEMMA PackKeepsScope ==
  ASSUME ScopeInv, NEW c, PackStep(c)
  PROVE  ScopeInv'
<1> DEFINE call     == calls[c]
           expanded == PagesByUIDs(db, call.held, call.near \ Named(call.found))
           All(at)  == call.found \cup {Candidate(db, uid, 0, at[uid]) : uid \in expanded}
           Kept(at) == {d \in All(at) : call.req.historical \/ ~d.historical}
<1>1. c \in DOMAIN calls /\ call.pc = "expand" /\ Scoped(call, db)
  BY DEF PackStep, At, ScopeInv
<1>2. PICK at : \E pages \in Packs(Kept(at), Budget(call.req.budget)) :
                  Step(c, Answered(call, Named(pages), Named(Kept(at) \ pages)))
  BY DEF PackStep
<1>3. PICK pages \in Packs(Kept(at), Budget(call.req.budget)) :
        Step(c, Answered(call, Named(pages), Named(Kept(at) \ pages)))
  BY <1>2
<1>4. expanded \subseteq call.owned
  BY <1>1 DEF PagesByUIDs, Scoped, Reading
<1>5. Named(All(at)) \subseteq call.owned
  <2>1. Named(All(at)) \subseteq Named(call.found) \cup expanded
    BY DEF Named, Candidate
  <2> QED
    BY <1>1, <1>4, <2>1 DEF Scoped
<1>6. pages \subseteq Kept(at) /\ Kept(at) \subseteq All(at)
  BY <1>3 DEF Packs
<1> HIDE DEF Kept, All
<1>7. Named(pages) \subseteq call.owned /\ Named(Kept(at) \ pages) \subseteq call.owned
  BY <1>5, <1>6 DEF Named
<1>8. Scoped(Answered(call, Named(pages), Named(Kept(at) \ pages)), db)
  BY <1>1, <1>7, AnsweredIsScoped DEF Scoped
<1> QED
  BY <1>1, <1>3, <1>8, StepKeepsScope

LEMMA RememberKeepsScope ==
  ASSUME ScopeInv, NEW c, ReadStep(c) \/ WriteStep(c) \/ ReadFails(c) \/ AuditStep(c)
  PROVE  ScopeInv'
<1>1. c \in DOMAIN calls /\ Scoped(calls[c], db)
  BY DEF ReadStep, WriteStep, ReadFails, AuditStep, At, ScopeInv
<1>2. db' = db
  BY DEF ReadStep, WriteStep, ReadFails, AuditStep, Step, Others, proposeVars
<1>3. ASSUME NEW new, calls' = [calls EXCEPT ![c] = new], ScopeFields \subseteq DOMAIN new,
             new.pc \in {"write", "done"}, new.visited = calls[c].visited,
             new.found = calls[c].found, new.owned = calls[c].owned,
             new.pages = calls[c].pages, new.aside = calls[c].aside
      PROVE  ScopeInv'
  <2>1. Scoped(new, db)
    BY <1>1, <1>3 DEF Scoped, Reading
  <2> QED
    BY <1>1, <1>2, <1>3, <2>1, ChangeKeepsScope
<1>4. ASSUME NEW outcome, calls' = [calls EXCEPT ![c] = Failed(calls[c], outcome)]
      PROVE  ScopeInv'
  BY <1>1, <1>2, <1>4, FailedIsScoped, ChangeKeepsScope
<1>5. CASE AuditStep(c)
  <2> DEFINE new == [calls[c] EXCEPT !.pc = "done"]
  <2>1. /\ ScopeFields \subseteq DOMAIN new /\ new.pc = "done"
        /\ new.found = calls[c].found /\ new.visited = calls[c].visited
        /\ new.owned = calls[c].owned
        /\ new.pages = calls[c].pages /\ new.aside = calls[c].aside
    BY <1>1 DEF Scoped, ScopeFields
  <2> HIDE DEF new
  <2>2. calls' = [calls EXCEPT ![c] = new]
    BY <1>5 DEF AuditStep, new
  <2> QED
    BY <1>3, <2>1, <2>2
<1>6. CASE ReadFails(c)
  BY <1>4, <1>6 DEF ReadFails, Step
<1>7. CASE WriteStep(c)
  <2>1. CASE calls' = [calls EXCEPT ![c] = Answered(calls[c], {}, {})]
    <3>1. Scoped(Answered(calls[c], {}, {}), db)
      BY <1>1, AnsweredIsScoped DEF Scoped
    <3> QED
      BY <1>1, <1>2, <2>1, <3>1, ChangeKeepsScope
  <2> QED
    BY <1>4, <1>7, <2>1 DEF WriteStep
<1>8. CASE ReadStep(c)
  <2>1. PICK base, saw :
          \/ Step(c, Failed(calls[c], "error"))
          \/ Step(c, [calls[c] EXCEPT !.pc = "write", !.base = base, !.saw = saw])
    BY <1>8 DEF ReadStep
  <2> DEFINE new == [calls[c] EXCEPT !.pc = "write", !.base = base, !.saw = saw]
  <2>2. /\ ScopeFields \subseteq DOMAIN new /\ new.pc = "write"
        /\ new.found = calls[c].found /\ new.visited = calls[c].visited
        /\ new.owned = calls[c].owned
        /\ new.pages = calls[c].pages /\ new.aside = calls[c].aside
    BY <1>1 DEF Scoped, ScopeFields
  <2> HIDE DEF new
  <2>3. Step(c, Failed(calls[c], "error")) \/ Step(c, new)
    BY <2>1 DEF new
  <2> QED
    BY <1>3, <1>4, <2>2, <2>3 DEF Step
<1> QED
  BY <1>5, <1>6, <1>7, <1>8

LEMMA ToolsKeepScope ==
  ASSUME ScopeInv, NEW c, ToolStep(c)
  PROVE  ScopeInv'
BY ListKeepsScope, PageKeepsScope, BackKeepsScope, HopKeepsScope, SearchKeepsScope,
   MetaKeepsScope, LoadKeepsScope, PackKeepsScope, RememberKeepsScope DEF ToolStep

LEMMA SendKeepsScope ==
  ASSUME ScopeInv, NEW c, Send(c)
  PROVE  ScopeInv'
<1>1. PICK req \in world.requests :
        calls' = [d \in DOMAIN calls \cup {c} |-> IF d = c THEN Fresh(req) ELSE calls[d]]
  BY DEF Send
<1>2. c \notin DOMAIN calls /\ db' = db
  BY DEF Send, Others, proposeVars
<1> DEFINE new == Fresh(req)
<1>3. Scoped(new, db)
  BY DEF Fresh, Scoped, ScopeFields, Reading, Named
<1> HIDE DEF new
<1>4. DOMAIN calls' = DOMAIN calls \cup {c} /\ calls'[c] = new
        /\ \A d \in DOMAIN calls : calls'[d] = calls[d]
  BY <1>1, <1>2 DEF new
<1>5. ASSUME NEW d \in DOMAIN calls \cup {c} PROVE Scoped(calls'[d], db)
  BY <1>3, <1>4 DEF ScopeInv
<1> QED
  BY <1>2, <1>4, <1>5 DEF ScopeInv

\* The gate lets a call in with nothing gathered.
LEMMA GateKeepsScope ==
  ASSUME ScopeInv, NEW c, TurnedAway(c) \/ GateLimits(c) \/ GateAdmits(c)
  PROVE  ScopeInv'
<1>1. c \in DOMAIN calls /\ calls[c].pc \in {"gate", "auth"} /\ Scoped(calls[c], db)
  BY DEF TurnedAway, GateLimits, GateAdmits, At, ScopeInv
<1>2. CASE TurnedAway(c) \/ GateLimits(c)
  <2>1. PICK outcome : Step(c, End(c, outcome))
    BY <1>2 DEF TurnedAway, GateLimits
  <2> QED
    BY <1>1, <2>1, EndIsScoped, StepKeepsScope
<1>3. CASE GateAdmits(c)
  <2> DEFINE new == [calls[c] EXCEPT !.pc = "auth"]
  <2>1. /\ ScopeFields \subseteq DOMAIN new /\ new.pc = "auth"
        /\ new.found = calls[c].found /\ new.visited = calls[c].visited
        /\ new.owned = calls[c].owned
        /\ new.pages = calls[c].pages /\ new.aside = calls[c].aside
    BY <1>1 DEF Scoped, ScopeFields
  <2> HIDE DEF new
  <2>2. calls' = [calls EXCEPT ![c] = new] /\ db' = db
    BY <1>3 DEF GateAdmits, new, proposeVars
  <2>3. Scoped(new, db)
    BY <1>1, <2>1 DEF Scoped, Reading
  <2> QED
    BY <1>1, <2>2, <2>3, ChangeKeepsScope
<1> QED
  BY <1>2, <1>3

\* ... and authenticate starts its history with what is in its scopes.
LEMMA AuthenticateKeepsScope ==
  ASSUME GateInv, ScopeInv, NEW c, Authenticate(c)
  PROVE  ScopeInv'
<1> DEFINE req   == calls[c].req
           token == tokens[req.token]
           held  == IF req.scope = None THEN token.scopes ELSE {req.scope}
           path  == IF req.tool = "remember"
                    THEN RememberPath(req.scope, token.name, clock) ELSE None
           pc    == FirstStep(req.tool)
           moved == [calls[c] EXCEPT !.pc = pc, !.held = held, !.owned = Owned(db, held),
                                     !.path = path, !.at = clock % DayLength]
<1>1. /\ c \in DOMAIN calls /\ calls[c].pc = "auth" /\ db' = db
      /\ Scoped(calls[c], db) /\ req.tool \in ToolNames
  BY DEF Authenticate, At, ScopeInv, proposeVars, GateInv, CallsInv, CallInv
<1>2. calls' = [calls EXCEPT ![c] = IF Refused(req, token)
                                    THEN Failed(calls[c], "refused") ELSE moved]
  BY DEF Authenticate
<1>3. pc \notin {"gate", "auth"}
  BY <1>1 DEF ToolNames, FirstStep
<1> HIDE DEF req, token, held, path, pc
<1>4. CASE Refused(req, token)
  <2>1. calls' = [calls EXCEPT ![c] = Failed(calls[c], "refused")]
    BY <1>2, <1>4
  <2> QED
    BY <1>1, <2>1, FailedIsScoped, ChangeKeepsScope
<1>5. CASE ~Refused(req, token)
  <2>1. calls[c].owned = {}
    BY <1>1 DEF Scoped
  <2>2. /\ ScopeFields \subseteq DOMAIN moved /\ moved.pc = pc
        /\ moved.held = held /\ moved.owned = Owned(db, held)
        /\ moved.visited = calls[c].visited /\ moved.found = calls[c].found
        /\ moved.pages = calls[c].pages /\ moved.aside = calls[c].aside
    BY <1>1 DEF Scoped, ScopeFields
  <2>3. calls' = [calls EXCEPT ![c] = moved]
    BY <1>2, <1>5
  <2> HIDE DEF moved
  <2>4. Scoped(moved, db)
    BY <1>1, <1>3, <2>1, <2>2 DEF Scoped
  <2> QED
    BY <1>1, <2>3, <2>4, ChangeKeepsScope
<1> QED
  BY <1>4, <1>5

LEMMA IndexKeepsScope ==
  ASSUME ScopeInv, IndexStep
  PROVE  ScopeInv'
<1>1. DOMAIN calls' = DOMAIN calls
  BY DEF IndexStep
<1>2. ASSUME NEW d \in DOMAIN calls PROVE Scoped(calls'[d], db')
  <2> DEFINE more == [calls[d] EXCEPT !.quiet = FALSE, !.owned = @ \cup Owned(db', calls[d].held)]
  <2>1. Scoped(calls[d], db)
    BY DEF ScopeInv
  <2>2. /\ ScopeFields \subseteq DOMAIN more
        /\ more.owned = calls[d].owned \cup Owned(db', calls[d].held)
        /\ more.pc = calls[d].pc /\ more.held = calls[d].held
        /\ more.found = calls[d].found /\ more.visited = calls[d].visited
        /\ more.pages = calls[d].pages /\ more.aside = calls[d].aside
    BY <2>1 DEF Scoped, ScopeFields
  <2>3. calls'[d] = IF calls[d].pc \in Reading \cup {"audit"} THEN more ELSE calls[d]
    BY DEF IndexStep
  <2> HIDE DEF more
  <2>4. CASE calls[d].pc \in Reading \cup {"audit"}
    BY <2>1, <2>2, <2>3, <2>4 DEF Scoped, Reading
  <2>5. CASE calls[d].pc \notin Reading \cup {"audit"}
    BY <2>1, <2>3, <2>5 DEF Scoped
  <2> QED
    BY <2>4, <2>5
<1> QED
  BY <1>1, <1>2 DEF ScopeInv

LEMMA ScopeInvNext == GateInv /\ ScopeInv /\ [Next]_vars => ScopeInv'
<1> SUFFICES ASSUME GateInv, ScopeInv, [Next]_vars PROVE ScopeInv'
  OBVIOUS
<1>1. ASSUME NEW c,
             \/ Send(c) \/ TurnedAway(c) \/ GateLimits(c) \/ GateAdmits(c)
             \/ Authenticate(c) \/ ToolStep(c)
      PROVE  ScopeInv'
  BY <1>1, SendKeepsScope, GateKeepsScope, AuthenticateKeepsScope, ToolsKeepScope
<1>2. CASE IndexStep
  BY <1>2, IndexKeepsScope
<1>3. ASSUME \/ \E key \in Keys : OtherRequest(key)
             \/ \E who : AgentChecked(who) \/ AgentInserted(who)
             \/ TokenCommand \/ Revoke \/ Proposing \/ TimePasses \/ UNCHANGED vars
      PROVE  UNCHANGED <<calls, db>>
  <2>1. ASSUME Proposing PROVE UNCHANGED <<calls, db>>
    BY <2>1 DEF Proposing, gateVars, StartRun, RunStep, LoadProposeState, ReadPending,
      PlaceBatch, WriteChange, CommitBatch, RunStops, OwnerActs, OwnerDecides
  <2> QED
    BY <1>3, <2>1 DEF OtherRequest, AgentChecked, AgentInserted, TokenCommand, Revoke,
      TimePasses, TokensOnly, proposeVars, gateVars, vars
<1>4. ASSUME UNCHANGED <<calls, db>> PROVE ScopeInv'
  BY <1>4 DEF ScopeInv
<1> QED
  BY <1>1, <1>2, <1>3, <1>4 DEF Next

\* mcp/auth.go:57-61, audit.go:12-18 and the scopes of every read (queries.go): of
\* any calls, tokens and index, whatever is revoked, moved or lost while calls are
\* served, dead tokens get nothing, answers name pages of the call's own scopes,
\* and what was let in leaves one row that says what it answered.
THEOREM CallsAreAccountable == Spec => []AnswersAreAccountable
<1>1. Init => ScopeInv
  BY DEF Init, ScopeInv
<1>2. ScopeInv => AnswersInScope
  BY DEF ScopeInv, Scoped, AnswersInScope
<1>3. Spec => []ScopeInv
  BY <1>1, GateHolds, ScopeInvNext, PTL DEF Spec
<1>4. LateGetNothing /\ AnswersInScope /\ OneAuditRow => AnswersAreAccountable
  BY DEF AnswersAreAccountable
<1> QED
  BY <1>2, <1>3, <1>4, DeadTokensGetNothing, CallsAreAudited, PTL

-------------------------------------------------------------------------------

\* Of the limiter every step of the server is a step of its own, or none.
LEMMA ServerStepsLimiter == GateInv /\ [Next]_vars => [LimiterNext]_limiterVars
<1> SUFFICES ASSUME GateInv, [Next]_vars PROVE [LimiterNext]_limiterVars
  OBVIOUS
<1>1. ASSUME NEW c \in CallIds, Send(c) \/ TurnedAway(c) \/ Authenticate(c) \/ ToolStep(c)
      PROVE  UNCHANGED limiterVars
  <2>1. ASSUME ToolStep(c) PROVE UNCHANGED limiterVars
    BY <2>1 DEF ToolStep, ListStep, PageStep, BackStep, HopStep, LexStep, TextsStep,
      VectorsStep, MetaStep, LoadStep, ExpandStep, PackStep, ReadStep, WriteStep, ReadFails,
      AuditStep, Step, Others
  <2> QED
    BY <1>1, <2>1 DEF Send, TurnedAway, Authenticate, Step, Others
<1>2. ASSUME NEW c \in CallIds, GateLimits(c) PROVE UNCHANGED limiterVars
  BY <1>2 DEF GateLimits, Refuse
<1>3. ASSUME NEW c \in CallIds, GateAdmits(c) PROVE LimiterNext
  <2>1. calls[c].req.token \in Keys /\ Admit(calls[c].req.token)
    BY <1>3 DEF GateAdmits, At, GateInv, CallsInv, CallInv
  <2> QED
    BY <2>1 DEF LimiterNext
<1>4. ASSUME NEW key \in Keys, OtherRequest(key) PROVE LimiterNext
  BY <1>4 DEF OtherRequest, LimiterNext
<1>5. CASE TimePasses
  BY <1>5 DEF TimePasses, LimiterNext
<1>6. ASSUME NEW who, AgentChecked(who) \/ AgentInserted(who) PROVE UNCHANGED limiterVars
  BY <1>6 DEF AgentChecked, AgentInserted, TokensOnly
<1>7. CASE IndexStep \/ TokenCommand \/ Revoke \/ Proposing
  BY <1>7 DEF IndexStep, TokenCommand, Revoke, Proposing, TokensOnly
<1>8. CASE UNCHANGED vars
  BY <1>8 DEF vars
<1> QED
  BY <1>1, <1>2, <1>3, <1>4, <1>5, <1>6, <1>7, <1>8 DEF Next

\* ratelimit.go:67-69, in the server: however requests of all tokens, other
\* requests and the clock are interleaved, no key's burst is above its bound.
THEOREM ServerBurstsAreBounded == Spec => []BurstBound
<1>1. Init => LimiterInit
  BY DEF Init
<1>2. Spec => LimiterSpec
  BY <1>1, GateHolds, ServerStepsLimiter, PTL DEF Spec, LimiterSpec
<1> QED
  BY <1>2, BurstsAreBounded, PTL

\* What is not a run's step nor the owner's leaves the proposals alone.
LEMMA ServerKeepsProposeInv == ProposeInv /\ [Next]_vars => ProposeInv'
<1> SUFFICES ASSUME ProposeInv, [Next]_vars PROVE ProposeInv'
  OBVIOUS
<1>1. CASE Proposing
  <2>1. \/ \E options : StartRun(options)
        \/ RunStep
        \/ OwnerActs
    BY <1>1 DEF Proposing
  <2> QED
    BY <2>1, StartKeepsInv, RunKeepsInv, OwnerKeepsInv
<1>2. ASSUME NEW c \in CallIds,
             \/ Send(c) \/ TurnedAway(c) \/ GateLimits(c) \/ GateAdmits(c)
             \/ Authenticate(c) \/ ToolStep(c)
      PROVE  UNCHANGED <<inbox, decided, prun>>
  <2>1. ASSUME ToolStep(c) PROVE UNCHANGED <<inbox, decided, prun>>
    BY <2>1 DEF ToolStep, ListStep, PageStep, BackStep, HopStep, LexStep, TextsStep,
      VectorsStep, MetaStep, LoadStep, ExpandStep, PackStep, ReadStep, WriteStep, ReadFails,
      AuditStep, Step, Others, proposeVars
  <2> QED
    BY <1>2, <2>1 DEF Send, TurnedAway, GateLimits, GateAdmits, Authenticate, Step, Others,
      proposeVars
<1>3. ASSUME \/ \E key \in Keys : OtherRequest(key)
             \/ \E who : AgentChecked(who) \/ AgentInserted(who)
             \/ IndexStep \/ TokenCommand \/ Revoke \/ TimePasses \/ UNCHANGED vars
      PROVE  UNCHANGED <<inbox, decided, prun>>
  BY <1>3 DEF OtherRequest, AgentChecked, AgentInserted, IndexStep, TokenCommand, Revoke,
    TimePasses, TokensOnly, proposeVars, vars
<1> QED
  BY <1>1, <1>2, <1>3, OthersKeepInv DEF Next

-------------------------------------------------------------------------------
(* New pages apart, in the server. *)

\* The indexer's statement is about a page of the vault, or a log.
Current(statement, pages) ==
  statement.op = "upsert" =>
    \/ statement.row.type \in LogTypes
    \/ <<statement.row.scope, statement.row.slug>> \in pages

\* What the theorem below asks of a world: the index is of the vault's pages and
\* what the indexer has still to do is, too; the inbox is apart to begin with.
WorldsAreIndexed ==
  \A w \in Worlds :
    /\ \A uid \in Documents(w.db) :
         \/ w.db.rows[uid].type \in LogTypes
         \/ <<w.db.rows[uid].scope, w.db.rows[uid].slug>> \in w.existing
    /\ \A k \in DOMAIN w.script : Current(w.script[k], w.existing)
    /\ \A p \in w.inbox : p.status = "pending" /\ p.kind = "new_page" =>
         /\ Place(p) \notin w.existing
         /\ \A q \in w.inbox \ {p} : q.status = "pending" => Place(q) # Place(p)

Statements == UNION {ToSet(w.script) : w \in Worlds}

SoundStatements(pages) ==
  {s \in Statements : Current(s, pages) /\ s.op \in {"upsert", "claims", "edges", "prune"}}

ServerApart ==
  /\ ApartInv
  /\ DOMAIN EmptyTables \subseteq DOMAIN db
  /\ script \in Seq(SoundStatements(existing))

\* A statement of the indexer adds to what is indexed the page it is about.
LEMMA StatementsAreIndexed ==
  ASSUME NEW statement \in SoundStatements(existing), Indexed \subseteq existing,
         DOMAIN EmptyTables \subseteq DOMAIN db, db' = Applied(statement)
  PROVE  Indexed' \subseteq existing /\ DOMAIN EmptyTables \subseteq DOMAIN db'
<1>1. DOMAIN EmptyTables = {"rows", "claims", "chunks", "edges", "findings", "globals", "vectors"}
  BY DEF EmptyTables
<1>2. SUFFICES ASSUME DOMAIN db' = DOMAIN db,
                      \A uid \in Documents(db') :
                        \/ uid \in Documents(db) /\ db'.rows[uid] = db.rows[uid]
                        \/ statement.op = "upsert" /\ db'.rows[uid] = statement.row
               PROVE  Indexed' \subseteq existing /\ DOMAIN EmptyTables \subseteq DOMAIN db'
  <2>1. "rows" \in DOMAIN db
    BY <1>1
  <2>2. CASE statement.op = "upsert"
    <3> DEFINE rows == [db.rows EXCEPT ![statement.uid] = statement.row]
    <3>0. ASSUME db' = db
          PROVE  Indexed' \subseteq existing /\ DOMAIN EmptyTables \subseteq DOMAIN db'
      BY <3>0 DEF Indexed
    <3>1. SUFFICES ASSUME db' = [db EXCEPT !.rows = rows]
                   PROVE  Indexed' \subseteq existing /\ DOMAIN EmptyTables \subseteq DOMAIN db'
      BY <2>2, <3>0 DEF Applied, UpsertDocument
    <3> HIDE DEF rows
    <3>2. DOMAIN db' = DOMAIN db /\ db'.rows = rows
      BY <2>1, <3>1
    <3>3. \A uid \in Uids : rows[uid] = db.rows[uid] \/ rows[uid] = statement.row
      BY DEF rows
    <3>4. \A uid \in Uids : db'.rows[uid] # NoRow =>
            \/ db.rows[uid] # NoRow /\ db'.rows[uid] = db.rows[uid]
            \/ db'.rows[uid] = statement.row
      BY <3>2, <3>3
    <3> QED
      BY <2>2, <3>2, <3>4 DEF Documents
  <2>3. CASE statement.op = "claims"
    BY <2>1, <2>3 DEF Applied, ReplaceClaims, Documents
  <2>4. CASE statement.op = "edges"
    BY <2>1, <2>4 DEF Applied, UpsertEdges, Documents
  <2>5. CASE statement.op = "prune"
    BY <2>1, <2>5 DEF Applied, DeleteDocumentsNotIn, Documents
  <2> QED
    BY <1>2, <2>2, <2>3, <2>4, <2>5 DEF SoundStatements
<1>3. Current(statement, existing)
  BY DEF SoundStatements
<1> QED
  BY <1>2, <1>3 DEF Indexed, Current

LEMMA IndexKeepsApart ==
  ASSUME ServerApart, IndexStep
  PROVE  ServerApart'
<1>1. /\ script # << >> /\ db' = Applied(Head(script)) /\ script' = Tail(script)
      /\ UNCHANGED <<inbox, prun, existing, crossed>>
  BY DEF IndexStep
<1>2. Head(script) \in SoundStatements(existing) /\ script' \in Seq(SoundStatements(existing))
  BY <1>1 DEF ServerApart
<1>3. Indexed' \subseteq existing /\ DOMAIN EmptyTables \subseteq DOMAIN db'
  BY <1>1, <1>2, StatementsAreIndexed DEF ServerApart, ApartInv
<1>4. ApartInv'
  BY <1>1, <1>3, OthersKeepApart DEF ServerApart
<1> QED
  BY <1>1, <1>2, <1>3, <1>4 DEF ServerApart, SoundStatements

LEMMA ServerApartNext == ServerApart /\ [Next]_vars => ServerApart'
<1> SUFFICES ASSUME ServerApart, [Next]_vars PROVE ServerApart'
  OBVIOUS
<1>1. CASE IndexStep
  BY <1>1, IndexKeepsApart
<1>2. CASE Proposing
  <2>1. ApartInv'
    <3>1. \/ \E options : StartRun(options)
          \/ RunStep
          \/ OwnerActs
      BY <1>2 DEF Proposing
    <3> QED
      BY <3>1, StartKeepsApart, RunKeepsApart, OwnerKeepsApart DEF ServerApart
  <2>2. UNCHANGED <<db, script>> /\ existing \subseteq existing'
    BY <1>2 DEF Proposing, gateVars, StartRun, RunStep, LoadProposeState, ReadPending,
      PlaceBatch, WriteChange, CommitBatch, RunStops, OwnerActs, OwnerDecides
  <2>3. SoundStatements(existing) \subseteq SoundStatements(existing')
    BY <2>2 DEF SoundStatements, Current
  <2> HIDE DEF SoundStatements
  <2>4. script \in Seq(SoundStatements(existing'))
    BY <2>3 DEF ServerApart
  <2> QED
    BY <2>1, <2>2, <2>4 DEF ServerApart
<1>3. ASSUME NEW c \in CallIds,
             \/ Send(c) \/ TurnedAway(c) \/ GateLimits(c) \/ GateAdmits(c)
             \/ Authenticate(c) \/ ToolStep(c)
      PROVE  UNCHANGED <<inbox, prun, existing, crossed, db, script>>
  <2>1. ASSUME ToolStep(c) PROVE UNCHANGED <<inbox, prun, existing, crossed, db, script>>
    BY <2>1 DEF ToolStep, ListStep, PageStep, BackStep, HopStep, LexStep, TextsStep,
      VectorsStep, MetaStep, LoadStep, ExpandStep, PackStep, ReadStep, WriteStep, ReadFails,
      AuditStep, Step, Others, proposeVars
  <2> QED
    BY <1>3, <2>1 DEF Send, TurnedAway, GateLimits, GateAdmits, Authenticate, Step, Others,
      proposeVars
<1>4. ASSUME \/ \E key \in Keys : OtherRequest(key)
             \/ \E who : AgentChecked(who) \/ AgentInserted(who)
             \/ TokenCommand \/ Revoke \/ TimePasses \/ UNCHANGED vars
      PROVE  UNCHANGED <<inbox, prun, existing, crossed, db, script>>
  BY <1>4 DEF OtherRequest, AgentChecked, AgentInserted, TokenCommand, Revoke, TimePasses,
    TokensOnly, proposeVars, gateVars, vars
<1>5. ASSUME UNCHANGED <<inbox, prun, existing, crossed, db, script>> PROVE ServerApart'
  <2>1. Indexed' \subseteq existing
    BY <1>5 DEF ServerApart, ApartInv, Indexed
  <2>2. ApartInv'
    BY <1>5, <2>1, OthersKeepApart DEF ServerApart
  <2> QED
    BY <1>5, <2>2 DEF ServerApart
<1> QED
  BY <1>1, <1>2, <1>3, <1>4, <1>5 DEF Next

\* propose_run.go:165-168: of any notes, answers, batches and runs, wherever a run is
\* killed and whatever the owner decides and the indexer does beside it, a pending
\* new page's place is no page's and no other pending proposal's, as long as
\* only pages of the vault are indexed.
THEOREM NewPagesStayApart ==
  ASSUME WorldsAreIndexed
  PROVE  Spec => []NewPagesApart
<1>1. Init => ServerApart
  <2> SUFFICES ASSUME Init PROVE ServerApart
    OBVIOUS
  <2>1. /\ world \in Worlds /\ db = world.db /\ existing = world.existing
        /\ inbox = world.inbox /\ script = world.script /\ prun = NoRun
    BY DEF Init
  <2>2. ProposalShape /\ DOMAIN EmptyTables \subseteq DOMAIN db
    BY <2>1, WorldsAreSound DEF ProposalShape
  <2>3. Indexed \subseteq existing
    BY <2>1, WorldsAreIndexed DEF WorldsAreIndexed, Indexed
  <2>4. NewPagesApart
    BY <2>1, WorldsAreIndexed DEF WorldsAreIndexed, NewPagesApart, Pending, Place
  <2>5. ToSet(script) \subseteq SoundStatements(existing)
    <3> SUFFICES ASSUME NEW k \in DOMAIN script PROVE script[k] \in SoundStatements(existing)
      BY DEF ToSet
    <3>1. script[k] \in Statements
      BY <2>1 DEF Statements, ToSet
    <3>2. Current(script[k], existing)
      BY <2>1, WorldsAreIndexed DEF WorldsAreIndexed
    <3> QED
      BY <2>1, <3>1, <3>2, WorldsAreSound DEF SoundStatements
  <2>6. script \in Seq(SoundStatements(existing))
    <3>1. script \in Seq(ToSet(script))
      BY <2>1, WorldsAreSound
    <3> HIDE DEF ToSet, SoundStatements
    <3> QED
      BY <2>5, <3>1
  <2> QED
    BY <2>1, <2>2, <2>3, <2>4, <2>6 DEF ServerApart, ApartInv
<1>2. ServerApart => NewPagesApart
  BY DEF ServerApart, ApartInv
<1>3. Spec => []ServerApart
  BY <1>1, ServerApartNext, PTL DEF Spec
<1> QED
  BY <1>2, <1>3, PTL

\* propose_run.go:18-20: whatever the model answers, the owner decides and
\* wherever a run is killed, what the state file says was placed some proposal
\* cites.
THEOREM StateFileIsTrue == Spec => []DecidedMeansProposed
<1>1. Init => ProposeInv
  BY WorldsAreSound DEF Init, ProposeInv, ProposalShape, Covered
<1>2. Spec => []ProposeInv
  BY <1>1, ServerKeepsProposeInv, PTL DEF Spec
<1> QED
  BY <1>2, InvIsEnough, PTL

-------------------------------------------------------------------------------
(* The notes of the remember tool. *)

\* What keeps a call's entry where it belongs. A commit writes what was read with
\* one line more; only a remember call past its write has been told that its entry
\* is kept.
TellFields == {"pc", "req", "outcome", "path", "at", "base", "saw"}

EntryOf(call) == [at |-> call.at, text |-> call.req.text]

Told(call, path, entry) ==
  /\ call.req.tool = "remember" /\ call.outcome = "ok" /\ call.path = path
  /\ EntryOf(call) = entry

\* A request's text makes no line that reads as a header.
Plain(req) == \A at \in 0..(DayLength - 1) : [at |-> at, text |-> req.text] # Header

LogCall(call) ==
  /\ TellFields \subseteq DOMAIN call
  /\ Plain(call.req)
  /\ call.pc \notin {"audit", "done"} => call.outcome = "none"
  /\ call.pc \in Reading => call.req.tool # "remember"
  /\ call.pc \in {"read", "write"} => EntryOf(call) # Header
  /\ call.pc = "write" /\ call.path \in MemoryPaths =>
       IsLogPage(call.base) /\ call.base = call.saw

\* The places of an entry in a file, and the calls told that it is there.
Places(entry, path) == {k \in DOMAIN memory[path] \ {1} : memory[path][k] = entry}

Tellers(entry, path) == {c \in DOMAIN calls : Told(calls[c], path, entry)}

PathInv(path) ==
  /\ \A k \in DOMAIN world.memory[path] :
       k \in DOMAIN memory[path] /\ memory[path][k] = world.memory[path][k]
  /\ \A entry : Cardinality(Places(entry, path)) >= Cardinality(Tellers(entry, path))

LogInv ==
  /\ DOMAIN memory = MemoryPaths
  /\ \A path \in MemoryPaths : IsLogPage(memory[path])
  /\ IsFiniteSet(DOMAIN calls)
  /\ \A c \in DOMAIN calls : LogCall(calls[c])
  /\ \A path \in MemoryPaths \ raced : PathInv(path)

LEMMA LogInvSays == LogInv => RememberKeepsEntries
<1> SUFFICES ASSUME LogInv, NEW path \in MemoryPaths \ raced
             PROVE  /\ \A k \in DOMAIN memory[path] : memory[path][k] = Header => k = 1
                    /\ PathInv(path)
                    /\ \A entry : /\ Occurrences(entry, path) = Cardinality(Places(entry, path))
                                  /\ Remembered(path, entry) = Tellers(entry, path)
  BY DEF RememberKeepsEntries, PathInv
<1>1. \A k \in DOMAIN memory[path] : memory[path][k] = Header => k = 1
  BY DEF LogInv, IsLogPage
<1>2. PathInv(path)
  BY DEF LogInv
<1>3. ASSUME NEW entry
      PROVE  /\ Occurrences(entry, path) = Cardinality(Places(entry, path))
             /\ Remembered(path, entry) = Tellers(entry, path)
  BY DEF Occurrences, Places, Remembered, Tellers, Told, EntryOf
<1> QED
  BY <1>1, <1>2, <1>3

\* One place more makes up for one teller more.
LEMMA PlacesKeepUp ==
  ASSUME NEW places, NEW more, NEW tellers, NEW told, NEW place, NEW teller,
         IsFiniteSet(places), IsFiniteSet(tellers),
         Cardinality(places) >= Cardinality(tellers),
         \/ more = places \cup {place} /\ place \notin places
              /\ told \subseteq tellers \cup {teller}
         \/ more = places /\ told \subseteq tellers
  PROVE  Cardinality(more) >= Cardinality(told)
<1>1. Cardinality(places) \in Nat /\ Cardinality(tellers) \in Nat
  BY FS_CardinalityType
<1>2. CASE more = places /\ told \subseteq tellers
  <2>1. Cardinality(told) <= Cardinality(tellers) /\ IsFiniteSet(told)
    BY <1>2, FS_Subset
  <2>2. Cardinality(told) \in Nat
    BY <2>1, FS_CardinalityType
  <2> QED
    BY <1>1, <1>2, <2>1, <2>2
<1>3. CASE more = places \cup {place} /\ place \notin places
             /\ told \subseteq tellers \cup {teller}
  <2>1. Cardinality(more) = Cardinality(places) + 1
    BY <1>3, FS_AddElement
  <2>2. /\ IsFiniteSet(tellers \cup {teller})
        /\ Cardinality(tellers \cup {teller}) =
             IF teller \in tellers THEN Cardinality(tellers) ELSE Cardinality(tellers) + 1
    BY FS_AddElement
  <2>3. IsFiniteSet(told) /\ Cardinality(told) <= Cardinality(tellers \cup {teller})
    BY <1>3, <2>2, FS_Subset
  <2>4. Cardinality(told) \in Nat
    BY <2>3, FS_CardinalityType
  <2>5. Cardinality(tellers \cup {teller}) <= Cardinality(tellers) + 1
    BY <1>1, <2>2
  <2>6. Cardinality(tellers \cup {teller}) \in Nat
    BY <2>2, FS_CardinalityType
  <2> HIDE <2>2
  <2> QED
    BY <1>1, <2>1, <2>3, <2>4, <2>5, <2>6
<1> QED
  BY <1>2, <1>3

LEMMA PlacesAreFinite ==
  ASSUME NEW path, IsLogPage(memory[path]), NEW entry
  PROVE  IsFiniteSet(Places(entry, path))
<1>1. memory[path] \in Seq(ToSet(memory[path]))
  BY DEF IsLogPage
<1>2. Len(memory[path]) \in Nat
  BY <1>1
<1>3. Places(entry, path) \in SUBSET (1..Len(memory[path]))
  BY <1>1 DEF Places
<1>4. IsFiniteSet(1..Len(memory[path]))
  <2> DEFINE len == Len(memory[path])
  <2> HIDE DEF len
  <2>1. len \in Int /\ 1 \in Int
    BY <1>2 DEF len
  <2>2. IsFiniteSet(1..len)
    BY <2>1, FS_Interval
  <2> QED
    BY <2>2 DEF len
<1> QED
  BY <1>3, <1>4, FS_Subset

LEMMA CountsAreFinite ==
  ASSUME LogInv, NEW path \in MemoryPaths, NEW entry
  PROVE  IsFiniteSet(Places(entry, path)) /\ IsFiniteSet(Tellers(entry, path))
<1>1. IsFiniteSet(Places(entry, path))
  BY PlacesAreFinite DEF LogInv
<1>2. Tellers(entry, path) \in SUBSET DOMAIN calls
  BY DEF Tellers
<1> QED
  BY <1>1, <1>2, FS_Subset DEF LogInv

\* A step of one call on nothing but the call, which tells no agent of an entry.
LEMMA CallKeepsLog ==
  ASSUME LogInv, NEW c \in DOMAIN calls, NEW new, calls' = [calls EXCEPT ![c] = new],
         LogCall(new),
         \A path, entry : Told(new, path, entry) => Told(calls[c], path, entry),
         UNCHANGED <<memory, world, raced>>
  PROVE  LogInv'
<1>1. /\ DOMAIN calls' = DOMAIN calls /\ calls'[c] = new
      /\ \A d \in DOMAIN calls \ {c} : calls'[d] = calls[d]
  OBVIOUS
<1>2. \A d \in DOMAIN calls' : LogCall(calls'[d])
  BY <1>1 DEF LogInv
<1>3. ASSUME NEW path \in MemoryPaths \ raced' PROVE PathInv(path)'
  <2>1. PathInv(path)
    BY <1>3 DEF LogInv
  <2>2. ASSUME NEW entry
        PROVE  (Cardinality(Places(entry, path)) >= Cardinality(Tellers(entry, path)))'
    <3>1. Tellers(entry, path)' \subseteq Tellers(entry, path)
      BY <1>1 DEF Tellers, Told, EntryOf
    <3>2. Places(entry, path)' = Places(entry, path)
      BY DEF Places
    <3>3. Cardinality(Places(entry, path)) >= Cardinality(Tellers(entry, path))
      BY <2>1 DEF PathInv
    <3> QED
      BY <1>3, <3>1, <3>2, <3>3, CountsAreFinite, PlacesKeepUp
  <2> QED
    BY <2>1, <2>2 DEF PathInv
<1> QED
  BY <1>1, <1>2, <1>3 DEF LogInv

\* A commit: the lines read, under a header, and the entry.
LEMMA LineAdded ==
  ASSUME NEW lines, IsLogPage(lines), NEW entry, entry # Header
  PROVE  LET new == Append(LogPage(lines), entry)
         IN /\ IsLogPage(new)
            /\ Len(new) \in DOMAIN new \ ({1} \cup DOMAIN lines) /\ new[Len(new)] = entry
            /\ DOMAIN new \ {1} = (DOMAIN lines \ {1}) \cup {Len(new)}
            /\ \A k \in DOMAIN lines : k \in DOMAIN new /\ new[k] = lines[k]
<1> DEFINE base == LogPage(lines)
           S    == ToSet(lines) \cup {Header, entry}
           new  == Append(base, entry)
<1> HIDE DEF S
<1>1. lines \in Seq(S)
  <2>1. lines \in Seq(ToSet(lines))
    BY DEF IsLogPage
  <2>2. ToSet(lines) \subseteq S /\ Header \in S /\ entry \in S
    BY DEF S
  <2> QED
    BY <2>1, <2>2
<1>2. base \in Seq(S) /\ entry \in S
  <2>1. Header \in S /\ entry \in S
    BY DEF S
  <2>2. <<Header>> \in Seq(S)
    BY <2>1
  <2> QED
    BY <1>1, <2>1, <2>2 DEF LogPage
<1>3. Len(base) \in Nat /\ Len(base) >= 1 /\ DOMAIN base = 1..Len(base) /\ base[1] = Header
  <2>1. CASE lines = << >>
    BY <2>1 DEF LogPage
  <2>2. CASE lines # << >>
    BY <1>1, <2>2 DEF LogPage, IsLogPage
  <2> QED
    BY <2>1, <2>2
<1>4. \A k \in DOMAIN base : base[k] = Header => k = 1
  <2>1. CASE lines = << >>
    BY <2>1 DEF LogPage
  <2>2. CASE lines # << >>
    BY <2>2 DEF LogPage, IsLogPage
  <2> QED
    BY <2>1, <2>2
<1>5. DOMAIN base \ {1} = DOMAIN lines \ {1}
        /\ \A k \in DOMAIN lines : k \in DOMAIN base /\ base[k] = lines[k]
  BY <1>1 DEF LogPage
<1> HIDE DEF base
<1>6. /\ new \in Seq(S) /\ Len(new) = Len(base) + 1
      /\ \A k \in 1..Len(base) : new[k] = base[k]
      /\ new[Len(base) + 1] = entry
  BY <1>2, AppendProperties
<1>7. DOMAIN new = 1..Len(new)
  BY <1>6
<1> HIDE DEF new
<1>8. new \in Seq(ToSet(new))
  <2>1. \A k \in DOMAIN new : new[k] \in ToSet(new)
    BY DEF ToSet
  <2> QED
    BY <1>6, <2>1
<1>9. new[1] = Header /\ \A k \in DOMAIN new : new[k] = Header => k = 1
  BY <1>3, <1>4, <1>6, <1>7
<1>10. IsLogPage(new)
  BY <1>8, <1>9 DEF IsLogPage
<1>11. DOMAIN lines \subseteq 1..Len(base)
  BY <1>3, <1>5
<1>12. Len(new) \in DOMAIN new \ ({1} \cup DOMAIN lines) /\ new[Len(new)] = entry
  BY <1>3, <1>6, <1>7, <1>11
<1>13. DOMAIN new \ {1} = (DOMAIN lines \ {1}) \cup {Len(new)}
  BY <1>3, <1>5, <1>6, <1>7
<1>14. \A k \in DOMAIN lines : k \in DOMAIN new /\ new[k] = lines[k]
  BY <1>3, <1>5, <1>6, <1>7
<1> QED
  BY <1>10, <1>12, <1>13, <1>14 DEF new, base

-------------------------------------------------------------------------------

\* A step of a tool that reads the index: nobody is told of an entry.
LEMMA ReadingKeepsLog ==
  ASSUME LogInv, NEW c \in DOMAIN calls, calls[c].pc \in Reading, NEW new, Step(c, new),
         TellFields \subseteq DOMAIN new, new.req = calls[c].req,
         new.pc \in Reading \cup {"audit"},
         new.pc \in Reading => new.outcome = calls[c].outcome
  PROVE  LogInv'
<1>1. LogCall(calls[c])
  BY DEF LogInv
<1>2. calls[c].req.tool # "remember" /\ calls[c].outcome = "none" /\ Plain(calls[c].req)
  BY <1>1 DEF LogCall, Reading
<1>3. LogCall(new)
  BY <1>2 DEF LogCall, Reading
<1>4. \A path, entry : ~Told(new, path, entry)
  BY <1>2 DEF Told
<1> QED
  BY <1>3, <1>4, CallKeepsLog DEF Step, Others, proposeVars

LEMMA SettledKeepsLog ==
  ASSUME LogInv, NEW c \in DOMAIN calls, calls[c].pc \in Reading,
         \/ \E pages, aside : Step(c, Answered(calls[c], pages, aside))
         \/ \E outcome : Step(c, Failed(calls[c], outcome))
  PROVE  LogInv'
<1>1. TellFields \subseteq DOMAIN calls[c]
  BY DEF LogInv, LogCall
<1>2. ASSUME NEW pages, NEW aside, Step(c, Answered(calls[c], pages, aside)) PROVE LogInv'
  <2> DEFINE new == Answered(calls[c], pages, aside)
  <2>1. TellFields \subseteq DOMAIN new /\ new.req = calls[c].req /\ new.pc = "audit"
    BY <1>1 DEF Answered, TellFields
  <2>2. new.pc \notin Reading
    BY <2>1 DEF Reading
  <2> HIDE DEF new
  <2>3. Step(c, new)
    BY <1>2 DEF new
  <2> QED
    BY <2>1, <2>2, <2>3, ReadingKeepsLog
<1>3. ASSUME NEW outcome, Step(c, Failed(calls[c], outcome)) PROVE LogInv'
  <2> DEFINE new == Failed(calls[c], outcome)
  <2>1. TellFields \subseteq DOMAIN new /\ new.req = calls[c].req /\ new.pc = "audit"
    BY <1>1 DEF Failed, TellFields
  <2>2. new.pc \notin Reading
    BY <2>1 DEF Reading
  <2> HIDE DEF new
  <2>3. Step(c, new)
    BY <1>3 DEF new
  <2> QED
    BY <2>1, <2>2, <2>3, ReadingKeepsLog
<1> QED
  BY <1>2, <1>3

\* The steps that settle a call's answer, or some of what it has read.
LEMMA IndexToolsKeepLog ==
  ASSUME LogInv, NEW c,
         \/ ListStep(c) \/ PageStep(c) \/ BackStep(c) \/ HopStep(c)
         \/ LexStep(c) \/ TextsStep(c) \/ VectorsStep(c) \/ MetaStep(c)
         \/ LoadStep(c) \/ ExpandStep(c) \/ PackStep(c) \/ ReadFails(c)
  PROVE  LogInv'
<1>1. c \in DOMAIN calls /\ calls[c].pc \in Reading
  BY DEF ListStep, PageStep, BackStep, HopStep, LexStep, TextsStep, VectorsStep, MetaStep,
     LoadStep, ExpandStep, PackStep, ReadFails, At, Reading
<1>2. TellFields \subseteq DOMAIN calls[c]
  BY <1>1 DEF LogInv, LogCall
<1> DEFINE Goes(new) == /\ Step(c, new) /\ TellFields \subseteq DOMAIN new
                        /\ new.req = calls[c].req /\ new.pc \in Reading
                        /\ new.outcome = calls[c].outcome
           Settles == \/ \E pages, aside : Step(c, Answered(calls[c], pages, aside))
                      \/ \E outcome : Step(c, Failed(calls[c], outcome))
<1>3. ASSUME NEW new, Goes(new) PROVE LogInv'
  BY <1>1, <1>3, ReadingKeepsLog
<1>4. ASSUME Settles PROVE LogInv'
  BY <1>1, <1>4, SettledKeepsLog
<1>5. ASSUME ListStep(c) \/ PackStep(c) \/ ReadFails(c) PROVE Settles
  <2>1. CASE ListStep(c)
    BY <2>1 DEF ListStep
  <2>2. CASE PackStep(c)
    BY <2>2 DEF PackStep
  <2>3. CASE ReadFails(c)
    BY <2>3 DEF ReadFails
  <2> QED
    BY <1>5, <2>1, <2>2, <2>3
<1>6. CASE PageStep(c)
  <2>1. PICK visited :
          \/ Settles
          \/ Step(c, [calls[c] EXCEPT !.pc = "back", !.visited = visited, !.next = visited])
    BY <1>6 DEF PageStep
  <2> DEFINE new == [calls[c] EXCEPT !.pc = "back", !.visited = visited, !.next = visited]
  <2>2. ASSUME Step(c, new) PROVE Goes(new)
    BY <1>2, <2>2 DEF TellFields, Reading
  <2> HIDE DEF Goes, Settles
  <2> QED
    BY <1>3, <1>4, <2>1, <2>2
<1>7. CASE BackStep(c)
  <2>1. PICK aside : Step(c, [calls[c] EXCEPT !.pc = "hop", !.aside = aside])
    BY <1>7 DEF BackStep
  <2> DEFINE new == [calls[c] EXCEPT !.pc = "hop", !.aside = aside]
  <2>2. Goes(new)
    BY <1>2, <2>1 DEF TellFields, Reading
  <2> HIDE DEF Goes, Settles
  <2> QED
    BY <1>3, <2>2
<1>8. CASE HopStep(c)
  <2>1. PICK hops, visited, next :
          \/ Settles
          \/ Step(c, [calls[c] EXCEPT !.hops = hops, !.visited = visited, !.next = next])
               /\ calls[c].pc = "hop"
    BY <1>8 DEF HopStep, At
  <2> DEFINE new == [calls[c] EXCEPT !.hops = hops, !.visited = visited, !.next = next]
  <2>2. ASSUME Step(c, new), calls[c].pc = "hop" PROVE Goes(new)
    BY <1>2, <2>2 DEF TellFields, Reading
  <2> HIDE DEF Goes, Settles
  <2> QED
    BY <1>3, <1>4, <2>1, <2>2
<1>9. CASE LexStep(c)
  <2>0. PICK rows, semantic :
          Step(c, [calls[c] EXCEPT !.rows = rows, !.pc = IF semantic THEN "texts" ELSE "meta"])
    BY <1>9 DEF LexStep
  <2> DEFINE pc == IF semantic THEN "texts" ELSE "meta"
  <2>1. pc \in {"texts", "meta"} /\ Step(c, [calls[c] EXCEPT !.rows = rows, !.pc = pc])
    BY <2>0
  <2> HIDE DEF pc
  <2> DEFINE new == [calls[c] EXCEPT !.rows = rows, !.pc = pc]
  <2>2. Goes(new)
    BY <1>2, <2>1 DEF TellFields, Reading
  <2> HIDE DEF Goes, Settles
  <2> QED
    BY <1>3, <2>2
<1>10. CASE TextsStep(c)
  <2>0. PICK texts :
          Step(c, [calls[c] EXCEPT !.claims = texts,
                     !.pc = IF texts = {} THEN "meta" ELSE "vectors"])
    BY <1>10 DEF TextsStep
  <2> DEFINE pc == IF texts = {} THEN "meta" ELSE "vectors"
  <2>1. pc \in {"vectors", "meta"} /\ Step(c, [calls[c] EXCEPT !.claims = texts, !.pc = pc])
    BY <2>0
  <2> HIDE DEF pc
  <2> DEFINE new == [calls[c] EXCEPT !.claims = texts, !.pc = pc]
  <2>2. Goes(new)
    BY <1>2, <2>1 DEF TellFields, Reading
  <2> HIDE DEF Goes, Settles
  <2> QED
    BY <1>3, <2>2
<1>11. CASE VectorsStep(c)
  <2>1. PICK rows : Step(c, [calls[c] EXCEPT !.pc = "meta", !.rows = rows])
    BY <1>11 DEF VectorsStep
  <2> DEFINE new == [calls[c] EXCEPT !.pc = "meta", !.rows = rows]
  <2>2. Goes(new)
    BY <1>2, <2>1 DEF TellFields, Reading
  <2> HIDE DEF Goes, Settles
  <2> QED
    BY <1>3, <2>2
<1>12. CASE MetaStep(c)
  <2>1. PICK hits :
          \/ Settles
          \/ Step(c, [calls[c] EXCEPT !.pc = "load", !.hits = hits])
    BY <1>12 DEF MetaStep
  <2> DEFINE new == [calls[c] EXCEPT !.pc = "load", !.hits = hits]
  <2>2. ASSUME Step(c, new) PROVE Goes(new)
    BY <1>2, <2>2 DEF TellFields, Reading
  <2> HIDE DEF Goes, Settles
  <2> QED
    BY <1>3, <1>4, <2>1, <2>2
<1>13. CASE LoadStep(c)
  <2>1. PICK hits, found :
          Step(c, [calls[c] EXCEPT !.hits = hits, !.found = found]) /\ calls[c].pc = "load"
    BY <1>13 DEF LoadStep, At
  <2> DEFINE new == [calls[c] EXCEPT !.hits = hits, !.found = found]
  <2>2. Goes(new)
    BY <1>2, <2>1 DEF TellFields, Reading
  <2> HIDE DEF Goes, Settles
  <2> QED
    BY <1>3, <2>2
<1>14. CASE ExpandStep(c)
  <2>1. PICK near : Step(c, [calls[c] EXCEPT !.pc = "expand", !.near = near])
    BY <1>14 DEF ExpandStep
  <2> DEFINE new == [calls[c] EXCEPT !.pc = "expand", !.near = near]
  <2>2. Goes(new)
    BY <1>2, <2>1 DEF TellFields, Reading
  <2> HIDE DEF Goes, Settles
  <2> QED
    BY <1>3, <2>2
<1> HIDE DEF Goes, Settles
<1> QED
  BY <1>4, <1>5, <1>6, <1>7, <1>8, <1>9, <1>10, <1>11, <1>12, <1>13, <1>14

\* remember's read: what it takes is a memory page.
LEMMA ReadKeepsLog ==
  ASSUME LogInv, NEW c, ReadStep(c)
  PROVE  LogInv'
<1>1. c \in DOMAIN calls /\ calls[c].pc = "read" /\ LogCall(calls[c])
  BY DEF ReadStep, At, LogInv
<1>2. calls[c].outcome = "none" /\ TellFields \subseteq DOMAIN calls[c]
        /\ EntryOf(calls[c]) # Header /\ Plain(calls[c].req)
  BY <1>1 DEF LogCall
<1>3. UNCHANGED <<memory, world, raced>>
  BY DEF ReadStep, Step, Others, proposeVars
<1>4. CASE Step(c, Failed(calls[c], "error"))
  <2> DEFINE new == Failed(calls[c], "error")
  <2>1. /\ TellFields \subseteq DOMAIN new /\ new.req = calls[c].req
        /\ new.pc = "audit" /\ new.outcome = "error"
    BY <1>2 DEF Failed, TellFields
  <2> HIDE DEF new
  <2>2. LogCall(new) /\ \A path, entry : ~Told(new, path, entry)
    BY <1>2, <2>1 DEF LogCall, Reading, Told
  <2> QED
    BY <1>1, <1>3, <1>4, <2>2, CallKeepsLog DEF Step, new
<1>5. CASE Step(c, [calls[c] EXCEPT !.pc = "write", !.base = memory[calls[c].path],
                                    !.saw = memory[calls[c].path]])
  <2> DEFINE page == memory[calls[c].path]
  <2>0. calls[c].path \in MemoryPaths => IsLogPage(page)
    BY DEF LogInv
  <2> HIDE DEF page
  <2> DEFINE new == [calls[c] EXCEPT !.pc = "write", !.base = page, !.saw = page]
  <2>1. /\ TellFields \subseteq DOMAIN new /\ new.req = calls[c].req /\ new.at = calls[c].at
        /\ new.path = calls[c].path /\ new.base = page /\ new.saw = page
        /\ new.pc = "write" /\ new.outcome = "none"
    BY <1>2 DEF TellFields
  <2>2. Step(c, new)
    BY <1>5 DEF page
  <2> HIDE DEF new
  <2>3. EntryOf(new) = EntryOf(calls[c])
    BY <2>1 DEF EntryOf
  <2>4. LogCall(new) /\ \A path, entry : ~Told(new, path, entry)
    BY <1>2, <2>0, <2>1, <2>3 DEF LogCall, Reading, Told
  <2> QED
    BY <1>1, <1>3, <2>2, <2>4, CallKeepsLog DEF Step
<1> QED
  BY <1>4, <1>5 DEF ReadStep

\* remember's commit: one line more, and one agent told of it.
LEMMA WriteKeepsLog ==
  ASSUME LogInv, NEW c, WriteStep(c)
  PROVE  LogInv'
<1> DEFINE call  == calls[c]
           entry == EntryOf(call)
           new   == Append(LogPage(call.base), entry)
<1>1. c \in DOMAIN calls /\ call.pc = "write" /\ LogCall(call)
  BY DEF WriteStep, At, LogInv
<1>2. /\ TellFields \subseteq DOMAIN call /\ entry # Header /\ Plain(call.req)
      /\ call.path \in MemoryPaths => IsLogPage(call.base) /\ call.base = call.saw
  BY <1>1 DEF LogCall
<1>3. /\ memory' = [memory EXCEPT ![call.path] = new]
      /\ raced' = IF memory[call.path] # call.saw THEN raced \cup {call.path} ELSE raced
      /\ world' = world
  BY DEF WriteStep, EntryOf
<1>4. PICK told :
        /\ calls' = [calls EXCEPT ![c] = told] /\ LogCall(told)
        /\ told.path = call.path /\ EntryOf(told) = entry
  <2>1. CASE calls' = [calls EXCEPT ![c] = Answered(call, {}, {})]
    <3> DEFINE told == Answered(call, {}, {})
    <3>1. /\ TellFields \subseteq DOMAIN told /\ told.req = call.req /\ told.at = call.at
          /\ told.path = call.path /\ told.pc = "audit"
      BY <1>2 DEF Answered, TellFields
    <3> HIDE DEF told
    <3>2. LogCall(told) /\ EntryOf(told) = entry
      BY <1>2, <3>1 DEF LogCall, EntryOf, Reading
    <3> QED
      BY <2>1, <3>1, <3>2 DEF told
  <2>2. CASE calls' = [calls EXCEPT ![c] = Failed(call, "error")]
    <3> DEFINE told == Failed(call, "error")
    <3>1. /\ TellFields \subseteq DOMAIN told /\ told.req = call.req /\ told.at = call.at
          /\ told.path = call.path /\ told.pc = "audit"
      BY <1>2 DEF Failed, TellFields
    <3> HIDE DEF told
    <3>2. LogCall(told) /\ EntryOf(told) = entry
      BY <1>2, <3>1 DEF LogCall, EntryOf, Reading
    <3> QED
      BY <2>2, <3>1, <3>2 DEF told
  <2> QED
    BY <2>1, <2>2 DEF WriteStep
<1> HIDE DEF call, entry, new
<1>5. /\ DOMAIN calls' = DOMAIN calls /\ calls'[c] = told
      /\ \A d \in DOMAIN calls \ {c} : calls'[d] = calls[d]
  BY <1>1, <1>4
<1>6. \A d \in DOMAIN calls' : LogCall(calls'[d])
  BY <1>4, <1>5 DEF LogInv
<1>7. call.path \in MemoryPaths =>
        /\ IsLogPage(new)
        /\ Len(new) \in DOMAIN new \ ({1} \cup DOMAIN call.base) /\ new[Len(new)] = entry
        /\ DOMAIN new \ {1} = (DOMAIN call.base \ {1}) \cup {Len(new)}
        /\ \A k \in DOMAIN call.base : k \in DOMAIN new /\ new[k] = call.base[k]
  BY <1>2, LineAdded DEF new
<1>8. /\ DOMAIN memory' = MemoryPaths
      /\ \A path \in MemoryPaths \ {call.path} : memory'[path] = memory[path]
      /\ call.path \in MemoryPaths => memory'[call.path] = new
  BY <1>3 DEF LogInv
<1>9. \A path \in MemoryPaths : IsLogPage(memory'[path])
  BY <1>7, <1>8 DEF LogInv
<1>10. ASSUME NEW path \in MemoryPaths \ raced' PROVE PathInv(path)'
  <2>1. path \notin raced /\ PathInv(path)
    BY <1>3, <1>10 DEF LogInv
  <2>2. CASE path # call.path
    <3>1. memory'[path] = memory[path]
      BY <1>8, <1>10, <2>2
    <3>2. ASSUME NEW some
          PROVE  (Cardinality(Places(some, path)) >= Cardinality(Tellers(some, path)))'
      <4>1. Tellers(some, path)' \subseteq Tellers(some, path)
        BY <1>4, <1>5, <2>2 DEF Tellers, Told, EntryOf
      <4>2. Places(some, path)' = Places(some, path)
        BY <3>1 DEF Places
      <4>3. Cardinality(Places(some, path)) >= Cardinality(Tellers(some, path))
        BY <2>1 DEF PathInv
      <4> QED
        BY <1>10, <4>1, <4>2, <4>3, CountsAreFinite, PlacesKeepUp
    <3> QED
      BY <1>3, <2>1, <3>1, <3>2 DEF PathInv
  <2>3. CASE path = call.path
    <3>1. memory[path] = call.base /\ memory'[path] = new
      BY <1>2, <1>3, <1>8, <1>10, <2>3
    <3>2. /\ Len(new) \in DOMAIN new \ ({1} \cup DOMAIN memory[path]) /\ new[Len(new)] = entry
          /\ DOMAIN new \ {1} = (DOMAIN memory[path] \ {1}) \cup {Len(new)}
          /\ \A k \in DOMAIN memory[path] : k \in DOMAIN new /\ new[k] = memory[path][k]
      BY <1>7, <1>10, <2>3, <3>1
    <3>3. ASSUME NEW some
          PROVE  (Cardinality(Places(some, path)) >= Cardinality(Tellers(some, path)))'
      <4>1. CASE some = entry
        <5>1. Tellers(some, path)' \subseteq Tellers(some, path) \cup {c}
          BY <1>5 DEF Tellers, Told, EntryOf
        <5>2. Places(some, path)' = Places(some, path) \cup {Len(new)}
                /\ Len(new) \notin Places(some, path)
          BY <3>1, <3>2, <4>1 DEF Places
        <5>3. Cardinality(Places(some, path)) >= Cardinality(Tellers(some, path))
          BY <2>1 DEF PathInv
        <5>4. IsFiniteSet(Places(some, path)) /\ IsFiniteSet(Tellers(some, path))
          BY <1>10, CountsAreFinite
        <5> QED
          BY <5>1, <5>2, <5>3, <5>4, PlacesKeepUp
      <4>2. CASE some # entry
        <5>1. Tellers(some, path)' \subseteq Tellers(some, path)
          BY <1>4, <1>5, <4>2 DEF Tellers, Told
        <5>2. Places(some, path)' = Places(some, path)
          BY <3>1, <3>2, <4>2 DEF Places
        <5>3. Cardinality(Places(some, path)) >= Cardinality(Tellers(some, path))
          BY <2>1 DEF PathInv
        <5> QED
          BY <1>10, <5>1, <5>2, <5>3, CountsAreFinite, PlacesKeepUp
      <4> QED
        BY <4>1, <4>2
    <3>4. \A k \in DOMAIN world.memory[path] :
            k \in DOMAIN memory'[path] /\ memory'[path][k] = world.memory[path][k]
      BY <2>1, <3>1, <3>2 DEF PathInv
    <3> QED
      BY <1>3, <3>3, <3>4 DEF PathInv
  <2> QED
    BY <2>2, <2>3
<1> QED
  BY <1>5, <1>6, <1>8, <1>9, <1>10 DEF LogInv

\* The audit row and the ends at the gate leave an agent what it was told.
LEMMA AuditKeepsLog ==
  ASSUME LogInv, NEW c, AuditStep(c)
  PROVE  LogInv'
<1> DEFINE new == [calls[c] EXCEPT !.pc = "done"]
<1>1. c \in DOMAIN calls /\ TellFields \subseteq DOMAIN calls[c] /\ Plain(calls[c].req)
  BY DEF AuditStep, At, LogInv, LogCall
<1>2. /\ calls' = [calls EXCEPT ![c] = new] /\ UNCHANGED <<memory, world, raced>>
      /\ TellFields \subseteq DOMAIN new /\ new.req = calls[c].req /\ new.at = calls[c].at
      /\ new.path = calls[c].path /\ new.outcome = calls[c].outcome /\ new.pc = "done"
  BY <1>1 DEF AuditStep, TellFields, proposeVars
<1> HIDE DEF new
<1>3. LogCall(new)
  BY <1>1, <1>2 DEF LogCall, Reading
<1>4. \A path, entry : Told(new, path, entry) => Told(calls[c], path, entry)
  BY <1>2 DEF Told, EntryOf
<1> QED
  BY <1>1, <1>2, <1>3, <1>4, CallKeepsLog

LEMMA ToolsKeepLog ==
  ASSUME LogInv, NEW c, ToolStep(c)
  PROVE  LogInv'
BY IndexToolsKeepLog, ReadKeepsLog, WriteKeepsLog, AuditKeepsLog DEF ToolStep

-------------------------------------------------------------------------------

LEMMA GateKeepsLog ==
  ASSUME LogInv, NEW c, TurnedAway(c) \/ GateLimits(c) \/ GateAdmits(c)
  PROVE  LogInv'
<1>1. /\ c \in DOMAIN calls /\ calls[c].pc \in {"gate", "auth"} /\ LogCall(calls[c])
      /\ UNCHANGED <<memory, world, raced>>
  BY DEF TurnedAway, GateLimits, GateAdmits, At, Step, Others, proposeVars, LogInv
<1>2. TellFields \subseteq DOMAIN calls[c] /\ Plain(calls[c].req) /\ calls[c].outcome = "none"
  BY <1>1 DEF LogCall
<1>3. ASSUME NEW outcome \in {"unauthorized", "limited"},
             calls' = [calls EXCEPT ![c] = End(c, outcome)]
      PROVE  LogInv'
  <2> DEFINE new == End(c, outcome)
  <2>1. /\ TellFields \subseteq DOMAIN new /\ new.req = calls[c].req
        /\ new.outcome = outcome /\ new.pc = "done"
    BY <1>2 DEF End, TellFields
  <2> HIDE DEF new
  <2>2. LogCall(new) /\ \A path, entry : ~Told(new, path, entry)
    BY <1>2, <2>1 DEF LogCall, Reading, Told
  <2> QED
    BY <1>1, <1>3, <2>2, CallKeepsLog DEF new
<1>4. ASSUME calls' = [calls EXCEPT ![c] = [calls[c] EXCEPT !.pc = "auth"]]
      PROVE  LogInv'
  <2> DEFINE new == [calls[c] EXCEPT !.pc = "auth"]
  <2>1. /\ TellFields \subseteq DOMAIN new /\ new.req = calls[c].req
        /\ new.outcome = "none" /\ new.pc = "auth"
    BY <1>2 DEF TellFields
  <2> HIDE DEF new
  <2>2. LogCall(new) /\ \A path, entry : ~Told(new, path, entry)
    BY <1>2, <2>1 DEF LogCall, Reading, Told
  <2> QED
    BY <1>1, <1>4, <2>2, CallKeepsLog DEF new
<1> QED
  BY <1>3, <1>4 DEF TurnedAway, GateLimits, GateAdmits, Step

LEMMA AuthenticateKeepsLog ==
  ASSUME GateInv, LogInv, NEW c, Authenticate(c)
  PROVE  LogInv'
<1> DEFINE req   == calls[c].req
           token == tokens[req.token]
           held  == IF req.scope = None THEN token.scopes ELSE {req.scope}
           path  == IF req.tool = "remember"
                    THEN RememberPath(req.scope, token.name, clock) ELSE None
           pc    == FirstStep(req.tool)
           at    == clock % DayLength
           moved == [calls[c] EXCEPT !.pc = pc, !.held = held, !.owned = Owned(db, held),
                                     !.path = path, !.at = at]
<1>1. /\ c \in DOMAIN calls /\ calls[c].pc = "auth" /\ LogCall(calls[c])
      /\ UNCHANGED <<memory, world, raced>>
      /\ req.tool \in ToolNames
  BY DEF Authenticate, At, LogInv, proposeVars, GateInv, CallsInv, CallInv
<1>2. TellFields \subseteq DOMAIN calls[c] /\ Plain(req) /\ calls[c].outcome = "none"
  BY <1>1 DEF LogCall
<1>3. calls' = [calls EXCEPT ![c] = IF Refused(req, token)
                                    THEN Failed(calls[c], "refused") ELSE moved]
  BY DEF Authenticate
<1>4. at \in 0..(DayLength - 1)
  BY LogPagesAreSound DEF GateInv
<1>5. /\ pc \in Reading \cup {"read"}
      /\ pc \in Reading => req.tool # "remember"
  BY <1>1 DEF ToolNames, FirstStep, Reading
<1> HIDE DEF pc, held, path, at
<1>6. CASE Refused(req, token)
  <2> DEFINE new == Failed(calls[c], "refused")
  <2>1. /\ TellFields \subseteq DOMAIN new /\ new.req = req
        /\ new.outcome = "refused" /\ new.pc = "audit"
    BY <1>2 DEF Failed, TellFields
  <2>2. calls' = [calls EXCEPT ![c] = new]
    BY <1>3, <1>6
  <2> HIDE DEF new
  <2>3. LogCall(new) /\ \A p, entry : ~Told(new, p, entry)
    BY <1>2, <2>1 DEF LogCall, Reading, Told
  <2> QED
    BY <1>1, <2>2, <2>3, CallKeepsLog
<1>7. CASE ~Refused(req, token)
  <2>1. /\ TellFields \subseteq DOMAIN moved /\ moved.req = req
        /\ moved.outcome = "none" /\ moved.pc = pc /\ moved.at = at
    BY <1>2 DEF TellFields
  <2>2. calls' = [calls EXCEPT ![c] = moved]
    BY <1>3, <1>7
  <2> HIDE DEF moved, req, token
  <2>3. EntryOf(moved) # Header
    BY <1>2, <1>4, <2>1 DEF EntryOf, Plain
  <2>4. LogCall(moved) /\ \A p, entry : ~Told(moved, p, entry)
    BY <1>2, <1>5, <2>1, <2>3 DEF LogCall, Reading, Told
  <2> QED
    BY <1>1, <2>2, <2>4, CallKeepsLog
<1> QED
  BY <1>6, <1>7

LEMMA SendKeepsLog ==
  ASSUME GateInv, LogInv, NEW c, Send(c)
  PROVE  LogInv'
<1>1. PICK req \in world.requests :
        calls' = [d \in DOMAIN calls \cup {c} |-> IF d = c THEN Fresh(req) ELSE calls[d]]
  BY DEF Send
<1>2. c \notin DOMAIN calls /\ UNCHANGED <<memory, world, raced>>
  BY DEF Send, Others, proposeVars
<1> DEFINE new == Fresh(req)
<1>3. /\ TellFields \subseteq DOMAIN new /\ new.req = req /\ new.outcome = "none"
      /\ new.pc \in {"gate", "auth"}
  BY DEF Fresh, TellFields
<1>4. Plain(req)
  BY LogPagesAreSound DEF Plain, GateInv
<1>5. DOMAIN calls' = DOMAIN calls \cup {c} /\ calls'[c] = new
        /\ \A d \in DOMAIN calls : calls'[d] = calls[d]
  BY <1>1, <1>2
<1> HIDE DEF new
<1>6. LogCall(new) /\ \A path, entry : ~Told(new, path, entry)
  BY <1>3, <1>4 DEF LogCall, Reading, Told
<1>7. \A path, entry : Tellers(entry, path)' = Tellers(entry, path)
  BY <1>2, <1>5, <1>6 DEF Tellers, Told, EntryOf
<1>8. \A path, entry : Places(entry, path)' = Places(entry, path)
  BY <1>2 DEF Places
<1>9. IsFiniteSet(DOMAIN calls')
  BY <1>5, FS_AddElement DEF LogInv
<1>10. \A d \in DOMAIN calls' : LogCall(calls'[d])
  BY <1>5, <1>6 DEF LogInv
<1>11. ASSUME NEW path \in MemoryPaths \ raced' PROVE PathInv(path)'
  BY <1>2, <1>7, <1>8, <1>11 DEF LogInv, PathInv
<1> QED
  BY <1>2, <1>9, <1>10, <1>11 DEF LogInv

\* The indexer changes two fields of a call that are history.
LEMMA IndexKeepsLog ==
  ASSUME LogInv, IndexStep
  PROVE  LogInv'
<1>1. DOMAIN calls' = DOMAIN calls /\ UNCHANGED <<memory, world, raced>>
  BY DEF IndexStep
<1>2. ASSUME NEW d \in DOMAIN calls
      PROVE  /\ TellFields \subseteq DOMAIN calls'[d]
             /\ \A f \in TellFields : calls'[d][f] = calls[d][f]
  <2> DEFINE told == [calls[d] EXCEPT !.quiet = FALSE, !.owned = @ \cup Owned(db', calls[d].held)]
  <2>1. calls'[d] = told \/ calls'[d] = calls[d]
    BY DEF IndexStep
  <2>2. TellFields \subseteq DOMAIN calls[d]
    BY DEF LogInv, LogCall
  <2>3. TellFields \subseteq DOMAIN told /\ \A f \in TellFields : told[f] = calls[d][f]
    BY <2>2 DEF TellFields
  <2> HIDE DEF told
  <2> QED
    BY <2>1, <2>2, <2>3
<1>3. ASSUME NEW d \in DOMAIN calls
      PROVE  /\ LogCall(calls'[d])
             /\ \A path, entry : Told(calls'[d], path, entry) <=> Told(calls[d], path, entry)
  <2>1. /\ calls'[d].pc = calls[d].pc /\ calls'[d].req = calls[d].req
        /\ calls'[d].outcome = calls[d].outcome /\ calls'[d].path = calls[d].path
        /\ calls'[d].at = calls[d].at /\ calls'[d].base = calls[d].base
        /\ calls'[d].saw = calls[d].saw /\ TellFields \subseteq DOMAIN calls'[d]
    BY <1>2 DEF TellFields
  <2>2. LogCall(calls[d])
    BY DEF LogInv
  <2> QED
    BY <2>1, <2>2 DEF LogCall, Told, EntryOf
<1>4. \A path, entry : Tellers(entry, path)' = Tellers(entry, path)
  BY <1>1, <1>3 DEF Tellers, Told, EntryOf
<1>5. \A path, entry : Places(entry, path)' = Places(entry, path)
  BY <1>1 DEF Places
<1>6. ASSUME NEW path \in MemoryPaths \ raced' PROVE PathInv(path)'
  BY <1>1, <1>4, <1>5, <1>6 DEF LogInv, PathInv
<1> QED
  BY <1>1, <1>3, <1>6 DEF LogInv

LEMMA LogInvInit == Init => LogInv
<1> SUFFICES ASSUME Init PROVE LogInv
  OBVIOUS
<1>1. /\ world \in Worlds /\ memory = world.memory /\ calls = << >> /\ raced = {}
  BY DEF Init
<1>2. DOMAIN calls = {}
  BY <1>1
<1>3. DOMAIN memory = MemoryPaths /\ \A path \in MemoryPaths : IsLogPage(memory[path])
  BY <1>1, LogPagesAreSound
<1>4. ASSUME NEW path \in MemoryPaths PROVE PathInv(path)
  <2>1. ASSUME NEW entry PROVE Cardinality(Places(entry, path)) >= Cardinality(Tellers(entry, path))
    <3>1. Tellers(entry, path) = {}
      BY <1>2 DEF Tellers
    <3>2. IsFiniteSet(Places(entry, path))
      BY <1>3, PlacesAreFinite
    <3>3. Cardinality(Places(entry, path)) \in Nat
      BY <3>2, FS_CardinalityType
    <3> QED
      BY <3>1, <3>3, FS_EmptySet
  <2> QED
    BY <1>1, <2>1 DEF PathInv
<1> QED
  BY <1>2, <1>3, <1>4, FS_EmptySet DEF LogInv

LEMMA LogInvNext == GateInv /\ LogInv /\ [Next]_vars => LogInv'
<1> SUFFICES ASSUME GateInv, LogInv, [Next]_vars PROVE LogInv'
  OBVIOUS
<1>1. ASSUME NEW c \in CallIds, Send(c) \/ Authenticate(c) PROVE LogInv'
  BY <1>1, SendKeepsLog, AuthenticateKeepsLog
<1>2. ASSUME NEW c \in CallIds, TurnedAway(c) \/ GateLimits(c) \/ GateAdmits(c) PROVE LogInv'
  BY <1>2, GateKeepsLog
<1>3. ASSUME NEW c \in CallIds, ToolStep(c) PROVE LogInv'
  BY <1>3, ToolsKeepLog
<1>4. CASE IndexStep
  BY <1>4, IndexKeepsLog
<1>5. ASSUME \/ \E key \in Keys : OtherRequest(key)
             \/ \E who : AgentChecked(who) \/ AgentInserted(who)
             \/ TokenCommand \/ Revoke \/ Proposing \/ TimePasses \/ UNCHANGED vars
      PROVE  UNCHANGED <<calls, memory, world, raced>>
  <2>1. ASSUME Proposing PROVE UNCHANGED <<calls, memory, world, raced>>
    BY <2>1 DEF Proposing, gateVars, StartRun, RunStep, LoadProposeState, ReadPending,
      PlaceBatch, WriteChange, CommitBatch, RunStops, OwnerActs, OwnerDecides
  <2> QED
    BY <1>5, <2>1 DEF OtherRequest, AgentChecked, AgentInserted, TokenCommand, Revoke,
      TimePasses, TokensOnly, proposeVars, gateVars, vars
<1>6. ASSUME UNCHANGED <<calls, memory, world, raced>> PROVE LogInv'
  BY <1>6 DEF LogInv, PathInv, Places, Tellers
<1> QED
  BY <1>1, <1>2, <1>3, <1>4, <1>5, <1>6 DEF Next

\* remember.go:71-134: of any calls, tokens and days, an entry an agent was told is
\* remembered stays in the file of its day, once a call, below what was there and
\* under one header, unless a call on that file wrote over a change it had not read.
THEOREM EntriesAreKept == Spec => []RememberKeepsEntries
<1>1. Init => LogInv
  BY LogInvInit
<1>2. GateInv /\ LogInv /\ [Next]_vars => LogInv'
  BY LogInvNext
<1>3. LogInv => RememberKeepsEntries
  BY LogInvSays
<1> QED
  BY <1>1, <1>2, <1>3, GateHolds, PTL DEF Spec

-------------------------------------------------------------------------------
(* The types. *)

\* What the theorem below asks of a world: its pages and proposals have names and
\* places, and its tokens scopes, that there are. `token create` takes any scope; one
\* that is no directory's finds no page.
WorldsAreTyped ==
  \A w \in Worlds :
    /\ w.existing \subseteq Scopes \X Names
    /\ \A p \in w.inbox : /\ p.kind \in {"claims", "new_page"}
                          /\ p.kind = "new_page" => Place(p) \in Scopes \X Names
                          /\ p.status \in {"pending", "accepted", "rejected"}
    /\ \A id \in DOMAIN w.tokens : /\ "scopes" \in DOMAIN w.tokens[id]
                                   /\ w.tokens[id].scopes \subseteq Scopes
    /\ \A spec \in w.commands : spec.scopes \subseteq Scopes

Pcs == Reading \cup {"gate", "auth", "read", "write", "audit", "done"}

Outcomes == {"none", "ok", "refused", "not_found", "error", "unauthorized", "limited"}

ShapeFields == {"pc", "outcome", "held", "owned"}

Shaped(call) ==
  /\ ShapeFields \subseteq DOMAIN call
  /\ call.pc \in Pcs /\ call.outcome \in Outcomes
  /\ call.held \subseteq Scopes /\ call.owned \subseteq Uids

CallsShaped == \A c \in DOMAIN calls : Shaped(calls[c])

TokensScoped ==
  \A id \in DOMAIN tokens : "scopes" \in DOMAIN tokens[id] /\ tokens[id].scopes \subseteq Scopes

CreatingInv ==
  /\ creating \in [Creators -> {"idle", "checked", "done"}]
  /\ \A who \in Creators : creating[who] = "checked" => world.creates[who].scopes \subseteq Scopes

TypeInv == CallsShaped /\ TokensScoped /\ CreatingInv

LEMMA ChangeKeepsShape ==
  ASSUME CallsShaped, NEW c \in DOMAIN calls, NEW new, Shaped(new),
         calls' = [calls EXCEPT ![c] = new]
  PROVE  CallsShaped'
<1>1. DOMAIN calls' = DOMAIN calls /\ calls'[c] = new
        /\ \A d \in DOMAIN calls \ {c} : calls'[d] = calls[d]
  OBVIOUS
<1>2. ASSUME NEW d \in DOMAIN calls PROVE Shaped(calls'[d])
  BY <1>1 DEF CallsShaped
<1> QED
  BY <1>1, <1>2 DEF CallsShaped

\* A step of a tool goes on or settles the call; its scopes stay.
Follows(new, call) ==
  /\ ShapeFields \subseteq DOMAIN new /\ new.pc \in Pcs /\ new.outcome \in Outcomes
  /\ new.held = call.held /\ new.owned = call.owned

LEMMA SettledFollows ==
  ASSUME NEW call, Shaped(call)
  PROVE  /\ \A pages, aside : Follows(Answered(call, pages, aside), call)
         /\ \A outcome \in Outcomes : Follows(Failed(call, outcome), call)
<1>1. ShapeFields \subseteq DOMAIN call
  BY DEF Shaped
<1> QED
  BY <1>1 DEF Follows, Answered, Failed, ShapeFields, Pcs, Outcomes

LEMMA ToolsFollow ==
  ASSUME NEW c \in DOMAIN calls, Shaped(calls[c]), ToolStep(c)
  PROVE  \E new : Follows(new, calls[c]) /\ calls' = [calls EXCEPT ![c] = new]
<1> DEFINE call == calls[c]
           Goes == \E new : Follows(new, call) /\ calls' = [calls EXCEPT ![c] = new]
<1>1. /\ ShapeFields \subseteq DOMAIN call
      /\ call.pc \in Pcs /\ call.outcome \in Outcomes
  BY DEF Shaped
<1>2. ASSUME NEW new, Follows(new, call), Step(c, new) \/ calls' = [calls EXCEPT ![c] = new]
      PROVE  Goes
  BY <1>2 DEF Step
<1>3. ASSUME NEW pages, NEW aside, Step(c, Answered(call, pages, aside)) PROVE Goes
  BY <1>2, <1>3, SettledFollows
<1>4. ASSUME NEW outcome \in Outcomes, Step(c, Failed(call, outcome)) PROVE Goes
  BY <1>2, <1>4, SettledFollows
<1>5. ASSUME NEW pc \in Pcs, NEW x, NEW y, NEW z,
             \/ Step(c, [call EXCEPT !.pc = pc, !.visited = x, !.next = y])
             \/ Step(c, [call EXCEPT !.pc = pc, !.aside = x])
             \/ Step(c, [call EXCEPT !.hops = x, !.visited = y, !.next = z])
             \/ Step(c, [call EXCEPT !.rows = x, !.pc = pc])
             \/ Step(c, [call EXCEPT !.claims = x, !.pc = pc])
             \/ Step(c, [call EXCEPT !.pc = pc, !.rows = x])
             \/ Step(c, [call EXCEPT !.pc = pc, !.hits = x])
             \/ Step(c, [call EXCEPT !.hits = x, !.found = y])
             \/ Step(c, [call EXCEPT !.pc = pc, !.near = x])
             \/ Step(c, [call EXCEPT !.pc = pc, !.base = x, !.saw = y])
             \/ calls' = [calls EXCEPT ![c] = [call EXCEPT !.pc = pc]]
      PROVE  Goes
  <2>1. /\ Follows([call EXCEPT !.pc = pc, !.visited = x, !.next = y], call)
        /\ Follows([call EXCEPT !.pc = pc, !.aside = x], call)
        /\ Follows([call EXCEPT !.hops = x, !.visited = y, !.next = z], call)
        /\ Follows([call EXCEPT !.rows = x, !.pc = pc], call)
    BY <1>1 DEF Follows, ShapeFields
  <2>2. /\ Follows([call EXCEPT !.claims = x, !.pc = pc], call)
        /\ Follows([call EXCEPT !.pc = pc, !.rows = x], call)
        /\ Follows([call EXCEPT !.pc = pc, !.hits = x], call)
        /\ Follows([call EXCEPT !.hits = x, !.found = y], call)
    BY <1>1 DEF Follows, ShapeFields
  <2>3. /\ Follows([call EXCEPT !.pc = pc, !.near = x], call)
        /\ Follows([call EXCEPT !.pc = pc, !.base = x, !.saw = y], call)
        /\ Follows([call EXCEPT !.pc = pc], call)
    BY <1>1 DEF Follows, ShapeFields
  <2> HIDE DEF Goes, call
  <2> QED
    BY <1>2, <1>5, <2>1, <2>2, <2>3
<1>6. {"back", "hop", "texts", "meta", "vectors", "load", "expand", "write", "done"} \subseteq Pcs
  BY DEF Pcs, Reading
<1>7. {"ok", "not_found", "error"} \subseteq Outcomes
  BY DEF Outcomes
<1> HIDE DEF Goes
<1>8. ASSUME ListStep(c) \/ PackStep(c) \/ ReadFails(c) PROVE Goes
  <2>1. ASSUME ListStep(c) PROVE Goes
    BY <1>3, <2>1 DEF ListStep
  <2>2. ASSUME PackStep(c) PROVE Goes
    BY <1>3, <2>2 DEF PackStep
  <2>3. ASSUME ReadFails(c) PROVE Goes
    BY <1>4, <1>7, <2>3 DEF ReadFails
  <2> QED
    BY <1>8, <2>1, <2>2, <2>3
<1>9. ASSUME PageStep(c) PROVE Goes
  <2>1. PICK visited, pages :
          \/ Step(c, Failed(call, "not_found")) \/ Step(c, Answered(call, pages, {}))
          \/ Step(c, [call EXCEPT !.pc = "back", !.visited = visited, !.next = visited])
    BY <1>9 DEF PageStep
  <2> QED
    BY <1>3, <1>4, <1>5, <1>6, <1>7, <2>1
<1>10. ASSUME BackStep(c) PROVE Goes
  <2>1. PICK aside : Step(c, [call EXCEPT !.pc = "hop", !.aside = aside])
    BY <1>10 DEF BackStep
  <2> QED
    BY <1>5, <1>6, <2>1
<1>11. ASSUME HopStep(c) PROVE Goes
  <2>1. PICK hops, visited, next :
          \/ Step(c, [call EXCEPT !.hops = hops, !.visited = visited, !.next = next])
          \/ Step(c, Answered(call, call.visited, call.aside))
    BY <1>11 DEF HopStep
  <2> QED
    BY <1>1, <1>3, <1>5, <2>1
<1>12. ASSUME LexStep(c) PROVE Goes
  <2>1. PICK rows, semantic :
          Step(c, [call EXCEPT !.rows = rows, !.pc = IF semantic THEN "texts" ELSE "meta"])
    BY <1>12 DEF LexStep
  <2> QED
    BY <1>5, <1>6, <2>1
<1>13. ASSUME TextsStep(c) PROVE Goes
  <2>1. PICK texts :
          Step(c, [call EXCEPT !.claims = texts,
                     !.pc = IF texts = {} THEN "meta" ELSE "vectors"])
    BY <1>13 DEF TextsStep
  <2> QED
    BY <1>5, <1>6, <2>1
<1>14. ASSUME VectorsStep(c) PROVE Goes
  <2>1. PICK rows : Step(c, [call EXCEPT !.pc = "meta", !.rows = rows])
    BY <1>14 DEF VectorsStep
  <2> QED
    BY <1>5, <1>6, <2>1
<1>15. ASSUME MetaStep(c) PROVE Goes
  <2>1. PICK hits, pages :
          \/ Step(c, Answered(call, pages, {}))
          \/ Step(c, [call EXCEPT !.pc = "load", !.hits = hits])
    BY <1>15 DEF MetaStep
  <2> QED
    BY <1>3, <1>5, <1>6, <2>1
<1>16. ASSUME LoadStep(c) PROVE Goes
  <2>1. PICK hits, found : Step(c, [call EXCEPT !.hits = hits, !.found = found])
    BY <1>16 DEF LoadStep
  <2> QED
    BY <1>1, <1>5, <2>1
<1>17. ASSUME ExpandStep(c) PROVE Goes
  <2>1. PICK near : Step(c, [call EXCEPT !.pc = "expand", !.near = near])
    BY <1>17 DEF ExpandStep
  <2> QED
    BY <1>5, <1>6, <2>1
<1>18. ASSUME ReadStep(c) PROVE Goes
  <2>1. PICK page : \/ Step(c, Failed(call, "error"))
                    \/ Step(c, [call EXCEPT !.pc = "write", !.base = page, !.saw = page])
    BY <1>18 DEF ReadStep
  <2> QED
    BY <1>4, <1>5, <1>6, <1>7, <2>1
<1>19. ASSUME WriteStep(c) PROVE Goes
  <2>1. \/ calls' = [calls EXCEPT ![c] = Answered(call, {}, {})]
        \/ calls' = [calls EXCEPT ![c] = Failed(call, "error")]
    BY <1>19 DEF WriteStep
  <2> QED
    BY <1>2, <1>7, <2>1, SettledFollows
<1>20. ASSUME AuditStep(c) PROVE Goes
  <2>1. calls' = [calls EXCEPT ![c] = [call EXCEPT !.pc = "done"]]
    BY <1>20 DEF AuditStep
  <2> QED
    BY <1>5, <1>6, <2>1
<1>21. Goes
  BY <1>8, <1>9, <1>10, <1>11, <1>12, <1>13, <1>14, <1>15, <1>16, <1>17, <1>18, <1>19, <1>20
  DEF ToolStep
<1> QED
  BY <1>21 DEF Goes

LEMMA CallsKeepShape ==
  ASSUME GateInv, CallsShaped, TokensScoped, NEW c,
         \/ Send(c) \/ TurnedAway(c) \/ GateLimits(c) \/ GateAdmits(c)
         \/ Authenticate(c) \/ ToolStep(c)
  PROVE  CallsShaped'
<1> DEFINE call == calls[c]
<1>1. ASSUME c \in DOMAIN calls,
             NEW new, Follows(new, call), calls' = [calls EXCEPT ![c] = new]
      PROVE  CallsShaped'
  <2>1. Shaped(new)
    BY <1>1 DEF CallsShaped, Shaped, Follows
  <2> QED
    BY <1>1, <2>1, ChangeKeepsShape
<1>2. ASSUME Send(c) PROVE CallsShaped'
  <2>1. PICK req \in world.requests :
          calls' = [d \in DOMAIN calls \cup {c} |-> IF d = c THEN Fresh(req) ELSE calls[d]]
    BY <1>2 DEF Send
  <2>2. c \notin DOMAIN calls
    BY <1>2 DEF Send
  <2> DEFINE new == Fresh(req)
  <2>3. Shaped(new)
    BY DEF Fresh, Shaped, ShapeFields, Pcs, Outcomes
  <2> HIDE DEF new
  <2>4. DOMAIN calls' = DOMAIN calls \cup {c} /\ calls'[c] = new
          /\ \A d \in DOMAIN calls : calls'[d] = calls[d]
    BY <2>1, <2>2 DEF new
  <2> QED
    BY <2>3, <2>4 DEF CallsShaped
<1>3. ASSUME TurnedAway(c) \/ GateLimits(c) PROVE CallsShaped'
  <2>1. c \in DOMAIN calls /\ Shaped(call)
    BY <1>3 DEF TurnedAway, GateLimits, At, CallsShaped
  <2>2. PICK outcome \in {"unauthorized", "limited"} : calls' = [calls EXCEPT ![c] = End(c, outcome)]
    BY <1>3 DEF TurnedAway, GateLimits, Step
  <2>3. Follows(End(c, outcome), call)
    BY <2>1 DEF Follows, End, Shaped, ShapeFields, Pcs, Outcomes
  <2> QED
    BY <1>1, <2>1, <2>2, <2>3
<1>4. ASSUME GateAdmits(c) PROVE CallsShaped'
  <2> DEFINE new == [call EXCEPT !.pc = "auth"]
  <2>1. c \in DOMAIN calls /\ Shaped(call)
    BY <1>4 DEF GateAdmits, At, CallsShaped
  <2>2. calls' = [calls EXCEPT ![c] = new]
    BY <1>4 DEF GateAdmits
  <2>3. Follows(new, call)
    BY <2>1 DEF Follows, Shaped, ShapeFields, Pcs, Outcomes
  <2> HIDE DEF new
  <2> QED
    BY <1>1, <2>1, <2>2, <2>3
<1>5. ASSUME Authenticate(c) PROVE CallsShaped'
  <2> DEFINE req   == call.req
             token == tokens[req.token]
             held  == IF req.scope = None THEN token.scopes ELSE {req.scope}
             path  == IF req.tool = "remember"
                      THEN RememberPath(req.scope, token.name, clock) ELSE None
             pc    == FirstStep(req.tool)
             moved == [call EXCEPT !.pc = pc, !.held = held, !.owned = Owned(db, held),
                                   !.path = path, !.at = clock % DayLength]
  <2>1. /\ c \in DOMAIN calls /\ Shaped(call) /\ req.tool \in ToolNames
        /\ req.token \in DOMAIN tokens
    BY <1>5 DEF Authenticate, At, CallsShaped, GateInv, CallsInv, CallInv, TokenLive
  <2>2. calls' = [calls EXCEPT ![c] = IF Refused(req, token) THEN Failed(call, "refused") ELSE moved]
    BY <1>5 DEF Authenticate
  <2>3. ASSUME Refused(req, token) PROVE CallsShaped'
    <3>1. Follows(Failed(call, "refused"), call)
      BY <2>1, SettledFollows DEF Outcomes
    <3> QED
      BY <1>1, <2>1, <2>2, <2>3, <3>1
  <2>4. ASSUME ~Refused(req, token) PROVE CallsShaped'
    <3>1. held \subseteq Scopes
      BY <2>1, <2>4 DEF Refused, AllowsScope, TokensScoped
    <3>2. pc \in Pcs
      BY <2>1 DEF ToolNames, FirstStep, Pcs, Reading
    <3>3. Owned(db, held) \subseteq Uids
      BY DEF Owned, Documents
    <3> HIDE DEF held, pc, path, req, token
    <3>4. Shaped(moved)
      BY <2>1, <3>1, <3>2, <3>3 DEF Shaped, ShapeFields
    <3>5. calls' = [calls EXCEPT ![c] = moved]
      BY <2>2, <2>4
    <3> HIDE DEF moved
    <3> QED
      BY <2>1, <3>4, <3>5, ChangeKeepsShape
  <2> QED
    BY <2>3, <2>4
<1>6. ASSUME ToolStep(c) PROVE CallsShaped'
  <2>1. c \in DOMAIN calls
    BY <1>6 DEF ToolStep, ListStep, PageStep, BackStep, HopStep, LexStep, TextsStep, VectorsStep,
      MetaStep, LoadStep, ExpandStep, PackStep, ReadStep, WriteStep, ReadFails, AuditStep, At
  <2>2. Shaped(call)
    BY <2>1 DEF CallsShaped
  <2> QED
    BY <1>1, <1>6, <2>1, <2>2, ToolsFollow
<1> QED
  BY <1>2, <1>3, <1>4, <1>5, <1>6

LEMMA IndexKeepsShape ==
  ASSUME CallsShaped, IndexStep
  PROVE  CallsShaped'
<1>1. DOMAIN calls' = DOMAIN calls
  BY DEF IndexStep
<1>2. ASSUME NEW d \in DOMAIN calls PROVE Shaped(calls'[d])
  <2> DEFINE more == [calls[d] EXCEPT !.quiet = FALSE, !.owned = @ \cup Owned(db', calls[d].held)]
  <2>1. Shaped(calls[d]) /\ Owned(db', calls[d].held) \subseteq Uids
    BY DEF CallsShaped, Owned, Documents
  <2>2. Shaped(more)
    BY <2>1 DEF Shaped, ShapeFields
  <2> QED
    BY <2>1, <2>2 DEF IndexStep
<1> QED
  BY <1>1, <1>2 DEF CallsShaped

\* Tokens come with the scopes of a command or of a request that was checked.
LEMMA TokensKeepTypes ==
  ASSUME WorldsAreTyped, GateInv, TokensScoped, CreatingInv,
         \/ \E who \in Creators : AgentChecked(who) \/ AgentInserted(who)
         \/ TokenCommand \/ Revoke \/ \E c : Authenticate(c)
  PROVE  TokensScoped' /\ CreatingInv'
<1>1. UNCHANGED world
  BY DEF AgentChecked, AgentInserted, TokenCommand, Revoke, TokensOnly, Authenticate
<1>2. ASSUME NEW spec, spec.scopes \subseteq Scopes, NEW id \in Unused(tokens),
             tokens' = InsertToken(tokens, id, spec.name, spec.scopes, spec.caps, spec.expires)
      PROVE  TokensScoped'
  <2> DEFINE row == [name |-> spec.name, scopes |-> spec.scopes, caps |-> spec.caps,
                     expires |-> spec.expires, revoked |-> FALSE, used |-> FALSE]
  <2>1. "scopes" \in DOMAIN row /\ row.scopes \subseteq Scopes
    BY <1>2
  <2>2. tokens' = [t \in DOMAIN tokens \cup {id} |-> IF t = id THEN row ELSE tokens[t]]
    BY <1>2 DEF InsertToken
  <2> HIDE DEF row
  <2> QED
    BY <2>1, <2>2 DEF TokensScoped
<1>3. ASSUME NEW ids,
             tokens' = [id \in DOMAIN tokens |->
                          IF id \in ids THEN [tokens[id] EXCEPT !.revoked = TRUE] ELSE tokens[id]]
      PROVE  TokensScoped'
  <2> SUFFICES ASSUME NEW id \in DOMAIN tokens
               PROVE  "scopes" \in DOMAIN tokens'[id] /\ tokens'[id].scopes \subseteq Scopes
    BY <1>3 DEF TokensScoped
  <2>1. "scopes" \in DOMAIN tokens[id] /\ tokens[id].scopes \subseteq Scopes
    BY DEF TokensScoped
  <2>2. tokens'[id] = tokens[id] \/ tokens'[id] = [tokens[id] EXCEPT !.revoked = TRUE]
    BY <1>3
  <2> QED
    BY <2>1, <2>2
<1>4. ASSUME NEW who \in Creators, AgentChecked(who) PROVE TokensScoped' /\ CreatingInv'
  <2>1. PICK state \in {"checked", "done"} :
          /\ creating' = [creating EXCEPT ![who] = state]
          /\ state = "checked" => world.creates[who].scopes \subseteq Scopes
    BY <1>4 DEF AgentChecked
  <2>2. CreatingInv'
    BY <1>1, <2>1 DEF CreatingInv
  <2> QED
    BY <1>4, <2>2 DEF AgentChecked, TokensScoped
<1>5. ASSUME NEW who \in Creators, AgentInserted(who) PROVE TokensScoped' /\ CreatingInv'
  <2>1. creating[who] = "checked" /\ creating' = [creating EXCEPT ![who] = "done"]
    BY <1>5 DEF AgentInserted
  <2> DEFINE spec == world.creates[who]
  <2>2. PICK id \in Unused(tokens) :
          tokens' = InsertToken(tokens, id, spec.name, spec.scopes, spec.caps, spec.expires)
    BY <1>5 DEF AgentInserted
  <2>3. spec.scopes \subseteq Scopes
    BY <2>1 DEF CreatingInv
  <2> HIDE DEF spec
  <2>4. CreatingInv'
    BY <1>1, <2>1 DEF CreatingInv
  <2> QED
    BY <1>2, <2>2, <2>3, <2>4
<1>6. ASSUME TokenCommand PROVE TokensScoped' /\ CreatingInv'
  <2>1. PICK spec \in world.commands, id \in Unused(tokens) :
          tokens' = InsertToken(tokens, id, spec.name, spec.scopes, spec.caps, spec.expires)
    BY <1>6 DEF TokenCommand
  <2>2. spec.scopes \subseteq Scopes
    BY WorldsAreTyped DEF WorldsAreTyped, GateInv
  <2> QED
    BY <1>1, <1>2, <1>6, <2>1, <2>2 DEF TokenCommand, CreatingInv
<1>7. ASSUME Revoke PROVE TokensScoped' /\ CreatingInv'
  <2>1. PICK what : tokens' = RevokeRows(tokens, RevokedBy(tokens, what))
    BY <1>7 DEF Revoke
  <2> DEFINE gone == RevokedBy(tokens, what)
  <2>2. tokens' = [id \in DOMAIN tokens |->
                     IF id \in gone THEN [tokens[id] EXCEPT !.revoked = TRUE] ELSE tokens[id]]
    BY <2>1 DEF RevokeRows
  <2> HIDE DEF gone
  <2> QED
    BY <1>1, <1>3, <1>7, <2>2 DEF Revoke, CreatingInv
<1>8. ASSUME NEW c, Authenticate(c) PROVE TokensScoped' /\ CreatingInv'
  <2>1. PICK key : tokens' = [tokens EXCEPT ![key] = [tokens[key] EXCEPT !.used = TRUE]] \/ tokens' = tokens
    BY <1>8 DEF Authenticate, TouchToken
  <2>2. ASSUME NEW id \in DOMAIN tokens
        PROVE  "scopes" \in DOMAIN tokens'[id] /\ tokens'[id].scopes \subseteq Scopes
    <3>1. "scopes" \in DOMAIN tokens[id] /\ tokens[id].scopes \subseteq Scopes
      BY DEF TokensScoped
    <3>2. tokens'[id] = tokens[id] \/ tokens'[id] = [tokens[id] EXCEPT !.used = TRUE]
      BY <2>1
    <3> QED
      BY <3>1, <3>2
  <2>3. DOMAIN tokens' = DOMAIN tokens
    BY <2>1
  <2> QED
    BY <1>1, <1>8, <2>2, <2>3 DEF Authenticate, TokensScoped, CreatingInv
<1> QED
  BY <1>4, <1>5, <1>6, <1>7, <1>8

LEMMA TypeInvNext == WorldsAreTyped /\ GateInv /\ TypeInv /\ [Next]_vars => TypeInv'
<1> SUFFICES ASSUME WorldsAreTyped, GateInv, TypeInv, [Next]_vars PROVE TypeInv'
  OBVIOUS
<1>1. CallsShaped /\ TokensScoped /\ CreatingInv
  BY DEF TypeInv
<1>2. ASSUME UNCHANGED <<tokens, creating, world>> PROVE TokensScoped' /\ CreatingInv'
  BY <1>1, <1>2 DEF TokensScoped, CreatingInv
<1>3. ASSUME NEW c, Send(c) \/ TurnedAway(c) \/ GateLimits(c) \/ GateAdmits(c) \/ ToolStep(c)
      PROVE  TypeInv'
  <2>1. ASSUME ToolStep(c) PROVE UNCHANGED <<tokens, creating, world>>
    BY <2>1 DEF ToolStep, ListStep, PageStep, BackStep, HopStep, LexStep, TextsStep,
      VectorsStep, MetaStep, LoadStep, ExpandStep, PackStep, ReadStep, WriteStep, ReadFails,
      AuditStep, Step, Others
  <2>2. UNCHANGED <<tokens, creating, world>>
    BY <1>3, <2>1 DEF Send, TurnedAway, GateLimits, GateAdmits, Step, Others
  <2>3. CallsShaped'
    BY <1>1, <1>3, CallsKeepShape
  <2> QED
    BY <1>2, <2>2, <2>3 DEF TypeInv
<1>4. ASSUME NEW c, Authenticate(c) PROVE TypeInv'
  <2>1. CallsShaped'
    BY <1>1, <1>4, CallsKeepShape
  <2>2. TokensScoped' /\ CreatingInv'
    BY <1>1, <1>4, TokensKeepTypes
  <2> QED
    BY <2>1, <2>2 DEF TypeInv
<1>5. ASSUME \/ \E who \in Creators : AgentChecked(who) \/ AgentInserted(who)
             \/ TokenCommand \/ Revoke
      PROVE  TypeInv'
  <2>1. TokensScoped' /\ CreatingInv'
    BY <1>1, <1>5, TokensKeepTypes
  <2>2. UNCHANGED calls
    BY <1>5 DEF AgentChecked, AgentInserted, TokenCommand, Revoke, TokensOnly
  <2> QED
    BY <1>1, <2>1, <2>2 DEF TypeInv, CallsShaped
<1>6. ASSUME IndexStep PROVE TypeInv'
  <2>1. UNCHANGED <<tokens, creating, world>>
    BY <1>6 DEF IndexStep
  <2> QED
    BY <1>1, <1>2, <1>6, <2>1, IndexKeepsShape DEF TypeInv
<1>7. ASSUME \/ \E key \in Keys : OtherRequest(key)
             \/ Proposing \/ TimePasses \/ UNCHANGED vars
      PROVE  TypeInv'
  <2>1. UNCHANGED <<calls, tokens, creating, world>>
    BY <1>7 DEF OtherRequest, Proposing, TimePasses, gateVars, vars
  <2> QED
    BY <1>1, <1>2, <2>1 DEF TypeInv, CallsShaped
<1> QED
  BY <1>3, <1>4, <1>5, <1>6, <1>7 DEF Next

\* What is not a run's step nor the owner's files nothing.
LEMMA ServerKeepsFiledInv == FiledInv /\ [Next]_vars => FiledInv'
<1> SUFFICES ASSUME FiledInv, [Next]_vars PROVE FiledInv'
  OBVIOUS
<1>1. CASE Proposing
  <2>1. (\E options : StartRun(options)) \/ RunStep \/ OwnerActs
    BY <1>1 DEF Proposing
  <2> QED
    BY <2>1, RunFiles, OwnerFiles
<1>2. ASSUME NEW c \in CallIds,
             \/ Send(c) \/ TurnedAway(c) \/ GateLimits(c) \/ GateAdmits(c)
             \/ Authenticate(c) \/ ToolStep(c)
      PROVE  UNCHANGED <<inbox, existing, prun>>
  <2>1. ASSUME ToolStep(c) PROVE UNCHANGED <<inbox, existing, prun>>
    BY <2>1 DEF ToolStep, ListStep, PageStep, BackStep, HopStep, LexStep, TextsStep,
      VectorsStep, MetaStep, LoadStep, ExpandStep, PackStep, ReadStep, WriteStep, ReadFails,
      AuditStep, Step, Others, proposeVars
  <2> QED
    BY <1>2, <2>1 DEF Send, TurnedAway, GateLimits, GateAdmits, Authenticate, Step, Others,
      proposeVars
<1>3. ASSUME \/ \E key \in Keys : OtherRequest(key)
             \/ \E who : AgentChecked(who) \/ AgentInserted(who)
             \/ IndexStep \/ TokenCommand \/ Revoke \/ TimePasses \/ UNCHANGED vars
      PROVE  UNCHANGED <<inbox, existing, prun>>
  BY <1>3 DEF OtherRequest, AgentChecked, AgentInserted, IndexStep, TokenCommand, Revoke,
    TimePasses, TokensOnly, proposeVars, vars
<1>4. ASSUME UNCHANGED <<inbox, existing, prun>> PROVE FiledInv'
  BY <1>4 DEF FiledInv, ProposalShape
<1> QED
  BY <1>1, <1>2, <1>3, <1>4 DEF Next

LEMMA TypesInit == WorldsAreTyped /\ Init => TypeInv /\ FiledInv
<1> SUFFICES ASSUME WorldsAreTyped, Init PROVE TypeInv /\ FiledInv
  OBVIOUS
<1>1. /\ world \in Worlds /\ tokens = world.tokens /\ calls = << >>
      /\ creating = [who \in Creators |-> "idle"]
      /\ existing = world.existing /\ inbox = world.inbox /\ prun = NoRun
  BY DEF Init
<1>2. TypeInv
  <2>1. CallsShaped
    BY <1>1 DEF CallsShaped
  <2>2. TokensScoped
    BY <1>1 DEF WorldsAreTyped, TokensScoped
  <2>3. CreatingInv
    BY <1>1 DEF CreatingInv
  <2> QED
    BY <2>1, <2>2, <2>3 DEF TypeInv
<1>3. FiledInv
  BY <1>1, WorldsAreSound DEF WorldsAreTyped, FiledInv, ProposalShape, Filable
<1> QED
  BY <1>2, <1>3

\* Of any calls, tokens, proposals and days of the worlds above: a call is at one of
\* its points with one of its outcomes and names pages that are pages, memory pages
\* open with their header, and proposals, pages and requests of the owner are of the
\* kinds and states the code has.
THEOREM TypesAreKept == ASSUME WorldsAreTyped PROVE Spec => []TypeOK
<1>1. Init => LimiterInit
  BY DEF Init
<1>2. Spec => []LimiterTypeOK
  <2>1. Spec => LimiterSpec
    BY <1>1, GateHolds, ServerStepsLimiter, PTL DEF Spec, LimiterSpec
  <2> QED
    BY <2>1, LimiterTypeCorrect, PTL
<1>3. Init => ScopeInv
  BY DEF Init, ScopeInv
<1>4. Spec => []ScopeInv
  BY <1>3, GateHolds, ScopeInvNext, PTL DEF Spec
<1>5. Spec => []LogInv
  BY LogInvInit, LogInvNext, GateHolds, PTL DEF Spec
<1>6. Spec => []FiledInv
  BY TypesInit, WorldsAreTyped, ServerKeepsFiledInv, PTL DEF Spec
<1>7. GateInv /\ TypeInv /\ [Next]_vars => TypeInv'
  BY TypeInvNext
<1>8. Spec => []TypeInv
  BY <1>7, TypesInit, WorldsAreTyped, GateHolds, PTL DEF Spec
<1>9. LimiterTypeOK /\ ScopeInv /\ LogInv /\ FiledInv /\ TypeInv => TypeOK
  <2> SUFFICES ASSUME LimiterTypeOK, ScopeInv, LogInv, FiledInv, TypeInv PROVE TypeOK
    OBVIOUS
  <2>1. ASSUME NEW c \in DOMAIN calls
        PROVE  /\ calls[c].pc \in Pcs /\ calls[c].outcome \in Outcomes
               /\ calls[c].pages \subseteq Uids /\ calls[c].aside \subseteq Uids
               /\ calls[c].held \subseteq Scopes
    BY DEF TypeInv, CallsShaped, Shaped, ScopeInv, Scoped
  <2>2. \A path \in MemoryPaths : memory[path] # << >> => memory[path][1] = Header
    BY DEF LogInv, IsLogPage
  <2>3. /\ existing \subseteq Scopes \X Names
        /\ \A p \in inbox : p.kind \in {"claims", "new_page"}
                              /\ p.status \in {"pending", "accepted", "rejected"}
    BY DEF FiledInv, Filable
  <2>4. creating \in [Creators -> {"idle", "checked", "done"}]
    BY DEF TypeInv, CreatingInv
  <2> QED
    BY <2>1, <2>2, <2>3, <2>4 DEF TypeOK, Pcs, Outcomes
<1> QED
  BY <1>2, <1>4, <1>5, <1>6, <1>8, <1>9, PTL

-------------------------------------------------------------------------------
(* Exact answers.  First the smallest of some sets, the least of some numbers, *)
(* and sums, which the community modules fold.                                 *)

\* Of some subsets of a finite set one has no other inside it.
LEMMA SmallestSubset ==
  ASSUME NEW S, IsFiniteSet(S), NEW F \in SUBSET (SUBSET S), F # {}
  PROVE  \E T \in F : \A U \in F : U \subseteq T => U = T
<1>1. F \subseteq FiniteSubsetsOf(S)
  BY FS_FiniteSubsetsOfFinite
<1>2. PICK T \in F : \A U \in F : ~(<<U, T>> \in StrictSubsetOrdering(S))
  BY <1>1, FS_StrictSubsetOrderingWellFounded, WFMin
<1>3. ASSUME NEW U \in F, U \subseteq T PROVE U = T
  BY <1>2, <1>3 DEF StrictSubsetOrdering
<1> QED
  BY <1>3

LEMMA Least ==
  ASSUME NEW T \in SUBSET Nat, T # {}
  PROVE  \E m \in T : \A k \in T : m <= k
<1> DEFINE Below == {p \in Nat \X Nat : p[1] < p[2]}
<1>1. IsWellFoundedOn(Below, Nat)
  <2>1. Below = OpToRel(<, Nat)
    BY DEF OpToRel
  <2> QED
    BY <2>1, NatLessThanWellFounded
<1>2. PICK m \in T : \A k \in T : ~(<<k, m>> \in Below)
  BY <1>1, WFMin
<1>3. ASSUME NEW k \in T PROVE m <= k
  <2>1. <<k, m>> \in Nat \X Nat
    OBVIOUS
  <2>2. ~(k < m)
    BY <1>2, <2>1
  <2> QED
    BY <2>2
<1> QED
  BY <1>3

Part(it, f, s) ==
  IF s = {} THEN 0 ELSE f[CHOOSE x \in s : TRUE] + it[s \ {CHOOSE x \in s : TRUE}]

\* The sums of the subsets of a set, as the folds of the community modules take them.
IsTally(it, f, S) == it = [s \in SUBSET S |-> Part(it, f, s)]

Sum(f, S) == (CHOOSE it : IsTally(it, f, S))[S]

LEMMA TallyExists ==
  ASSUME NEW S, IsFiniteSet(S), NEW f
  PROVE  \E it : IsTally(it, f, S)
<1> DEFINE Level(n) == {s \in SUBSET S : Cardinality(s) <= n}
           IsLevel(it, n) == it = [s \in Level(n) |-> Part(it, f, s)]
           Bad == {n \in Nat : ~ \E it : IsLevel(it, n)}
<1>1. \A s \in SUBSET S : /\ IsFiniteSet(s) /\ Cardinality(s) \in Nat
                          /\ Cardinality(s) = 0 <=> s = {}
  BY FS_Subset, FS_CardinalityType, FS_EmptySet
<1>2. 0 \notin Bad
  <2> DEFINE it == [s \in Level(0) |-> 0]
  <2>1. \A s \in Level(0) : s = {}
    BY <1>1
  <2>2. it = [s \in Level(0) |-> Part(it, f, s)]
    BY <2>1 DEF Part
  <2> QED
    BY <2>2
<1>3. ASSUME NEW n \in Nat, n \notin Bad PROVE n + 1 \notin Bad
  <2>1. PICK it : IsLevel(it, n)
    BY <1>3
  <2> DEFINE new == [s \in Level(n + 1) |-> Part(it, f, s)]
  <2>2. \A s \in Level(n) : s \in Level(n + 1) /\ new[s] = it[s]
    BY <1>1, <2>1
  <2>3. ASSUME NEW s \in Level(n + 1), s # {}
        PROVE  s \ {CHOOSE out \in s : TRUE} \in Level(n)
    <3> DEFINE out == CHOOSE y \in s : TRUE
    <3>1. out \in s
      BY <2>3
    <3> HIDE DEF out
    <3>2. Cardinality(s \ {out}) = Cardinality(s) - 1
      BY <1>1, <3>1, FS_RemoveElement
    <3>3. s \ {out} \in Level(n)
      BY <1>1, <3>2
    <3> QED
      BY <3>3 DEF out
  <2> HIDE DEF Level
  <2>4. ASSUME NEW s \in Level(n + 1) PROVE Part(new, f, s) = Part(it, f, s)
    <3> DEFINE out == CHOOSE y \in s : TRUE
    <3>1. s # {} => new[s \ {out}] = it[s \ {out}]
      BY <2>2, <2>3
    <3> HIDE DEF new
    <3> QED
      BY <3>1 DEF Part
  <2>5. new = [s \in Level(n + 1) |-> Part(new, f, s)]
    <3>1. DOMAIN new = Level(n + 1) /\ \A s \in Level(n + 1) : new[s] = Part(new, f, s)
      BY <2>4
    <3>2. new = [s \in DOMAIN new |-> new[s]]
      OBVIOUS
    <3> HIDE DEF new
    <3> QED
      BY <3>1, <3>2
  <2>6. IsLevel(new, n + 1)
    BY <2>5
  <2> HIDE DEF new, IsLevel
  <2> QED
    BY <2>6
<1>4. Bad = {}
  <2> HIDE DEF Bad
  <2>1. Bad \in SUBSET Nat
    BY DEF Bad
  <2>2. ASSUME NEW m \in Bad, \A k \in Bad : m <= k PROVE FALSE
    <3>1. m \in Nat /\ m # 0
      BY <1>2, <2>1
    <3>2. m - 1 \in Nat /\ m - 1 \notin Bad
      BY <2>1, <2>2, <3>1
    <3> QED
      BY <1>3, <3>1, <3>2
  <2> QED
    BY <2>1, <2>2, Least
<1>5. PICK it : IsLevel(it, Cardinality(S))
  BY <1>1, <1>4
<1>6. Level(Cardinality(S)) = SUBSET S
  BY <1>1, FS_Subset
<1> QED
  BY <1>5, <1>6 DEF IsTally

\* What a sum is does not depend on the set it is a part of.
LEMMA TalliesAgree ==
  ASSUME NEW S, IsFiniteSet(S), NEW f, NEW g, \A x \in S : f[x] = g[x],
         NEW A, S \subseteq A, NEW a, IsTally(a, f, A),
         NEW B, S \subseteq B, NEW b, IsTally(b, g, B)
  PROVE  a[S] = b[S]
<1> DEFINE Bad == {s \in SUBSET S : a[s] # b[s]}
<1>1. SUFFICES Bad = {}
  OBVIOUS
<1>2. ASSUME NEW s \in Bad, \A t \in Bad : t \subseteq s => t = s PROVE FALSE
  <2> DEFINE out == CHOOSE y \in s : TRUE
  <2>1. a[s] = Part(a, f, s) /\ b[s] = Part(b, g, s) /\ a[s] # b[s]
    BY <1>2 DEF IsTally
  <2>2. s # {}
    BY <2>1 DEF Part
  <2>3. out \in s
    BY <2>2
  <2>4. a[s] = f[out] + a[s \ {out}] /\ b[s] = g[out] + b[s \ {out}]
    BY <2>1, <2>2 DEF Part
  <2> HIDE DEF out
  <2>5. s \ {out} \notin Bad /\ f[out] = g[out]
    BY <1>2, <2>3
  <2>6. a[s \ {out}] = b[s \ {out}]
    BY <2>5
  <2> QED
    BY <2>1, <2>4, <2>5, <2>6
<1> HIDE DEF Bad
<1>3. Bad \in SUBSET (SUBSET S)
  BY DEF Bad
<1> QED
  BY <1>2, <1>3, SmallestSubset

LEMMA SumIs ==
  ASSUME NEW S, IsFiniteSet(S), NEW f, NEW g, \A x \in S : f[x] = g[x],
         NEW A, S \subseteq A, NEW a, IsTally(a, f, A)
  PROVE  a[S] = Sum(g, S)
<1>1. IsTally(CHOOSE it : IsTally(it, g, S), g, S)
  BY TallyExists
<1> QED
  BY <1>1, TalliesAgree DEF Sum

LEMMA SumOfSame ==
  ASSUME NEW S, IsFiniteSet(S), NEW f, NEW g, \A x \in S : f[x] = g[x]
  PROVE  Sum(f, S) = Sum(g, S)
<1>1. IsTally(CHOOSE it : IsTally(it, f, S), f, S)
  BY TallyExists
<1> QED
  BY <1>1, SumIs DEF Sum

\* A sum is one of its terms and the sum of the others, whichever it is.
LEMMA SumStep ==
  ASSUME NEW S, IsFiniteSet(S), NEW f, \A x \in S : f[x] \in Nat
  PROVE  /\ Sum(f, S) \in Nat
         /\ S = {} => Sum(f, S) = 0
         /\ \A x \in S : Sum(f, S) = f[x] + Sum(f, S \ {x})
<1>1. PICK it : IsTally(it, f, S)
  BY TallyExists
<1>2. ASSUME NEW s \in SUBSET S PROVE it[s] = Sum(f, s)
  BY <1>1, <1>2, SumIs, FS_Subset
<1> DEFINE Good(s) == it[s] \in Nat /\ \A x \in s : it[s] = f[x] + it[s \ {x}]
           Bad == {s \in SUBSET S : ~Good(s)}
<1>3. \A s \in SUBSET S : it[s] = Part(it, f, s)
  BY <1>1 DEF IsTally
<1>4. ASSUME NEW s \in Bad, \A t \in Bad : t \subseteq s => t = s PROVE FALSE
  <2> DEFINE c == CHOOSE y \in s : TRUE
  <2>1. CASE s = {}
    <3>1. it[s] = 0
      BY <1>3, <1>4, <2>1 DEF Part
    <3> QED
      BY <1>4, <2>1, <3>1
  <2>2. CASE s # {}
    <3>1. c \in s /\ it[s] = f[c] + it[s \ {c}]
      BY <1>3, <2>2 DEF Part
    <3> HIDE DEF c
    <3>2. \A x \in s : Good(s \ {x})
      BY <1>4
    <3>3. ASSUME NEW x \in s, x # c PROVE it[s] = f[x] + it[s \ {x}]
      <4>1. it[s \ {c}] = f[x] + it[(s \ {c}) \ {x}]
        BY <3>1, <3>2, <3>3
      <4>2. it[s \ {x}] = f[c] + it[(s \ {x}) \ {c}]
        BY <3>1, <3>2, <3>3
      <4>3. (s \ {c}) \ {x} = (s \ {x}) \ {c}
        OBVIOUS
      <4> DEFINE rest == it[(s \ {x}) \ {c}]
      <4>4. Good((s \ {x}) \ {c})
        BY <1>4, <3>1
      <4>5. rest \in Nat /\ f[x] \in Nat /\ f[c] \in Nat
        BY <3>1, <4>4
      <4>6. it[s \ {c}] = f[x] + rest /\ it[s \ {x}] = f[c] + rest
        BY <4>1, <4>2, <4>3
      <4> HIDE DEF rest
      <4> QED
        BY <3>1, <4>5, <4>6
    <3>4. it[s] \in Nat
      <4>1. it[s \ {c}] \in Nat /\ f[c] \in Nat
        BY <1>4, <3>1, <3>2
      <4> QED
        BY <3>1, <4>1
    <3> QED
      BY <1>4, <3>1, <3>3, <3>4
  <2> QED
    BY <2>1, <2>2
<1> HIDE DEF Bad
<1>5. Bad \in SUBSET (SUBSET S)
  BY DEF Bad
<1>6. Bad = {}
  BY <1>4, <1>5, SmallestSubset
<1>7. Good(S)
  BY <1>6 DEF Bad
<1>8. S = {} => it[S] = 0
  BY <1>3 DEF Part
<1> QED
  BY <1>2, <1>7, <1>8

\* A part of a set sums to no more than the set.
LEMMA SumOfPart ==
  ASSUME NEW S, IsFiniteSet(S), NEW f, \A x \in S : f[x] \in Nat, NEW T \in SUBSET S
  PROVE  Sum(f, T) <= Sum(f, S)
<1> DEFINE Bad == {U \in SUBSET S : T \subseteq U /\ ~(Sum(f, T) <= Sum(f, U))}
<1>1. ASSUME NEW U \in Bad, \A V \in Bad : V \subseteq U => V = U PROVE FALSE
  <2>1. /\ IsFiniteSet(U) /\ IsFiniteSet(T) /\ \A x \in U : f[x] \in Nat
        /\ Sum(f, T) \in Nat /\ Sum(f, U) \in Nat
    BY <1>1, FS_Subset, SumStep
  <2>2. PICK x \in U : x \notin T
    <3>1. T \subseteq U /\ ~(Sum(f, T) <= Sum(f, U))
      BY <1>1
    <3>2. T # U
      BY <2>1, <3>1
    <3> QED
      BY <3>1, <3>2
  <2>3. U \ {x} \notin Bad
    BY <1>1, <2>2
  <2>4. Sum(f, T) <= Sum(f, U \ {x})
    BY <1>1, <2>2, <2>3
  <2>5. Sum(f, U \ {x}) \in Nat
    BY <2>1, FS_RemoveElement, SumStep
  <2>6. Sum(f, U) = f[x] + Sum(f, U \ {x})
    BY <2>1, <2>2, SumStep
  <2> QED
    BY <1>1, <2>1, <2>2, <2>4, <2>5, <2>6
<1> HIDE DEF Bad
<1>2. Bad \in SUBSET (SUBSET S)
  BY DEF Bad
<1>3. Bad = {}
  BY <1>1, <1>2, SmallestSubset
<1> QED
  BY <1>3 DEF Bad

\* Elements named apart and as heavy as their names weigh what the names do.
LEMMA SumOfNames ==
  ASSUME NEW S, IsFiniteSet(S), NEW f, \A x \in S : f[x] \in Nat, NEW g, NEW h,
         \A x \in S : g[h[x]] = f[x], \A x, y \in S : h[x] = h[y] => x = y
  PROVE  Sum(g, {h[x] : x \in S}) = Sum(f, S)
<1> DEFINE Names_(T) == {h[x] : x \in T}
           Bad == {T \in SUBSET S : Sum(g, Names_(T)) # Sum(f, T)}
<1>1. ASSUME NEW T \in SUBSET S
      PROVE  /\ IsFiniteSet(T) /\ IsFiniteSet(Names_(T)) /\ \A x \in T : f[x] \in Nat
             /\ \A n \in Names_(T) : g[n] \in Nat
  <2>1. IsFiniteSet(T)
    BY FS_Subset
  <2>2. [x \in T |-> h[x]] \in Surjection(T, Names_(T))
    BY DEF Surjection
  <2> QED
    BY <2>1, <2>2, FS_Surjection
<1>2. ASSUME NEW T \in Bad, \A U \in Bad : U \subseteq T => U = T PROVE FALSE
  <2>1. CASE T = {}
    <3>1. Names_(T) = {}
      BY <2>1
    <3> QED
      BY <1>1, <1>2, <2>1, <3>1, SumStep
  <2>2. CASE T # {}
    <3>1. PICK x \in T : TRUE
      BY <2>2
    <3>2. Names_(T \ {x}) = Names_(T) \ {h[x]}
      BY <1>2, <3>1
    <3>3. T \ {x} \notin Bad
      BY <1>2, <3>1
    <3>4. Sum(g, Names_(T) \ {h[x]}) = Sum(f, T \ {x})
      BY <1>2, <3>2, <3>3
    <3>5. Sum(f, T) = f[x] + Sum(f, T \ {x})
      BY <1>1, <1>2, <3>1, SumStep
    <3>6. h[x] \in Names_(T)
      BY <3>1
    <3> HIDE DEF Names_
    <3>7. Sum(g, Names_(T)) = g[h[x]] + Sum(g, Names_(T) \ {h[x]})
      BY <1>1, <1>2, <3>6, SumStep
    <3> QED
      BY <1>2, <3>1, <3>4, <3>5, <3>7
  <2> QED
    BY <2>1, <2>2
<1> HIDE DEF Bad
<1>3. Bad \in SUBSET (SUBSET S)
  BY DEF Bad
<1>4. Bad = {}
  BY <1>2, <1>3, SmallestSubset
<1> QED
  BY <1>4 DEF Bad

-------------------------------------------------------------------------------
(* What the tools do with what they read. *)

\* A page has room, whole, or is left out.
LEMMA TokensAreSummed ==
  ASSUME NEW P, IsFiniteSet(P), NEW f, \A c \in P : f[c] = c.tokens
  PROVE  TokensOf(P) = Sum(f, P)
<1> DEFINE it == CHOOSE it : it = [s \in SUBSET P |->
             IF s = {} THEN 0 ELSE (CHOOSE x \in s : TRUE).tokens + it[s \ {CHOOSE x \in s : TRUE}]]
           g == [c \in P |-> c.tokens]
<1>1. TokensOf(P) = it[P]
  BY DEF TokensOf, MapThenSumSet, MapThenFoldSet
<1>2. PICK a : IsTally(a, g, P)
  BY TallyExists
<1>3. \A b : (b = [s \in SUBSET P |->
                IF s = {} THEN 0 ELSE (CHOOSE x \in s : TRUE).tokens + b[s \ {CHOOSE x \in s : TRUE}]])
             <=> IsTally(b, g, P)
  <2> TAKE b
  <2>1. ASSUME NEW s \in SUBSET P
        PROVE  (IF s = {} THEN 0 ELSE (CHOOSE x \in s : TRUE).tokens + b[s \ {CHOOSE x \in s : TRUE}])
                 = Part(b, g, s)
    BY DEF Part
  <2> HIDE DEF g
  <2> QED
    BY <2>1 DEF IsTally
<1>4. IsTally(it, g, P)
  BY <1>2, <1>3, ZenonT(30)
<1> HIDE DEF it
<1> QED
  BY <1>1, <1>4, SumIs

\* What a candidate is known to be.
SoundCandidates(P) ==
  /\ IsFiniteSet(P)
  /\ \A c \in P : /\ {"uid", "type", "tokens", "historical", "score", "at"} \subseteq DOMAIN c
                  /\ c.type \in Int /\ c.tokens \in Nat /\ c.historical \in BOOLEAN
                  /\ c.score \in Int /\ c.at \in Int
  /\ \A c, d \in P : c.at = d.at \/ c.uid = d.uid => c = d

LEMMA BeforeIsAnOrder ==
  ASSUME NEW P, SoundCandidates(P)
  PROVE  /\ \A c, d \in P : c # d => Before(c, d) \/ Before(d, c)
         /\ \A c, d, e \in P : Before(c, d) /\ Before(d, e) => Before(c, e)
         /\ \A c \in P : ~Before(c, c)
<1>1. \A c \in P : /\ c.type \in Int /\ c.historical \in BOOLEAN
                   /\ c.score \in Int /\ c.at \in Int
  BY DEF SoundCandidates
<1>2. ASSUME NEW c \in P, NEW d \in P, c # d PROVE Before(c, d) \/ Before(d, c)
  <2>1. c.at # d.at
    BY <1>2 DEF SoundCandidates
  <2> QED
    BY <1>1, <2>1 DEF Before
<1>3. ASSUME NEW c \in P, NEW d \in P, NEW e \in P, Before(c, d), Before(d, e)
      PROVE  Before(c, e)
  BY <1>1, <1>3 DEF Before
<1> QED
  BY <1>1, <1>2, <1>3 DEF Before

LEMMA LastCandidate ==
  ASSUME NEW P, SoundCandidates(P), P # {}
  PROVE  \E c \in P : \A d \in P \ {c} : Before(d, c)
<1> DEFINE Latest(T, c) == \A d \in T \ {c} : Before(d, c)
           Bad == {T \in SUBSET P : T # {} /\ ~ \E c \in T : Latest(T, c)}
<1>1. ASSUME NEW T \in Bad, \A U \in Bad : U \subseteq T => U = T PROVE FALSE
  <2>1. PICK x \in T : TRUE
    BY <1>1
  <2>2. T \ {x} # {}
    BY <1>1, <2>1
  <2>3. T \ {x} \notin Bad
    BY <1>1, <2>1
  <2>4. PICK c \in T \ {x} : Latest(T \ {x}, c)
    BY <1>1, <2>2, <2>3
  <2>5. CASE Before(x, c)
    BY <1>1, <2>4, <2>5
  <2>6. CASE Before(c, x)
    <3>1. \A d \in T \ {x} : d = c \/ Before(d, c)
      BY <2>4
    <3>2. \A d \in T \ {x} : Before(d, x)
      BY <1>1, <2>1, <2>6, <3>1, BeforeIsAnOrder
    <3> QED
      BY <1>1, <2>1, <3>2
  <2> QED
    BY <1>1, <2>1, <2>4, <2>5, <2>6, BeforeIsAnOrder
<1> HIDE DEF Bad
<1>2. Bad \in SUBSET (SUBSET P)
  BY DEF Bad
<1>3. IsFiniteSet(P)
  BY DEF SoundCandidates
<1>4. Bad = {}
  BY <1>1, <1>2, <1>3, SmallestSubset
<1> QED
  BY <1>4 DEF Bad

\* A pack is within its budget, and what it leaves out would not fit beside it.
LEMMA PackIsTight ==
  ASSUME NEW P, SoundCandidates(P), NEW budget \in Nat, NEW pages \in Packs(P, budget)
  PROVE  /\ pages \subseteq P /\ TokensOf(pages) <= budget
         /\ \A c \in P \ pages : TokensOf(pages) + c.tokens > budget
<1> DEFINE f == [c \in P |-> c.tokens]
           Ahead(c) == {d \in pages : Before(d, c)}
<1>1. pages \subseteq P /\ \A c \in P : c \in pages <=> TokensOf(Ahead(c)) + c.tokens <= budget
  BY DEF Packs
<1>2. /\ IsFiniteSet(P) /\ IsFiniteSet(pages) /\ \A c \in P : f[c] = c.tokens /\ f[c] \in Nat
      /\ \A c \in P : IsFiniteSet(Ahead(c))
  BY <1>1, FS_Subset DEF SoundCandidates
<1> HIDE DEF f
<1>3. /\ TokensOf(pages) = Sum(f, pages) /\ Sum(f, pages) \in Nat
      /\ \A c \in P : TokensOf(Ahead(c)) = Sum(f, Ahead(c)) /\ Sum(f, Ahead(c)) \in Nat
  BY <1>1, <1>2, TokensAreSummed, SumStep
<1>4. TokensOf(pages) <= budget
  <2>1. CASE pages = {}
    BY <1>2, <1>3, <2>1, SumStep
  <2>2. CASE pages # {}
    <3>1. SoundCandidates(pages)
      BY <1>1, <1>2 DEF SoundCandidates
    <3>2. PICK c \in pages : \A d \in pages \ {c} : Before(d, c)
      BY <2>2, <3>1, LastCandidate
    <3>3. Ahead(c) = pages \ {c}
      BY <1>1, <3>2, BeforeIsAnOrder
    <3>4. Sum(f, pages) = f[c] + Sum(f, pages \ {c})
      BY <1>1, <1>2, SumStep
    <3> QED
      BY <1>1, <1>2, <1>3, <3>3, <3>4
  <2> QED
    BY <2>1, <2>2
<1>5. ASSUME NEW c \in P \ pages PROVE TokensOf(pages) + c.tokens > budget
  <2>1. ~(Sum(f, Ahead(c)) + c.tokens <= budget)
    BY <1>1, <1>3
  <2>2. Sum(f, Ahead(c)) <= Sum(f, pages)
    BY <1>1, <1>2, SumOfPart
  <2>3. c.tokens \in Nat /\ Sum(f, Ahead(c)) \in Nat /\ Sum(f, pages) \in Nat
    BY <1>2, <1>3
  <2>4. Sum(f, pages) + c.tokens > budget
    BY <2>1, <2>2, <2>3
  <2> QED
    BY <1>3, <2>4
<1> QED
  BY <1>1, <1>4, <1>5

\* The first of a set are all of it, or as many as were asked for.
LEMMA FirstsAreEnough ==
  ASSUME NEW S, IsFiniteSet(S), NEW most \in Nat,
         NEW T \in kSubset(Min({most, Cardinality(S)}), S)
  PROVE  /\ T \subseteq S /\ IsFiniteSet(T) /\ Cardinality(T) \in Nat /\ Cardinality(T) <= most
         /\ T = S \/ (Cardinality(T) = most /\ Cardinality(S) > most)
<1> DEFINE m == Cardinality(S)
<1>1. m \in Nat
  BY FS_CardinalityType
<1> HIDE DEF m
<1>2. Min({most, m}) = IF most <= m THEN most ELSE m
  <2>1. \E x \in {most, m} : \A y \in {most, m} : x =< y
    BY <1>1
  <2>2. Min({most, m}) \in {most, m} /\ \A y \in {most, m} : Min({most, m}) =< y
    BY <2>1 DEF Min
  <2> QED
    BY <1>1, <2>2
<1>3. T \in SUBSET S /\ Cardinality(T) = IF most <= m THEN most ELSE m
  BY <1>2 DEF kSubset, m
<1>4. IsFiniteSet(T) /\ (Cardinality(S) = Cardinality(T) => S = T)
  BY <1>3, FS_Subset
<1>5. CASE m <= most
  BY <1>1, <1>3, <1>4, <1>5 DEF m
<1>6. CASE most < m
  BY <1>1, <1>3, <1>4, <1>6 DEF m
<1> QED
  BY <1>1, <1>5, <1>6

\* Elements named apart are as many as their names.
LEMMA AsManyNames ==
  ASSUME NEW S, IsFiniteSet(S), NEW h, \A x, y \in S : h[x] = h[y] => x = y
  PROVE  IsFiniteSet({h[x] : x \in S}) /\ Cardinality({h[x] : x \in S}) = Cardinality(S)
<1> DEFINE T == {h[x] : x \in S}
           f == [x \in S |-> h[x]]
<1>1. f \in Surjection(S, T)
  BY DEF Surjection
<1>2. f \in Injection(S, T)
  <2>1. f \in [S -> T]
    OBVIOUS
  <2>2. \A x, y \in S : f[x] = f[y] => x = y
    OBVIOUS
  <2> HIDE DEF f, T
  <2> QED
    BY <2>1, <2>2 DEF Injection, IsInjective
<1> HIDE DEF f, T
<1>3. IsFiniteSet(T) /\ Cardinality(T) = Cardinality(S)
  BY <1>1, <1>2, FS_Surjection
<1> QED
  BY <1>3 DEF T

-------------------------------------------------------------------------------
(* What a search finds. *)

\* What a row of the search is known to be.
SoundRows(rows) ==
  IsFiniteSet(rows) /\ \A r \in rows : {"uid", "share"} \subseteq DOMAIN r /\ r.share \in Nat

LEMMA ScoresAreSummed ==
  ASSUME NEW rows, SoundRows(rows)
  PROVE  MapThenSumSet(LAMBDA r : r.share, rows) \in Nat
<1> DEFINE it == CHOOSE it : it = [s \in SUBSET rows |->
             IF s = {} THEN 0 ELSE (CHOOSE x \in s : TRUE).share + it[s \ {CHOOSE x \in s : TRUE}]]
           g == [r \in rows |-> r.share]
<1>1. MapThenSumSet(LAMBDA r : r.share, rows) = it[rows]
  BY DEF MapThenSumSet, MapThenFoldSet
<1>2. PICK a : IsTally(a, g, rows)
  BY TallyExists DEF SoundRows
<1>3. \A b : (b = [s \in SUBSET rows |->
                IF s = {} THEN 0 ELSE (CHOOSE x \in s : TRUE).share + b[s \ {CHOOSE x \in s : TRUE}]])
             <=> IsTally(b, g, rows)
  <2> TAKE b
  <2>1. ASSUME NEW s \in SUBSET rows
        PROVE  (IF s = {} THEN 0 ELSE (CHOOSE x \in s : TRUE).share + b[s \ {CHOOSE x \in s : TRUE}])
                 = Part(b, g, s)
    BY DEF Part
  <2> HIDE DEF g
  <2> QED
    BY <2>1 DEF IsTally
<1>4. IsTally(it, g, rows)
  BY <1>2, <1>3, ZenonT(30)
<1>5. \A r \in rows : g[r] \in Nat
  BY DEF SoundRows
<1> HIDE DEF it, g
<1>6. it[rows] = Sum(g, rows)
  BY <1>4, SumIs DEF SoundRows
<1> QED
  BY <1>1, <1>5, <1>6, SumStep DEF SoundRows

\* A document is fused once, under its uid, and its score is a number.
LEMMA FusedAreSound ==
  ASSUME NEW rows, SoundRows(rows)
  PROVE  /\ IsFiniteSet(Fused(rows))
         /\ {d.uid : d \in Fused(rows)} = {r.uid : r \in rows}
         /\ \A d \in Fused(rows) : {"uid", "why", "score"} \subseteq DOMAIN d /\ d.score \in Nat
         /\ \A d, e \in Fused(rows) : d.uid = e.uid => d = e
<1> DEFINE uids == {r.uid : r \in rows}
           Of(uid) == {r \in rows : r.uid = uid}
           Doc(uid) == [uid |-> uid, why |-> WhyOf({r.why : r \in Of(uid)}),
                        score |-> MapThenSumSet(LAMBDA r : r.share, Of(uid)),
                        claims |-> {r.claim : r \in Of(uid)}]
<1>1. Fused(rows) = {Doc(uid) : uid \in uids}
  BY DEF Fused
<1>2. \A uid \in uids : MapThenSumSet(LAMBDA r : r.share, Of(uid)) \in Nat
  <2> SUFFICES ASSUME NEW uid \in uids PROVE MapThenSumSet(LAMBDA r : r.share, Of(uid)) \in Nat
    OBVIOUS
  <2>1. SoundRows(Of(uid))
    BY FS_Subset DEF SoundRows
  <2> HIDE DEF Of
  <2> QED
    BY <2>1, ScoresAreSummed
<1>3. \A uid \in uids : /\ Doc(uid).uid = uid /\ Doc(uid).score \in Nat
                        /\ {"uid", "why", "score"} \subseteq DOMAIN Doc(uid)
  BY <1>2
<1>4. IsFiniteSet(uids)
  <2> DEFINE f == [r \in rows |-> r.uid]
  <2>1. f \in Surjection(rows, uids)
    BY DEF Surjection
  <2> HIDE DEF f, uids
  <2> QED
    BY <2>1, FS_Surjection DEF SoundRows
<1> HIDE DEF Doc
<1>5. IsFiniteSet({Doc(uid) : uid \in uids})
  <2> DEFINE f == [uid \in uids |-> Doc(uid)]
             T == {Doc(uid) : uid \in uids}
  <2>1. f \in Surjection(uids, T)
    BY DEF Surjection
  <2> HIDE DEF f, uids, T
  <2>2. IsFiniteSet(T)
    BY <1>4, <2>1, FS_Surjection
  <2> QED
    BY <2>2 DEF T
<1> QED
  BY <1>1, <1>3, <1>5

ReadableRow(row) ==
  /\ {"scope", "slug", "type", "tokens", "historical"} \subseteq DOMAIN row
  /\ row.type \in Int /\ row.tokens \in Nat /\ row.historical \in BOOLEAN

\* What the reads below ask of the tables: rows of the types of their columns, claims
\* of a document in a list, and one document of a scope and slug (unique in the schema).
Readable(index) ==
  /\ DOMAIN EmptyTables \subseteq DOMAIN index
  /\ DOMAIN index.rows = Uids /\ DOMAIN index.claims = Uids
  /\ \A uid \in Documents(index) : ReadableRow(index.rows[uid])
  /\ \A uid \in Uids : IsFiniteSet(DOMAIN index.claims[uid])
  /\ \A u, v \in Documents(index) :
       /\ index.rows[u].scope = index.rows[v].scope
       /\ index.rows[u].slug = index.rows[v].slug
       => u = v

LEMMA SharesAreNumbers ==
  ASSUME NEW rank \in Nat PROVE Share(rank) \in Nat
BY DEF Share

LEMMA FiniteImage ==
  ASSUME NEW S, IsFiniteSet(S), NEW h
  PROVE  IsFiniteSet({h[x] : x \in S})
<1> DEFINE T == {h[x] : x \in S}
           f == [x \in S |-> h[x]]
<1>1. f \in Surjection(S, T)
  BY DEF Surjection
<1> HIDE DEF f, T
<1>2. IsFiniteSet(T)
  BY <1>1, FS_Surjection
<1> QED
  BY <1>2 DEF T

LEMMA RankedAreSound ==
  ASSUME NEW rows, IsFiniteSet(rows), NEW why
  PROVE  /\ SoundRows(Ranked(rows, why))
         /\ {r.uid : r \in Ranked(rows, why)} = {r.uid : r \in rows}
<1> DEFINE Row(r) == [uid |-> r.uid, claim |-> r.claim, ord |-> r.ord, why |-> why,
                      share |-> Share(1 + Cardinality({s \in rows : s.score > r.score}))]
           h == [r \in rows |-> Row(r)]
<1>1. Ranked(rows, why) = {h[r] : r \in rows}
  BY DEF Ranked
<1>2. ASSUME NEW r \in rows
      PROVE  /\ h[r].uid = r.uid /\ {"uid", "share"} \subseteq DOMAIN h[r] /\ h[r].share \in Nat
  <2>1. Cardinality({s \in rows : s.score > r.score}) \in Nat
    BY FS_Subset, FS_CardinalityType
  <2>2. Share(1 + Cardinality({s \in rows : s.score > r.score})) \in Nat
    BY <2>1, SharesAreNumbers
  <2> QED
    BY <2>2
<1> HIDE DEF h
<1> QED
  BY <1>1, <1>2, FiniteImage DEF SoundRows

\* Something of every claim of some documents.
OfClaims(index, uids, h) == UNION {{h[uid][k] : k \in DOMAIN index.claims[uid]} : uid \in uids}

LEMMA ClaimsAreFinite ==
  ASSUME NEW index, Readable(index), NEW uids \in SUBSET Uids, NEW h
  PROVE  IsFiniteSet(OfClaims(index, uids, h))
<1> DEFINE one == [uid \in uids |-> {h[uid][k] : k \in DOMAIN index.claims[uid]}]
           all == {one[uid] : uid \in uids}
<1>1. IsFiniteSet(uids)
  BY UidsAreFinite, FS_Subset
<1>2. \A uid \in uids : IsFiniteSet(one[uid])
  BY FiniteImage DEF Readable
<1>3. OfClaims(index, uids, h) = UNION all
  BY DEF OfClaims
<1> HIDE DEF one
<1>4. IsFiniteSet(all)
  BY <1>1, FiniteImage
<1> QED
  BY <1>2, <1>3, <1>4, FS_UNION

\* The rows of the lexical arms are of documents that are searched, and every
\* document with a claim that matches has one.
LEMMA LexRowsAreSound ==
  ASSUME NEW index, Readable(index), NEW held, NEW query, NEW historical
  PROVE  LET rows == LexTrigramRows(index, held, query, historical)
             docs == InSearch(index, held, historical)
         IN /\ SoundRows(rows)
            /\ {r.uid : r \in rows} \subseteq docs
            /\ \A uid \in docs :
                 (\E k \in DOMAIN index.claims[uid] : Lexical(index.claims[uid][k].text, query) > 0)
                   => uid \in {r.uid : r \in rows}
<1> DEFINE docs == InSearch(index, held, historical)
           Line(uid, k) == [uid |-> uid, claim |-> index.claims[uid][k].text, ord |-> k,
                            score |-> Lexical(index.claims[uid][k].text, query)]
           Title(uid) == [uid |-> uid, claim |-> index.rows[uid].title, ord |-> 0,
                          score |-> Similar(index.rows[uid].title, query)]
           lex == UNION {{Line(uid, k) : k \in DOMAIN index.claims[uid]} : uid \in docs}
           trg == {Title(uid) : uid \in docs}
           found == {r \in lex : r.score > 0}
           named == {r \in trg : r.score > 25}
           line == [uid \in docs |-> [k \in DOMAIN index.claims[uid] |-> Line(uid, k)]]
           title == [uid \in docs |-> Title(uid)]
<1>1. docs \subseteq Uids /\ IsFiniteSet(docs)
  BY UidsAreFinite, FS_Subset DEF InSearch, Owned, Documents
<1>2. LexTrigramRows(index, held, query, historical)
        = Ranked(found, "lexical") \cup Ranked(named, "trigram")
  BY DEF LexTrigramRows
<1>3. /\ \A uid \in docs : \A k \in DOMAIN index.claims[uid] :
            /\ Line(uid, k).uid = uid
            /\ Line(uid, k).score = Lexical(index.claims[uid][k].text, query)
      /\ \A uid \in docs : Title(uid).uid = uid
  OBVIOUS
<1> HIDE DEF docs, Line, Title
<1>4. lex = OfClaims(index, docs, line)
  <2>1. \A uid \in docs : \A k \in DOMAIN index.claims[uid] : Line(uid, k) = line[uid][k]
    OBVIOUS
  <2> HIDE DEF line
  <2>2. ASSUME NEW r \in lex PROVE r \in OfClaims(index, docs, line)
    <3>1. PICK uid \in docs : r \in {Line(uid, k) : k \in DOMAIN index.claims[uid]}
      BY <2>2
    <3>2. r \in {line[uid][k] : k \in DOMAIN index.claims[uid]}
      BY <2>1, <3>1
    <3> QED
      BY <3>2 DEF OfClaims
  <2>3. ASSUME NEW r \in OfClaims(index, docs, line) PROVE r \in lex
    <3>1. PICK uid \in docs : r \in {line[uid][k] : k \in DOMAIN index.claims[uid]}
      BY <2>3 DEF OfClaims
    <3>2. r \in {Line(uid, k) : k \in DOMAIN index.claims[uid]}
      BY <2>1, <3>1
    <3> QED
      BY <3>2
  <2> QED
    BY <2>2, <2>3
<1>5. trg = {title[uid] : uid \in docs}
  OBVIOUS
<1> HIDE DEF line, title
<1>6. IsFiniteSet(lex) /\ IsFiniteSet(trg)
  <2>1. IsFiniteSet(OfClaims(index, docs, line))
    BY <1>1, ClaimsAreFinite
  <2>2. IsFiniteSet({title[uid] : uid \in docs})
    BY <1>1, FiniteImage
  <2> HIDE DEF lex, trg
  <2> QED
    BY <1>4, <1>5, <2>1, <2>2
<1>7. \A r \in lex : \E uid \in docs : \E k \in DOMAIN index.claims[uid] : r = Line(uid, k)
  OBVIOUS
<1>8. \A uid \in docs : \A k \in DOMAIN index.claims[uid] : Line(uid, k) \in lex
  OBVIOUS
<1>9. \A r \in trg : r.uid \in docs
  BY <1>3
<1> HIDE DEF lex, trg
<1>10. IsFiniteSet(found) /\ IsFiniteSet(named)
  BY <1>6, FS_Subset
<1>11. {r.uid : r \in found} \subseteq docs /\ {r.uid : r \in named} \subseteq docs
  BY <1>3, <1>7, <1>9
<1>12. ASSUME NEW uid \in docs, NEW k \in DOMAIN index.claims[uid],
             Lexical(index.claims[uid][k].text, query) > 0
       PROVE  uid \in {r.uid : r \in found}
  BY <1>3, <1>8, <1>12
<1> HIDE DEF found, named
<1>13. /\ SoundRows(Ranked(found, "lexical")) /\ SoundRows(Ranked(named, "trigram"))
       /\ {r.uid : r \in Ranked(found, "lexical")} = {r.uid : r \in found}
       /\ {r.uid : r \in Ranked(named, "trigram")} = {r.uid : r \in named}
  BY <1>10, RankedAreSound
<1> DEFINE all == Ranked(found, "lexical") \cup Ranked(named, "trigram")
<1>14. SoundRows(all)
  BY <1>13, FS_Union DEF SoundRows
<1>15. {r.uid : r \in all} = {r.uid : r \in found} \cup {r.uid : r \in named}
  BY <1>13
<1>16. all = LexTrigramRows(index, held, query, historical)
  BY <1>2
<1> HIDE DEF all
<1>17. {r.uid : r \in all} \subseteq docs
  BY <1>11, <1>15
<1>18. \A uid \in docs : (\E k \in DOMAIN index.claims[uid] :
                            Lexical(index.claims[uid][k].text, query) > 0)
                          => uid \in {r.uid : r \in all}
  BY <1>12, <1>15
<1> QED
  BY <1>14, <1>16, <1>17, <1>18 DEF docs

\* The rows of the semantic arm are of the documents of its candidates.
LEMMA SemanticRowsAreSound ==
  ASSUME NEW candidates, IsFiniteSet(candidates), NEW vectors, NEW query
  PROVE  LET rows == SemanticRows(candidates, vectors, query)
         IN /\ SoundRows(rows) /\ {r.uid : r \in rows} \subseteq {c.uid : c \in candidates}
<1> DEFINE near == {d \in candidates : d.claim \in vectors}
           Line(c) == [uid |-> c.uid, claim |-> c.claim, ord |-> c.ord,
                       score |-> Cosine(c.claim, query)]
           scored == {Line(c) : c \in near}
           results == SetToSortSeq(scored, LAMBDA r, s : r.score >= s.score)
           Ahead(r) == {k \in 1..Cardinality(scored) : \A j \in 1..k : results[j] # r}
           Row(r) == [uid |-> r.uid, claim |-> r.claim, ord |-> r.ord, why |-> "semantic",
                      share |-> Share(1 + Cardinality(Ahead(r)))]
           line == [c \in near |-> Line(c)]
           row == [r \in scored |-> Row(r)]
<1>1. SemanticRows(candidates, vectors, query)
        = IF StrongEnough(results) THEN {Row(r) : r \in scored} ELSE {}
  BY DEF SemanticRows
<1>2. \A c \in near : c \in candidates /\ Line(c).uid = c.uid
  OBVIOUS
<1> HIDE DEF Line
<1>3. scored = {line[c] : c \in near}
  OBVIOUS
<1> HIDE DEF line
<1>4. IsFiniteSet(near)
  BY FS_Subset
<1> HIDE DEF near
<1>5. IsFiniteSet({line[c] : c \in near})
  BY <1>4, FiniteImage
<1>6. \A r \in scored : \E c \in candidates : r.uid = c.uid
  BY <1>2
<1>7. IsFiniteSet(scored) /\ Cardinality(scored) \in Nat
  <2> HIDE DEF scored
  <2> QED
    BY <1>3, <1>5, FS_CardinalityType
<1> HIDE DEF scored, results
<1>8. ASSUME NEW r \in scored
      PROVE  Row(r).uid = r.uid /\ {"uid", "share"} \subseteq DOMAIN Row(r) /\ Row(r).share \in Nat
  <2>1. IsFiniteSet(1..Cardinality(scored))
    BY <1>7, FS_Interval
  <2>2. Cardinality(Ahead(r)) \in Nat
    <3>1. Ahead(r) \subseteq 1..Cardinality(scored)
      OBVIOUS
    <3> HIDE DEF Ahead
    <3> QED
      BY <2>1, <3>1, FS_Subset, FS_CardinalityType
  <2> HIDE DEF Ahead
  <2>3. Share(1 + Cardinality(Ahead(r))) \in Nat
    BY <2>2, SharesAreNumbers
  <2> QED
    BY <2>3
<1> HIDE DEF Row
<1>9. {Row(r) : r \in scored} = {row[r] : r \in scored}
  OBVIOUS
<1> DEFINE rows == {Row(r) : r \in scored}
<1>10. IsFiniteSet(rows)
  <2> HIDE DEF row
  <2>1. IsFiniteSet({row[r] : r \in scored})
    BY <1>7, FiniteImage
  <2> QED
    BY <1>9, <2>1
<1>11. SoundRows(rows) /\ SoundRows({})
  BY <1>8, <1>10, FS_EmptySet DEF SoundRows
<1>12. {q.uid : q \in rows} \subseteq {c.uid : c \in candidates}
  BY <1>6, <1>8
<1>13. \/ SemanticRows(candidates, vectors, query) = rows
       \/ SemanticRows(candidates, vectors, query) = {}
  BY <1>1
<1> HIDE DEF rows
<1> QED
  BY <1>11, <1>12, <1>13

\* The texts of the semantic arm are of documents that are searched.
LEMMA CandidatesAreSound ==
  ASSUME NEW index, Readable(index), NEW held, NEW historical
  PROVE  LET texts == CandidateClaims(index, held, historical)
         IN IsFiniteSet(texts) /\ {c.uid : c \in texts} \subseteq InSearch(index, held, historical)
<1> DEFINE docs == InSearch(index, held, historical)
           Line(uid, k) == [uid |-> uid, claim |-> index.claims[uid][k].text, ord |-> k]
           texts == UNION {{Line(uid, k) : k \in DOMAIN index.claims[uid]} : uid \in docs}
           line == [uid \in docs |-> [k \in DOMAIN index.claims[uid] |-> Line(uid, k)]]
<1>1. CandidateClaims(index, held, historical) = texts
  BY DEF CandidateClaims
<1>2. docs \subseteq Uids
  BY DEF InSearch, Owned, Documents
<1>3. \A uid \in docs : \A k \in DOMAIN index.claims[uid] : Line(uid, k).uid = uid
  OBVIOUS
<1> HIDE DEF docs, Line
<1>4. \A uid \in docs : \A k \in DOMAIN index.claims[uid] : Line(uid, k) = line[uid][k]
  OBVIOUS
<1> HIDE DEF line
<1>5. ASSUME NEW r \in texts PROVE r \in OfClaims(index, docs, line) /\ r.uid \in docs
  <2>1. PICK uid \in docs : r \in {Line(uid, k) : k \in DOMAIN index.claims[uid]}
    BY <1>5
  <2>2. r \in {line[uid][k] : k \in DOMAIN index.claims[uid]}
    BY <1>4, <2>1
  <2>3. r.uid = uid
    BY <1>3, <2>1
  <2> QED
    BY <2>2, <2>3 DEF OfClaims
<1>6. IsFiniteSet(OfClaims(index, docs, line))
  BY <1>2, ClaimsAreFinite
<1> HIDE DEF texts
<1>7. IsFiniteSet(texts) /\ {c.uid : c \in texts} \subseteq docs
  <2>1. texts \subseteq OfClaims(index, docs, line)
    BY <1>5
  <2> QED
    BY <1>5, <1>6, <2>1, FS_Subset
<1> QED
  BY <1>1, <1>7 DEF docs

-------------------------------------------------------------------------------
(* What is within reach. *)

Out(index, held, from) == {e.to : e \in OutboundNeighbors(index, held, from, {})}

LEMMA OutIsByPage ==
  ASSUME NEW index, NEW held, NEW from
  PROVE  /\ Out(index, held, from) \subseteq Uids
         /\ \A to : to \in Out(index, held, from)
              <=> \E uid \in from : \E e \in OutboundNeighbors(index, held, {uid}, {}) : e.to = to
BY DEF Out, OutboundNeighbors, Owned, Documents

LEMMA ReachStarts ==
  ASSUME NEW index, NEW held, NEW from \in Uids
  PROVE  Reach(index, held, from, 0) = {from}
<1>1. from \in Reach(index, held, from, 0)
  <2> DEFINE path == [k \in 0..0 |-> from]
  <2>1. path \in [0..0 -> Uids] /\ path[0] = from
    OBVIOUS
  <2> HIDE DEF path
  <2> QED
    BY <2>1 DEF Reach
<1>2. ASSUME NEW uid \in Reach(index, held, from, 0) PROVE uid = from
  BY DEF Reach
<1> QED
  BY <1>1, <1>2

LEMMA ReachGrows ==
  ASSUME NEW index, NEW held, NEW from, NEW n \in Nat, NEW m \in Nat, m <= n
  PROVE  Reach(index, held, from, m) \subseteq Reach(index, held, from, n)
<1>1. 0..m \subseteq 0..n
  OBVIOUS
<1> QED
  BY <1>1 DEF Reach

\* One hop more is the pages linked from those within reach.
LEMMA ReachHops ==
  ASSUME NEW index, NEW held, NEW from \in Uids, NEW n \in Nat
  PROVE  Reach(index, held, from, n + 1)
           = Reach(index, held, from, n) \cup Out(index, held, Reach(index, held, from, n))
<1> DEFINE Linked(a, b) == \E e \in OutboundNeighbors(index, held, {a}, {}) : e.to = b
<1>1. ASSUME NEW uid \in Out(index, held, Reach(index, held, from, n))
      PROVE  uid \in Reach(index, held, from, n + 1)
  <2>1. PICK last \in Reach(index, held, from, n) : Linked(last, uid)
    BY <1>1, OutIsByPage, SMTT(30)
  <2>2. uid \in Uids
    BY <1>1, OutIsByPage
  <2> HIDE DEF Linked
  <2>3. PICK m \in 0..n : \E path \in [0..m -> Uids] :
          path[0] = from /\ path[m] = last /\ \A k \in 1..m : Linked(path[k - 1], path[k])
    BY <2>1 DEF Reach, Linked
  <2>4. PICK path \in [0..m -> Uids] :
          path[0] = from /\ path[m] = last /\ \A k \in 1..m : Linked(path[k - 1], path[k])
    BY <2>3
  <2> DEFINE more == [k \in 0..(m + 1) |-> IF k = m + 1 THEN uid ELSE path[k]]
  <2>5. more \in [0..(m + 1) -> Uids] /\ more[0] = from /\ more[m + 1] = uid
    BY <2>2, <2>4
  <2>6. ASSUME NEW k \in 1..(m + 1) PROVE Linked(more[k - 1], more[k])
    <3>1. CASE k = m + 1
      BY <2>1, <2>4, <3>1
    <3>2. CASE k # m + 1
      <4>1. k \in 1..m /\ k - 1 \in 0..m /\ k - 1 # m + 1
        BY <3>2
      <4> QED
        BY <2>4, <4>1
    <3> QED
      BY <3>1, <3>2
  <2> HIDE DEF more
  <2>7. m + 1 \in 0..(n + 1)
    OBVIOUS
  <2> QED
    BY <2>2, <2>5, <2>6, <2>7 DEF Reach, Linked
<1>2. ASSUME NEW uid \in Reach(index, held, from, n + 1)
      PROVE  uid \in Reach(index, held, from, n) \cup Out(index, held, Reach(index, held, from, n))
  <2> HIDE DEF Linked
  <2>1. PICK m \in 0..(n + 1) : \E path \in [0..m -> Uids] :
          path[0] = from /\ path[m] = uid /\ \A k \in 1..m : Linked(path[k - 1], path[k])
    BY <1>2 DEF Reach, Linked
  <2>2. PICK path \in [0..m -> Uids] :
          path[0] = from /\ path[m] = uid /\ \A k \in 1..m : Linked(path[k - 1], path[k])
    BY <2>1
  <2>3. uid \in Uids
    BY <1>2 DEF Reach
  <2>4. CASE m \in 0..n
    BY <2>2, <2>3, <2>4 DEF Reach, Linked
  <2>5. CASE m = n + 1
    <3> DEFINE less == [k \in 0..n |-> path[k]]
    <3>1. less \in [0..n -> Uids] /\ less[0] = from /\ less[n] = path[n]
      BY <2>2, <2>5
    <3>2. \A k \in 1..n : Linked(less[k - 1], less[k])
      <4> TAKE k \in 1..n
      <4>1. less[k - 1] = path[k - 1] /\ less[k] = path[k] /\ k \in 1..m
        BY <2>5
      <4> QED
        BY <2>2, <4>1
    <3>3. path[n] \in Uids /\ Linked(path[n], uid)
      BY <2>2, <2>5
    <3> HIDE DEF less
    <3>4. path[n] \in Reach(index, held, from, n)
      <4>1. n \in 0..n
        OBVIOUS
      <4>2. \E q \in [0..n -> Uids] :
               q[0] = from /\ q[n] = path[n] /\ \A k \in 1..n : Linked(q[k - 1], q[k])
        BY <3>1, <3>2
      <4> QED
        BY <3>3, <4>1, <4>2 DEF Reach, Linked
    <3> QED
      BY <3>3, <3>4, OutIsByPage DEF Linked
  <2> QED
    BY <2>4, <2>5
<1>3. Reach(index, held, from, n) \subseteq Reach(index, held, from, n + 1)
  BY ReachGrows
<1> QED
  BY <1>1, <1>2, <1>3

\* Pages that link only among themselves are all that is within reach of one of them.
LEMMA ReachStays ==
  ASSUME NEW index, NEW held, NEW from \in Uids,
         NEW pages, from \in pages, Out(index, held, pages) \subseteq pages,
         NEW n \in Nat
  PROVE  Reach(index, held, from, n) \subseteq pages
<1> DEFINE Inside(k) == Reach(index, held, from, k) \subseteq pages
           Bad == {k \in Nat : ~Inside(k)}
<1>1. 0 \notin Bad
  BY ReachStarts
<1>2. ASSUME NEW k \in Nat, k \notin Bad PROVE k + 1 \notin Bad
  <2>1. Reach(index, held, from, k) \subseteq pages
    BY <1>2
  <2>2. Out(index, held, Reach(index, held, from, k)) \subseteq Out(index, held, pages)
    <3> DEFINE near == Reach(index, held, from, k)
    <3> HIDE DEF near
    <3>1. near \subseteq pages
      BY <2>1 DEF near
    <3>2. Out(index, held, near) \subseteq Out(index, held, pages)
      BY <3>1 DEF Out, OutboundNeighbors
    <3> QED
      BY <3>2 DEF near
  <2> QED
    BY <2>1, <2>2, ReachHops
<1> HIDE DEF Inside
<1>3. ASSUME NEW m \in Bad, \A k \in Bad : m <= k PROVE FALSE
  <2>1. m - 1 \in Nat /\ m - 1 \notin Bad
    BY <1>1, <1>3
  <2> QED
    BY <1>2, <1>3, <2>1
<1>4. Bad \in SUBSET Nat
  OBVIOUS
<1> HIDE DEF Bad
<1>5. Bad = {}
  BY <1>3, <1>4, Least
<1> QED
  BY <1>5 DEF Bad, Inside

-------------------------------------------------------------------------------
(* What a pack weighs. *)

LEMMA WeightIsSummed ==
  ASSUME NEW index, NEW uids, IsFiniteSet(uids),
         NEW f, \A uid \in uids : f[uid] = index.rows[uid].tokens
  PROVE  Weight(index, uids) = Sum(f, uids)
<1> DEFINE it == CHOOSE it : it = [s \in SUBSET uids |->
             IF s = {} THEN 0
             ELSE index.rows[CHOOSE x \in s : TRUE].tokens + it[s \ {CHOOSE x \in s : TRUE}]]
           g == [uid \in uids |-> index.rows[uid].tokens]
<1>1. Weight(index, uids) = it[uids]
  BY DEF Weight, MapThenSumSet, MapThenFoldSet
<1>2. PICK a : IsTally(a, g, uids)
  BY TallyExists
<1>3. \A b : (b = [s \in SUBSET uids |->
                IF s = {} THEN 0
                ELSE index.rows[CHOOSE x \in s : TRUE].tokens + b[s \ {CHOOSE x \in s : TRUE}]])
             <=> IsTally(b, g, uids)
  <2> TAKE b
  <2>1. ASSUME NEW s \in SUBSET uids
        PROVE  (IF s = {} THEN 0
                ELSE index.rows[CHOOSE x \in s : TRUE].tokens + b[s \ {CHOOSE x \in s : TRUE}])
                 = Part(b, g, s)
    BY DEF Part
  <2> HIDE DEF g
  <2> QED
    BY <2>1 DEF IsTally
<1>4. IsTally(it, g, uids)
  BY <1>2, <1>3, ZenonT(30)
<1> HIDE DEF it
<1> QED
  BY <1>1, <1>4, SumIs

\* Candidates weigh what their pages do.
LEMMA WeightOfNamed ==
  ASSUME NEW index, NEW P, SoundCandidates(P), \A c \in P : c.tokens = index.rows[c.uid].tokens
  PROVE  Weight(index, Named(P)) = TokensOf(P)
<1> DEFINE f == [c \in P |-> c.tokens]
           h == [c \in P |-> c.uid]
           g == [uid \in {h[c] : c \in P} |-> index.rows[uid].tokens]
           names == {h[c] : c \in P}
<1>1. /\ IsFiniteSet(P) /\ \A c \in P : f[c] = c.tokens /\ f[c] \in Nat /\ g[h[c]] = f[c]
      /\ \A c, d \in P : h[c] = h[d] => c = d
      /\ \A uid \in names : g[uid] = index.rows[uid].tokens
  BY DEF SoundCandidates
<1>2. Named(P) = names
  BY DEF Named
<1> HIDE DEF f, g, h
<1>3. Sum(g, {h[c] : c \in P}) = Sum(f, P)
  BY <1>1, SumOfNames
<1>4. IsFiniteSet(names)
  BY <1>1, FiniteImage
<1> HIDE DEF names
<1>5. Weight(index, names) = Sum(g, names)
  BY <1>1, <1>4, WeightIsSummed
<1>6. TokensOf(P) = Sum(f, P)
  BY <1>1, TokensAreSummed
<1> QED
  BY <1>2, <1>3, <1>5, <1>6 DEF names

-------------------------------------------------------------------------------
(* What a context loads. *)

\* The candidates a context has loaded, as many as they have places.
SoundFound(index, call) ==
  /\ IsFiniteSet(call.found)
  /\ \A d \in call.found : /\ d = Candidate(index, d.uid, d.score, d.at)
                           /\ d.uid \in InSearch(index, call.held, call.req.historical)
                           /\ d.score \in Nat /\ d.at \in 1..Cardinality(call.found)
  /\ \A d, e \in call.found : d.at = e.at \/ d.uid = e.uid => d = e

IsCandidate(index, d, uid, score, at) ==
  /\ {"uid", "type", "tokens", "historical", "score", "at"} \subseteq DOMAIN d
  /\ d.uid = uid /\ d.score = score /\ d.at = at
  /\ d.tokens = index.rows[uid].tokens /\ d.historical = index.rows[uid].historical
  /\ d.type \in Int /\ d.tokens \in Nat /\ d.historical \in BOOLEAN

LEMMA CandidatesAreTyped ==
  ASSUME NEW index, Readable(index), NEW uid \in Documents(index), NEW score, NEW at
  PROVE  IsCandidate(index, Candidate(index, uid, score, at), uid, score, at)
BY DEF Readable, ReadableRow, Candidate, IsCandidate

\* One that is loaded has the next place.
LEMMA FoundGrows ==
  ASSUME NEW index, Readable(index), NEW call, SoundFound(index, call), NEW score \in Nat,
         NEW uid \in InSearch(index, call.held, call.req.historical), uid \notin Named(call.found),
         NEW new, new.held = call.held, new.req = call.req,
         new.found = call.found \cup {Candidate(index, uid, score, Cardinality(call.found) + 1)}
  PROVE  SoundFound(index, new) /\ Named(new.found) = Named(call.found) \cup {uid}
<1> DEFINE count == Cardinality(call.found)
           d == Candidate(index, uid, score, count + 1)
<1>1. count \in Nat
  BY FS_CardinalityType DEF SoundFound
<1>2. uid \in Documents(index)
  BY DEF InSearch, Owned
<1>3. d.uid = uid /\ d.score = score /\ d.at = count + 1
  BY <1>2, CandidatesAreTyped DEF IsCandidate
<1>4. new.found = call.found \cup {d}
  OBVIOUS
<1>5. d \notin call.found
  BY <1>3 DEF Named
<1>6. d = Candidate(index, d.uid, d.score, d.at)
  BY <1>3
<1> HIDE DEF d
<1>7. IsFiniteSet(new.found) /\ Cardinality(new.found) = count + 1
  <2>1. IsFiniteSet(call.found)
    BY DEF SoundFound
  <2>2. IsFiniteSet(call.found \cup {d}) /\ Cardinality(call.found \cup {d}) = count + 1
    BY <1>5, <2>1, FS_AddElement
  <2> QED
    BY <1>4, <2>2
<1>8. \A e \in call.found : e.at \in 1..count /\ e.uid # uid /\ e.score \in Nat
                           /\ e = Candidate(index, e.uid, e.score, e.at)
                           /\ e.uid \in InSearch(index, call.held, call.req.historical)
  BY DEF SoundFound, Named
<1> HIDE DEF count
<1>9. \A e \in new.found : /\ e = Candidate(index, e.uid, e.score, e.at)
                          /\ e.uid \in InSearch(index, new.held, new.req.historical)
                          /\ e.score \in Nat /\ e.at \in 1..(count + 1)
  BY <1>1, <1>3, <1>4, <1>6, <1>8
<1>10. \A e, f \in new.found : e.at = f.at \/ e.uid = f.uid => e = f
  <2>1. \A e \in call.found : e.at # d.at /\ e.uid # d.uid
    BY <1>1, <1>3, <1>8
  <2>2. \A e, f \in call.found : e.at = f.at \/ e.uid = f.uid => e = f
    BY DEF SoundFound
  <2> QED
    BY <1>4, <2>1, <2>2
<1>11. Named(new.found) = Named(call.found) \cup {uid}
  BY <1>3, <1>4 DEF Named
<1> QED
  BY <1>7, <1>9, <1>10, <1>11 DEF SoundFound

\* Candidates as their pages are now.
Fits(index, d, held) ==
  /\ d.uid \in Owned(index, held)
  /\ d.tokens = index.rows[d.uid].tokens /\ d.historical = index.rows[d.uid].historical

Placed(index, uids, at) == {Candidate(index, uid, 0, at[uid]) : uid \in uids}

Placing(index, call, expanded, all) ==
  /\ expanded \subseteq Owned(index, call.held) /\ expanded \cap Named(call.found) = {}
  /\ LET first == Cardinality(call.found) + 1
     IN \E at \in Bijection(expanded, first..(first + Cardinality(expanded) - 1)) :
          all = call.found \cup Placed(index, expanded, at)

\* What was loaded and the pages it specializes are candidates, each with a place.
LEMMA CandidatesAreAll ==
  ASSUME NEW index, Readable(index), NEW call, SoundFound(index, call),
         NEW expanded, NEW all, Placing(index, call, expanded, all)
  PROVE  /\ SoundCandidates(all) /\ \A d \in all : Fits(index, d, call.held)
         /\ Named(all) = Named(call.found) \cup expanded
<1> DEFINE first == Cardinality(call.found) + 1
<1>1. PICK at \in Bijection(expanded, first..(first + Cardinality(expanded) - 1)) :
         all = call.found \cup Placed(index, expanded, at)
  BY DEF Placing
<1>2. expanded \subseteq Owned(index, call.held) /\ expanded \cap Named(call.found) = {}
  BY DEF Placing
<1> DEFINE One(uid) == Candidate(index, uid, 0, at[uid])
           one == [uid \in expanded |-> One(uid)]
           more == {One(uid) : uid \in expanded}
           count == Cardinality(call.found)
           m == Cardinality(expanded)
<1>3. IsFiniteSet(call.found) /\ IsFiniteSet(expanded)
  BY <1>2, UidsAreFinite, FS_Subset DEF SoundFound, Owned, Documents
<1>4. count \in Nat /\ m \in Nat
  BY <1>3, FS_CardinalityType
<1>5. /\ \A uid \in expanded : at[uid] \in (count + 1)..(count + m)
      /\ \A u, v \in expanded : at[u] = at[v] => u = v
  <2>1. first + m - 1 = count + m /\ first = count + 1
    BY <1>4
  <2>2. at \in Bijection(expanded, (count + 1)..(count + m))
    BY <2>1
  <2> QED
    BY <2>2 DEF Bijection, Injection, IsInjective
<1>6. ASSUME NEW uid \in expanded
      PROVE  /\ {"uid", "type", "tokens", "historical", "score", "at"} \subseteq DOMAIN One(uid)
             /\ One(uid).type \in Int /\ One(uid).tokens \in Nat /\ One(uid).historical \in BOOLEAN
             /\ One(uid).score \in Int /\ One(uid).at \in Int
             /\ One(uid).uid = uid /\ One(uid).at = at[uid] /\ One(uid).at > count
             /\ Fits(index, One(uid), call.held)
  <2>1. /\ uid \in Documents(index) /\ uid \in Owned(index, call.held)
        /\ at[uid] \in Nat /\ at[uid] > count
    BY <1>4, <1>5, <1>2 DEF Owned
  <2>2. IsCandidate(index, One(uid), uid, 0, at[uid])
    BY <2>1, CandidatesAreTyped
  <2> HIDE DEF One
  <2> QED
    BY <2>1, <2>2 DEF Fits, IsCandidate
<1>7. ASSUME NEW d \in call.found
      PROVE  /\ {"uid", "type", "tokens", "historical", "score", "at"} \subseteq DOMAIN d
             /\ d.type \in Int /\ d.tokens \in Nat /\ d.historical \in BOOLEAN
             /\ d.score \in Int /\ d.at \in Int /\ d.at <= count /\ d.uid \in Named(call.found)
             /\ Fits(index, d, call.held)
  <2>1. /\ d = Candidate(index, d.uid, d.score, d.at) /\ d.uid \in Owned(index, call.held)
        /\ d.score \in Nat /\ d.at \in 1..count
    BY DEF SoundFound, InSearch
  <2>2. d.uid \in Documents(index) /\ d.at \in Nat /\ d.at <= count
    BY <1>4, <2>1 DEF Owned
  <2>3. IsCandidate(index, Candidate(index, d.uid, d.score, d.at), d.uid, d.score, d.at)
    BY <2>2, CandidatesAreTyped
  <2>4. IsCandidate(index, d, d.uid, d.score, d.at)
    BY <2>1, <2>3
  <2> QED
    BY <2>1, <2>2, <2>4 DEF Fits, Named, IsCandidate
<1>8. all = call.found \cup more
  BY <1>1 DEF Placed
<1> HIDE DEF One
<1>9. IsFiniteSet(all)
  <2>1. more = {one[uid] : uid \in expanded}
    OBVIOUS
  <2> HIDE DEF one, more
  <2>2. IsFiniteSet(more)
    BY <1>3, <2>1, FiniteImage
  <2> QED
    <3>1. IsFiniteSet(call.found \cup more)
      BY <1>3, <2>2, FS_Union
    <3> QED
      BY <1>8, <3>1
<1>10. \A d \in more : \E uid \in expanded : d = One(uid)
  OBVIOUS
<1>11. \A d \in more : d.at > count /\ d.at \in Int /\ d.uid \in expanded
  BY <1>6, <1>10
<1>12. \A d, e \in more : d.at = e.at \/ d.uid = e.uid => d = e
  BY <1>5, <1>6, <1>10
<1>13. \A d, e \in call.found : d.at = e.at \/ d.uid = e.uid => d = e
  BY DEF SoundFound
<1>14. \A d \in call.found, e \in more : d.at # e.at /\ d.uid # e.uid
  BY <1>4, <1>7, <1>11, <1>2
<1>15. \A d \in all : /\ {"uid", "type", "tokens", "historical", "score", "at"} \subseteq DOMAIN d
                     /\ d.type \in Int /\ d.tokens \in Nat /\ d.historical \in BOOLEAN
                     /\ d.score \in Int /\ d.at \in Int /\ Fits(index, d, call.held)
  BY <1>8, <1>6, <1>7, <1>10
<1>16. Named(all) = Named(call.found) \cup expanded
  <2>1. {d.uid : d \in more} = expanded
    BY <1>6
  <2> HIDE DEF more
  <2> QED
    BY <1>8, <2>1 DEF Named
<1> HIDE DEF more
<1>17. \A d, e \in all : d.at = e.at \/ d.uid = e.uid => d = e
  BY <1>8, <1>12, <1>13, <1>14
<1>18. SoundCandidates(all)
  BY <1>9, <1>15, <1>17 DEF SoundCandidates
<1> QED
  BY <1>15, <1>16, <1>18

\* The search had no room for more than it found, or found every match.
FoundAll(index, call, uids) ==
  \/ Matching(index, call) \subseteq uids
  \/ /\ Cardinality(InSearch(index, call.held, call.req.historical)) > SearchTopK
     /\ Cardinality(uids) >= SearchTopK

SpecializedBy(index, call, uids) ==
  {e.to : e \in OutboundNeighbors(index, call.held, uids,
                   {"specializes"} \cup (IF call.req.historical THEN {"supersedes"} ELSE {}))}

LEMMA PackIsExact ==
  ASSUME NEW index, Readable(index), NEW call, SoundFound(index, call),
         call.req.budget \in Int, call.req.budget >= -1,
         FoundAll(index, call, Named(call.found)),
         NEW all, SoundCandidates(all), \A d \in all : Fits(index, d, call.held),
         Named(call.found) \cup SpecializedBy(index, call, Named(call.found)) \subseteq Named(all),
         NEW kept, kept = {d \in all : call.req.historical \/ ~d.historical},
         NEW pages \in Packs(kept, Budget(call.req.budget)),
         NEW new, new.held = call.held, new.req = call.req,
         new.pages = Named(pages), new.aside = Named(kept \ pages)
  PROVE  ContextIsExact(index, new)
<1> DEFINE budget == Budget(call.req.budget)
           docs   == InSearch(index, call.held, call.req.historical)
           match  == Matching(index, call)
           close  == {e.to : e \in OutboundNeighbors(index, call.held, match, {"specializes"})}
           wanted == {uid \in match \cup close : call.req.historical \/ ~index.rows[uid].historical}
<1>1. budget \in Nat
  BY LimitsAreSound DEF Budget
<1>2. SoundCandidates(kept) /\ \A d \in kept : Fits(index, d, call.held)
  BY FS_Subset DEF SoundCandidates
<1>3. /\ pages \subseteq kept /\ TokensOf(pages) <= budget
      /\ \A d \in kept \ pages : TokensOf(pages) + d.tokens > budget
  BY <1>1, <1>2, PackIsTight
<1>4. SoundCandidates(pages)
  BY <1>2, <1>3, FS_Subset DEF SoundCandidates
<1>5. Weight(index, Named(pages)) = TokensOf(pages)
  BY <1>2, <1>3, <1>4, WeightOfNamed DEF Fits
<1>6. Named(pages) \cap Named(kept \ pages) = {}
  BY <1>2, <1>3 DEF SoundCandidates, Named
<1>7. Named(pages) \cup Named(kept \ pages) = Named(kept)
  BY <1>3 DEF Named
<1>8. ASSUME NEW uid \in Named(kept \ pages)
      PROVE  Weight(index, Named(pages)) + index.rows[uid].tokens > budget
  <2>1. PICK d \in kept \ pages : uid = d.uid
    BY DEF Named
  <2>2. d.tokens = index.rows[uid].tokens
    BY <1>2, <2>1 DEF Fits
  <2> QED
    BY <1>3, <1>5, <2>1, <2>2
<1>9. ASSUME NEW uid \in Named(kept) PROVE call.req.historical \/ ~index.rows[uid].historical
  BY <1>2, <1>9 DEF Named, Fits
<1>10. ASSUME NEW uid \in Named(all), call.req.historical \/ ~index.rows[uid].historical
       PROVE  uid \in Named(kept)
  BY <1>10 DEF Named, Fits
<1>11. ASSUME match \subseteq Named(call.found) PROVE wanted \subseteq Named(kept)
  <2>1. close \subseteq SpecializedBy(index, call, Named(call.found))
    BY <1>11 DEF SpecializedBy, OutboundNeighbors
  <2> HIDE DEF close, match
  <2> QED
    BY <1>10, <1>11, <2>1
<1>12. ASSUME Cardinality(docs) > SearchTopK, Cardinality(Named(call.found)) >= SearchTopK
       PROVE  Cardinality(docs) > SearchTopK /\ Cardinality(Named(kept)) >= SearchTopK
  <2>1. \A uid \in Named(call.found) : call.req.historical \/ ~index.rows[uid].historical
    BY DEF Named, SoundFound, InSearch
  <2>2. Named(call.found) \subseteq Named(kept)
    BY <1>10, <2>1
  <2>3. Named(kept) \subseteq Uids
    BY <1>2 DEF Named, Fits, Owned, Documents
  <2>4. IsFiniteSet(Named(kept))
    BY <2>3, UidsAreFinite, FS_Subset
  <2>5. /\ Cardinality(Named(call.found)) <= Cardinality(Named(kept))
        /\ Cardinality(Named(call.found)) \in Nat /\ Cardinality(Named(kept)) \in Nat
    BY <2>2, <2>4, FS_Subset, FS_CardinalityType
  <2>6. SearchTopK \in Nat
    BY LimitsAreSound
  <2> QED
    BY <1>12, <2>5, <2>6
<1>13. Matching(index, new) = match
  BY DEF Matching
<1> HIDE DEF budget, match, docs
<1>14. \/ wanted \subseteq Named(kept)
       \/ Cardinality(docs) > SearchTopK /\ Cardinality(Named(kept)) >= SearchTopK
  BY <1>11, <1>12 DEF FoundAll, match, docs
<1>15. Budget(new.req.budget) = budget /\ InSearch(index, new.held, new.req.historical) = docs
  BY DEF budget, docs
<1>16. new.pages \cap new.aside = {} /\ new.pages \cup new.aside = Named(kept)
  BY <1>6, <1>7
<1>17. Weight(index, new.pages) <= budget
  BY <1>3, <1>5
<1>18. \A uid \in new.aside : Weight(index, new.pages) + index.rows[uid].tokens > budget
  BY <1>8
<1>19. \A uid \in new.pages \cup new.aside : new.req.historical \/ ~index.rows[uid].historical
  BY <1>9, <1>16
<1>20. wanted = {uid \in match \cup {e.to : e \in OutboundNeighbors(index, new.held, match,
                                                        {"specializes"})} :
                  new.req.historical \/ ~index.rows[uid].historical}
  OBVIOUS
<1> HIDE DEF wanted
<1> QED
  BY <1>13, <1>14, <1>15, <1>16, <1>17, <1>18, <1>19, <1>20 DEF ContextIsExact

-------------------------------------------------------------------------------
(* The steps of a call that finds the index as it was. *)

LEMMA LimitsAreNumbers ==
  ASSUME NEW n \in Int
  PROVE  /\ PagesLimit(n) \in Nat \ {0} /\ TopK(n) \in Nat /\ Depth(n) \in Nat
         /\ SearchTopK \in Nat /\ MaxNodes \in Nat \ {0}
BY LimitsAreSound DEF PagesLimit, TopK, Depth, Clamp

\* pages has all of its list, or as many as it may.
LEMMA ListsAreExact ==
  ASSUME NEW index, NEW held, NEW req, req.limit \in Int,
         NEW pages \in ListPages(index, held,
           [types |-> req.types, tags |-> {}, status |-> {}, historical |-> FALSE,
            limit |-> PagesLimit(req.limit)]),
         NEW new, new.held = held, new.req = req, new.pages = pages
  PROVE  ListIsExact(index, new)
<1> DEFINE asked == [types |-> req.types, tags |-> {}, status |-> {}, historical |-> FALSE,
                     limit |-> PagesLimit(req.limit)]
           filter == [types |-> req.types, tags |-> {}, status |-> {}, historical |-> FALSE]
           all == Listed(index, held, asked)
           most == PagesLimit(req.limit)
<1>1. Listed(index, held, filter) = all
  BY DEF Listed
<1>2. most \in Nat \ {0} /\ asked.limit = most
  BY LimitsAreNumbers
<1>3. IsFiniteSet(all)
  <2>1. all \subseteq Uids
    BY DEF Listed, Owned, Documents
  <2> QED
    BY <2>1, UidsAreFinite, FS_Subset
<1>4. pages \in kSubset(Min({IF asked.limit > 0 THEN asked.limit ELSE Cardinality(all),
                              Cardinality(all)}), all)
  BY DEF ListPages, Firsts
<1> HIDE DEF asked, most, all
<1>5. pages \in kSubset(Min({most, Cardinality(all)}), all)
  BY <1>2, <1>4
<1>6. pages \subseteq all /\ (pages = all \/ Cardinality(pages) = most)
  BY <1>2, <1>3, <1>5, FirstsAreEnough
<1> QED
  BY <1>1, <1>6 DEF ListIsExact, most

\* related has come so many hops, and has seen all there is up to there or as many
\* pages as it may.
Hopped(index, call) ==
  LET uid  == GetPage(index, call.held, call.req.scope, call.req.slug)
      near == Reach(index, call.held, uid, call.hops)
  IN /\ uid \in Uids /\ uid \in call.visited /\ call.next \subseteq call.visited
     /\ call.hops \in 0..Depth(call.req.depth)
     /\ call.visited \subseteq near /\ Cardinality(call.visited) <= MaxNodes
     /\ \/ /\ call.visited = near
           /\ Out(index, call.held, call.visited \ call.next) \subseteq call.visited
        \/ Cardinality(call.visited) = MaxNodes

LEMMA ReachIsFinite ==
  ASSUME NEW index, NEW held, NEW from, NEW n
  PROVE  Reach(index, held, from, n) \subseteq Uids /\ IsFiniteSet(Reach(index, held, from, n))
<1>1. Reach(index, held, from, n) \subseteq Uids
  BY DEF Reach
<1> QED
  BY <1>1, UidsAreFinite, FS_Subset

LEMMA HopGoesOn ==
  ASSUME NEW index, NEW call, call.req.depth \in Int, Hopped(index, call),
         call.hops < Depth(call.req.depth), Cardinality(call.visited) < MaxNodes,
         NEW seen \in Hops(index, call.visited, OutboundNeighbors(index, call.held, call.next, {})),
         NEW new, new.held = call.held, new.req = call.req, new.hops = call.hops + 1,
         new.visited = call.visited \cup seen, new.next = seen
  PROVE  Hopped(index, new)
<1> DEFINE uid   == GetPage(index, call.held, call.req.scope, call.req.slug)
           hop   == call.hops
           held  == call.held
           near  == Reach(index, held, uid, hop)
           far   == Reach(index, held, uid, hop + 1)
           fresh == Out(index, held, call.next) \ call.visited
           room  == MaxNodes - Cardinality(call.visited)
<1>1. Depth(call.req.depth) \in Nat /\ MaxNodes \in Nat
  BY LimitsAreNumbers
<1>2. IsFiniteSet(call.visited) /\ Cardinality(call.visited) \in Nat
  <2>1. call.visited \subseteq near
    BY DEF Hopped
  <2>2. IsFiniteSet(call.visited)
    BY <2>1, ReachIsFinite, FS_Subset
  <2> QED
    BY <2>2, FS_CardinalityType
<1>3. /\ uid \in Uids /\ uid \in call.visited /\ call.next \subseteq call.visited
      /\ hop \in 0..Depth(call.req.depth) /\ call.visited = near
      /\ Out(index, held, call.visited \ call.next) \subseteq call.visited
  <2>1. Cardinality(call.visited) # MaxNodes
    BY <1>1, <1>2
  <2> QED
    BY <2>1 DEF Hopped
<1>4. hop \in Nat /\ hop + 1 \in 0..Depth(call.req.depth)
  BY <1>3, <1>1
<1>5. room \in Nat
  BY <1>1, <1>2
<1>6. seen \in kSubset(Min({room, Cardinality(fresh)}), fresh)
  BY DEF Hops, Firsts, Out
<1>7. fresh \subseteq Uids /\ IsFiniteSet(fresh)
  BY OutIsByPage, UidsAreFinite, FS_Subset
<1> HIDE DEF uid, near, far, fresh, room, hop
<1>8. /\ seen \subseteq fresh /\ IsFiniteSet(seen) /\ Cardinality(seen) \in Nat
      /\ Cardinality(seen) <= room /\ (seen = fresh \/ Cardinality(seen) = room)
  BY <1>5, <1>6, <1>7, FirstsAreEnough
<1>9. seen \cap call.visited = {}
  BY <1>8 DEF fresh
<1>10. /\ IsFiniteSet(new.visited)
       /\ Cardinality(new.visited) = Cardinality(call.visited) + Cardinality(seen)
  <2>1. IsFiniteSet(call.visited \cup seen)
    BY <1>2, <1>8, FS_Union
  <2>2. Cardinality(call.visited \cup seen) = Cardinality(call.visited) + Cardinality(seen)
    BY <1>2, <1>8, <1>9, FS_Union, FS_EmptySet
  <2> QED
    BY <2>1, <2>2
<1>11. far = near \cup Out(index, held, near)
  BY <1>3, <1>4, ReachHops DEF near, far, hop
<1>12. fresh \subseteq Out(index, held, near)
  BY <1>3 DEF fresh, near, Out, OutboundNeighbors
<1>13. new.visited \subseteq far
  BY <1>3, <1>8, <1>11, <1>12
<1>14. ASSUME seen = fresh
       PROVE  new.visited = far /\ Out(index, held, new.visited \ new.next) \subseteq new.visited
  <2>1. Out(index, held, call.visited)
          \subseteq Out(index, held, call.next) \cup Out(index, held, call.visited \ call.next)
    BY DEF Out, OutboundNeighbors
  <2>2. Out(index, held, call.visited) \subseteq call.visited \cup fresh
    BY <1>3, <2>1 DEF fresh
  <2>3. new.visited \ new.next = call.visited
    BY <1>9
  <2> QED
    BY <1>3, <1>11, <1>13, <1>14, <2>2, <2>3
<1>15. /\ Cardinality(new.visited) <= MaxNodes
       /\ Cardinality(seen) = room => Cardinality(new.visited) = MaxNodes
  BY <1>1, <1>2, <1>8, <1>10 DEF room
<1>16. uid \in new.visited /\ new.next \subseteq new.visited
  BY <1>3
<1> QED
  BY <1>3, <1>4, <1>8, <1>13, <1>14, <1>15, <1>16 DEF Hopped, uid, far, hop

LEMMA HopsEnd ==
  ASSUME NEW index, NEW call, call.req.depth \in Int, Hopped(index, call),
         ~(/\ call.hops < Depth(call.req.depth) /\ call.next # {}
           /\ Cardinality(call.visited) < MaxNodes),
         call.aside = {e.from : e \in Backlinks(index, call.held,
                                 GetPage(index, call.held, call.req.scope, call.req.slug))},
         NEW new, new.held = call.held, new.req = call.req, new.pages = call.visited,
         new.aside = call.aside
  PROVE  RelatedIsExact(index, new)
<1> DEFINE uid  == GetPage(index, call.held, call.req.scope, call.req.slug)
           hop  == call.hops
           held == call.held
           far  == Reach(index, held, uid, Depth(call.req.depth))
<1>1. /\ uid \in Uids /\ uid \in call.visited /\ hop \in 0..Depth(call.req.depth)
      /\ call.visited \subseteq Reach(index, held, uid, hop) /\ Cardinality(call.visited) <= MaxNodes
      /\ \/ /\ call.visited = Reach(index, held, uid, hop)
            /\ Out(index, held, call.visited \ call.next) \subseteq call.visited
         \/ Cardinality(call.visited) = MaxNodes
  BY DEF Hopped
<1>2. Depth(call.req.depth) \in Nat /\ MaxNodes \in Nat
  BY LimitsAreNumbers
<1>3. hop \in Nat /\ hop <= Depth(call.req.depth)
  BY <1>1, <1>2
<1>4. Cardinality(call.visited) \in Nat
  <2>1. IsFiniteSet(call.visited)
    BY <1>1, ReachIsFinite, FS_Subset
  <2> QED
    BY <2>1, FS_CardinalityType
<1> HIDE DEF uid, hop
<1>5. call.visited \subseteq far
  BY <1>1, <1>2, <1>3, ReachGrows
<1>6. call.visited = far \/ Cardinality(call.visited) = MaxNodes
  <2> SUFFICES ASSUME Cardinality(call.visited) # MaxNodes PROVE call.visited = far
    OBVIOUS
  <2>1. /\ call.visited = Reach(index, held, uid, hop)
        /\ Out(index, held, call.visited \ call.next) \subseteq call.visited
    BY <1>1
  <2>2. CASE hop = Depth(call.req.depth)
    BY <2>1, <2>2
  <2>3. CASE call.next = {}
    <3>1. Out(index, held, call.visited) \subseteq call.visited
      <4>1. call.visited \ call.next = call.visited
        BY <2>3
      <4> QED
        BY <2>1, <4>1
    <3> QED
      BY <1>1, <1>2, <1>5, <3>1, ReachStays
  <2> QED
    BY <1>1, <1>2, <1>3, <1>4, <2>2, <2>3 DEF hop
<1> QED
  BY <1>5, <1>6 DEF RelatedIsExact, uid

Sources(rows) == {r.uid : r \in rows}

\* A search has rows of documents that are searched, of every match among them.
Searched(index, call) ==
  /\ SoundRows(call.rows)
  /\ Sources(call.rows) \subseteq InSearch(index, call.held, call.req.historical)
  /\ Matching(index, call) \subseteq Sources(call.rows)

LEMMA LexIsSearched ==
  ASSUME NEW index, Readable(index), NEW call,
         NEW new, new.held = call.held, new.req = call.req,
         new.rows = LexTrigramRows(index, call.held, call.req.query, call.req.historical)
  PROVE  Searched(index, new)
BY LexRowsAreSound DEF Searched, Sources, Matching

\* The texts a search compares are of documents that are searched.
Compared(index, call) ==
  IsFiniteSet(call.claims)
    /\ {d.uid : d \in call.claims} \subseteq InSearch(index, call.held, call.req.historical)

LEMMA VectorsAreSearched ==
  ASSUME NEW index, NEW call, Searched(index, call), Compared(index, call), NEW vectors,
         NEW new, new.held = call.held, new.req = call.req,
         new.rows = call.rows \cup SemanticRows(call.claims, vectors, call.req.query)
  PROVE  Searched(index, new)
<1> DEFINE more == SemanticRows(call.claims, vectors, call.req.query)
           docs == InSearch(index, call.held, call.req.historical)
<1>1. SoundRows(more) /\ Sources(more) \subseteq docs
  BY SemanticRowsAreSound DEF Compared, Sources
<1> HIDE DEF more
<1>2. SoundRows(call.rows \cup more)
  BY <1>1, FS_Union DEF Searched, SoundRows
<1>3. Sources(call.rows \cup more) = Sources(call.rows) \cup Sources(more)
  BY DEF Sources
<1>4. Matching(index, new) = Matching(index, call)
  BY DEF Matching
<1> QED
  BY <1>1, <1>2, <1>3, <1>4 DEF Searched, more

\* A document found by its scope and slug is the one they were read of.
LEMMA PageIsFound ==
  ASSUME NEW index, Readable(index), NEW held, NEW uid \in Owned(index, held)
  PROVE  GetPage(index, held, index.rows[uid].scope, index.rows[uid].slug) = uid
<1> DEFINE found == {v \in Owned(index, held) : /\ index.rows[v].slug = index.rows[uid].slug
                                               /\ index.rows[v].scope = index.rows[uid].scope}
<1>1. found = {uid}
  BY DEF Readable, Owned
<1> QED
  BY <1>1 DEF GetPage

\* The best of a search, as many as it has room for.
LEMMA BestAreExact ==
  ASSUME NEW index, NEW call, Searched(index, call), NEW most \in Nat,
         NEW best \in BestOf(Fused(call.rows), most)
  PROVE  LET docs  == InSearch(index, call.held, call.req.historical)
             names == {d.uid : d \in best}
         IN /\ IsFiniteSet(best) /\ names \subseteq docs
            /\ \A d \in best : d.score \in Nat
            /\ \/ Matching(index, call) \subseteq names
               \/ Cardinality(names) = most /\ Cardinality(docs) > most
<1> DEFINE all   == Fused(call.rows)
           docs  == InSearch(index, call.held, call.req.historical)
           names == {d.uid : d \in best}
           name  == [d \in all |-> d.uid]
<1>1. /\ IsFiniteSet(all) /\ {d.uid : d \in all} = Sources(call.rows)
      /\ \A d \in all : d.score \in Nat
      /\ \A d, e \in all : d.uid = e.uid => d = e
  BY FusedAreSound DEF Searched, Sources
<1>2. best \in kSubset(Min({most, Cardinality(all)}), all)
  BY DEF BestOf, Firsts
<1> HIDE DEF all
<1>3. /\ best \subseteq all /\ IsFiniteSet(best)
      /\ best = all \/ (Cardinality(best) = most /\ Cardinality(all) > most)
  BY <1>1, <1>2, FirstsAreEnough
<1>4. \A d \in all : name[d] = d.uid
  OBVIOUS
<1> HIDE DEF name
<1>5. names = {name[d] : d \in best} /\ {d.uid : d \in all} = {name[d] : d \in all}
  BY <1>3, <1>4
<1>6. Cardinality(names) = Cardinality(best)
  <2>1. \A d, e \in best : name[d] = name[e] => d = e
    BY <1>1, <1>3, <1>4
  <2>2. Cardinality({name[d] : d \in best}) = Cardinality(best)
    BY <1>3, <2>1, AsManyNames
  <2> QED
    BY <1>5, <2>2
<1>7. Cardinality(Sources(call.rows)) = Cardinality(all) /\ IsFiniteSet(Sources(call.rows))
  <2>1. \A d, e \in all : name[d] = name[e] => d = e
    BY <1>1, <1>4
  <2>2. Cardinality({name[d] : d \in all}) = Cardinality(all) /\ IsFiniteSet({name[d] : d \in all})
    BY <1>1, <2>1, AsManyNames
  <2> QED
    BY <1>1, <1>5, <2>2
<1>8. docs \subseteq Uids /\ Sources(call.rows) \subseteq docs
  BY DEF InSearch, Owned, Documents, Searched
<1>9. /\ Cardinality(all) <= Cardinality(docs)
      /\ Cardinality(all) \in Nat /\ Cardinality(docs) \in Nat
  <2>1. IsFiniteSet(docs)
    BY <1>8, UidsAreFinite, FS_Subset
  <2> QED
    BY <1>1, <1>7, <1>8, <2>1, FS_Subset, FS_CardinalityType
<1>10. names \subseteq docs
  BY <1>1, <1>3, <1>8
<1>11. ASSUME best = all PROVE Matching(index, call) \subseteq names
  BY <1>1, <1>11 DEF Searched
<1>12. ASSUME Cardinality(best) = most, Cardinality(all) > most
       PROVE  Cardinality(names) = most /\ Cardinality(docs) > most
  BY <1>6, <1>9, <1>12
<1>13. \A d \in best : d.score \in Nat
  BY <1>1, <1>3
<1> HIDE DEF names, docs
<1> QED
  BY <1>3, <1>10, <1>11, <1>12, <1>13 DEF names, docs

\* What a context still has to load are hits as their pages are.
Loading(index, call) ==
  /\ SoundFound(index, call)
  /\ \A hit \in call.hits :
       /\ hit.uid \in InSearch(index, call.held, call.req.historical) /\ hit.score \in Nat
       /\ hit.scope = index.rows[hit.uid].scope /\ hit.slug = index.rows[hit.uid].slug
  /\ FoundAll(index, call, Named(call.found) \cup Sources(call.hits))

HitsOfBest(index, call, best) ==
  {HitOf(index, d) : d \in {e \in best : e.uid \in Owned(index, call.held)}}

LEMMA HitsAreExact ==
  ASSUME NEW index, NEW call, Searched(index, call), NEW most \in Nat,
         NEW best \in BestOf(Fused(call.rows), most), NEW hits, hits = HitsOfBest(index, call, best)
  PROVE  /\ \A hit \in hits :
              /\ hit.uid \in InSearch(index, call.held, call.req.historical) /\ hit.score \in Nat
              /\ hit.scope = index.rows[hit.uid].scope /\ hit.slug = index.rows[hit.uid].slug
         /\ \/ Matching(index, call) \subseteq Sources(hits)
            \/ /\ Cardinality(Sources(hits)) = most
               /\ Cardinality(InSearch(index, call.held, call.req.historical)) > most
<1> DEFINE docs == InSearch(index, call.held, call.req.historical)
           names == {d.uid : d \in best}
<1>1. /\ names \subseteq docs /\ \A d \in best : d.score \in Nat
      /\ \/ Matching(index, call) \subseteq names
         \/ Cardinality(names) = most /\ Cardinality(docs) > most
  BY BestAreExact
<1>2. \A d \in best : d.uid \in docs /\ d.uid \in Owned(index, call.held)
  BY <1>1 DEF InSearch
<1>3. \A d \in best : LET hit == HitOf(index, d)
                      IN /\ hit.uid = d.uid /\ hit.score = d.score
                         /\ hit.scope = index.rows[d.uid].scope /\ hit.slug = index.rows[d.uid].slug
  BY DEF HitOf
<1>4. hits = {HitOf(index, d) : d \in best}
  BY <1>2 DEF HitsOfBest
<1> HIDE DEF docs
<1>5. ASSUME NEW hit \in hits
      PROVE  /\ hit.uid \in docs /\ hit.score \in Nat
             /\ hit.scope = index.rows[hit.uid].scope /\ hit.slug = index.rows[hit.uid].slug
  <2>1. PICK d \in best : hit = HitOf(index, d)
    BY <1>4
  <2> QED
    BY <1>1, <1>2, <1>3, <2>1
<1>6. Sources(hits) = names
  BY <1>3, <1>4 DEF Sources
<1> HIDE DEF names
<1> QED
  BY <1>1, <1>5, <1>6 DEF docs

LEMMA LoadingStarts ==
  ASSUME NEW index, NEW call, Searched(index, call), call.found = {},
         NEW best \in BestOf(Fused(call.rows), SearchTopK),
         NEW new, new.held = call.held, new.req = call.req, new.found = call.found,
         new.hits = HitsOfBest(index, call, best)
  PROVE  Loading(index, new)
<1>1. SearchTopK \in Nat
  BY LimitsAreNumbers
<1>2. /\ \A hit \in new.hits :
           /\ hit.uid \in InSearch(index, call.held, call.req.historical) /\ hit.score \in Nat
           /\ hit.scope = index.rows[hit.uid].scope /\ hit.slug = index.rows[hit.uid].slug
      /\ \/ Matching(index, call) \subseteq Sources(new.hits)
         \/ /\ Cardinality(Sources(new.hits)) = SearchTopK
            /\ Cardinality(InSearch(index, call.held, call.req.historical)) > SearchTopK
  BY <1>1, HitsAreExact
<1>3. SoundFound(index, new)
  BY FS_EmptySet DEF SoundFound
<1>4. Matching(index, new) = Matching(index, call)
  BY DEF Matching
<1>5. Named(new.found) \cup Sources(new.hits) = Sources(new.hits)
  BY DEF Named
<1>6. FoundAll(index, new, Sources(new.hits))
  BY <1>1, <1>2, <1>4 DEF FoundAll
<1> QED
  BY <1>2, <1>3, <1>5, <1>6 DEF Loading

LEMMA LoadingGoesOn ==
  ASSUME NEW index, Readable(index), NEW call, Loading(index, call), NEW hit \in call.hits,
         NEW uid, uid = GetPage(index, call.held, hit.scope, hit.slug),
         NEW new, new.held = call.held, new.req = call.req, new.hits = call.hits \ {hit},
         new.found = IF uid = None \/ uid \in Named(call.found) THEN call.found
                     ELSE call.found
                            \cup {Candidate(index, uid, hit.score, Cardinality(call.found) + 1)}
  PROVE  Loading(index, new)
<1> DEFINE docs == InSearch(index, call.held, call.req.historical)
<1>1. /\ hit.uid \in docs /\ hit.score \in Nat /\ hit.uid \in Uids
      /\ hit.scope = index.rows[hit.uid].scope /\ hit.slug = index.rows[hit.uid].slug
      /\ hit.uid \in Owned(index, call.held)
  BY DEF Loading, InSearch, Owned, Documents
<1>2. uid = hit.uid /\ uid # None
  BY <1>1, PageIsFound, NoneIsApart
<1>3. SoundFound(index, new) /\ Named(new.found) = Named(call.found) \cup {uid}
  <2>1. CASE uid \in Named(call.found)
    <3>1. new.found = call.found
      BY <2>1
    <3>2. SoundFound(index, new)
      BY <3>1 DEF Loading, SoundFound
    <3> QED
      BY <2>1, <3>1, <3>2
  <2>2. CASE uid \notin Named(call.found)
    <3>1. new.found = call.found
                        \cup {Candidate(index, uid, hit.score, Cardinality(call.found) + 1)}
      BY <1>2, <2>2
    <3>2. uid \in InSearch(index, call.held, call.req.historical) /\ SoundFound(index, call)
      BY <1>1, <1>2 DEF Loading
    <3>3. PICK score \in Nat : score = hit.score
      BY <1>1
    <3>4. new.found = call.found \cup {Candidate(index, uid, score, Cardinality(call.found) + 1)}
      BY <3>1, <3>3
    <3> QED
      BY <2>2, <3>2, <3>4, FoundGrows
  <2> QED
    BY <2>1, <2>2
<1>4. Named(new.found) \cup Sources(new.hits) = Named(call.found) \cup Sources(call.hits)
  BY <1>2, <1>3 DEF Sources
<1>5. Matching(index, new) = Matching(index, call)
  BY DEF Matching
<1>6. FoundAll(index, new, Named(new.found) \cup Sources(new.hits))
  BY <1>4, <1>5 DEF FoundAll, Loading
<1>7. \A other \in new.hits :
        /\ other.uid \in InSearch(index, new.held, new.req.historical) /\ other.score \in Nat
        /\ other.scope = index.rows[other.uid].scope /\ other.slug = index.rows[other.uid].slug
  BY DEF Loading
<1> QED
  BY <1>3, <1>6, <1>7 DEF Loading

\* ... and has the pages they specialize to read.
Expanding(index, call) ==
  /\ SoundFound(index, call) /\ FoundAll(index, call, Named(call.found))
  /\ call.near = SpecializedBy(index, call, Named(call.found))

LEMMA LoadingEnds ==
  ASSUME NEW index, NEW call, Loading(index, call), call.hits = {},
         NEW new, new.held = call.held, new.req = call.req, new.found = call.found,
         new.near = SpecializedBy(index, call, Named(call.found))
  PROVE  Expanding(index, new)
<1>1. Named(call.found) \cup Sources(call.hits) = Named(call.found)
  BY DEF Sources
<1>2. Matching(index, new) = Matching(index, call)
  BY DEF Matching
<1>3. FoundAll(index, new, Named(new.found))
  BY <1>1, <1>2 DEF Loading, FoundAll
<1>4. SoundFound(index, new)
  BY DEF Loading, SoundFound
<1>5. new.near = SpecializedBy(index, new, Named(new.found))
  BY DEF SpecializedBy
<1> QED
  BY <1>3, <1>4, <1>5 DEF Expanding

LEMMA ExpandingEnds ==
  ASSUME NEW index, Readable(index), NEW call, Expanding(index, call),
         call.req.budget \in Int, call.req.budget >= -1,
         NEW expanded, expanded = PagesByUIDs(index, call.held, call.near \ Named(call.found)),
         NEW all, Placing(index, call, expanded, all),
         NEW kept, kept = {d \in all : call.req.historical \/ ~d.historical},
         NEW pages \in Packs(kept, Budget(call.req.budget)),
         NEW new, new.held = call.held, new.req = call.req,
         new.pages = Named(pages), new.aside = Named(kept \ pages)
  PROVE  ContextIsExact(index, new)
<1>1. SoundFound(index, call) /\ FoundAll(index, call, Named(call.found))
  BY DEF Expanding
<1>2. /\ SoundCandidates(all) /\ \A d \in all : Fits(index, d, call.held)
      /\ Named(all) = Named(call.found) \cup expanded
  BY <1>1, CandidatesAreAll
<1>3. SpecializedBy(index, call, Named(call.found)) \subseteq Named(call.found) \cup expanded
  <2>1. SpecializedBy(index, call, Named(call.found)) \subseteq Owned(index, call.held)
    BY DEF SpecializedBy, OutboundNeighbors
  <2> QED
    BY <2>1 DEF Expanding, PagesByUIDs
<1>4. Named(call.found) \cup SpecializedBy(index, call, Named(call.found)) \subseteq Named(all)
  BY <1>2, <1>3
<1> QED
  BY <1>1, <1>2, <1>4, PackIsExact

-------------------------------------------------------------------------------
(* The index can be read. *)

\* What the indexer writes.
ReadableStatement(s) ==
  /\ s.op \in {"upsert", "claims", "edges", "prune"}
  /\ s.op = "upsert" => ReadableRow(s.row)
  /\ s.op = "claims" => IsFiniteSet(DOMAIN s.claims)

\* What the last theorem asks of a world: tables of the schema's types and keys, and
\* an indexer that writes such rows.
WorldsAreReadable ==
  \A w \in Worlds :
    Readable(w.db) /\ \A k \in DOMAIN w.script : ReadableStatement(w.script[k])

ReadableStatements == {s \in Statements : ReadableStatement(s)}

ServerReadable == Readable(db) /\ script \in Seq(ReadableStatements)

LEMMA StatementsAreReadable ==
  ASSUME NEW statement, ReadableStatement(statement), Readable(db), db' = Applied(statement)
  PROVE  Readable(db')
<1>1. {"rows", "claims", "edges"} \subseteq DOMAIN db
  BY DEF EmptyTables, Readable
<1>2. CASE statement.op = "upsert"
  <2> DEFINE rows == [db.rows EXCEPT ![statement.uid] = statement.row]
  <2>1. CASE UpsertOutcome(db, Scopes, statement.uid, statement.row) # "ok"
    <3>1. db' = db
      BY <1>2, <2>1 DEF Applied
    <3> QED
      BY <3>1
  <2>2. CASE UpsertOutcome(db, Scopes, statement.uid, statement.row) = "ok"
    <3>1. db' = [db EXCEPT !.rows = rows]
      BY <1>2, <2>2 DEF Applied, UpsertDocument
    <3>2. /\ DOMAIN db' = DOMAIN db /\ db'.claims = db.claims /\ DOMAIN db'.rows = DOMAIN db.rows
          /\ \A uid \in Uids :
               db'.rows[uid] = IF uid = statement.uid THEN statement.row ELSE db.rows[uid]
      BY <1>1, <3>1 DEF Readable
    <3>3. \A other \in Documents(db) \ {statement.uid} :
            ~(/\ db.rows[other].scope = statement.row.scope
              /\ db.rows[other].slug = statement.row.slug)
      BY <2>2 DEF UpsertOutcome
    <3>4. \A uid \in Documents(db') :
            \/ uid = statement.uid /\ db'.rows[uid] = statement.row
            \/ uid # statement.uid /\ uid \in Documents(db) /\ db'.rows[uid] = db.rows[uid]
      BY <3>2 DEF Documents
    <3>5. \A uid \in Documents(db') : ReadableRow(db'.rows[uid])
      BY <1>2, <3>4 DEF ReadableStatement, Readable
    <3>6. ASSUME NEW u \in Documents(db'), NEW v \in Documents(db'),
                 db'.rows[u].scope = db'.rows[v].scope, db'.rows[u].slug = db'.rows[v].slug
          PROVE  u = v
      BY <3>3, <3>4, <3>6 DEF Readable
    <3> QED
      BY <3>2, <3>5, <3>6 DEF Readable
  <2> QED
    BY <2>1, <2>2
<1>3. CASE statement.op = "claims"
  <2> DEFINE claims == [db.claims EXCEPT ![statement.uid] = statement.claims]
  <2>1. db' = [db EXCEPT !.claims = claims]
    BY <1>3 DEF Applied, ReplaceClaims
  <2>2. /\ DOMAIN db' = DOMAIN db /\ db'.rows = db.rows /\ DOMAIN db'.claims = DOMAIN db.claims
        /\ \A uid \in Uids : db'.claims[uid] = statement.claims \/ db'.claims[uid] = db.claims[uid]
    BY <1>1, <2>1 DEF Readable
  <2>3. \A uid \in Uids : IsFiniteSet(DOMAIN db'.claims[uid])
    BY <1>3, <2>2 DEF ReadableStatement, Readable
  <2>4. Documents(db') = Documents(db)
    BY <2>2 DEF Documents
  <2> QED
    BY <2>2, <2>3, <2>4 DEF Readable
<1>4. CASE statement.op = "edges"
  <2>1. DOMAIN db' = DOMAIN db /\ db'.rows = db.rows /\ db'.claims = db.claims
    BY <1>1, <1>4 DEF Applied, UpsertEdges
  <2>2. Documents(db') = Documents(db)
    BY <2>1 DEF Documents
  <2> QED
    BY <2>1, <2>2 DEF Readable
<1>5. CASE statement.op = "prune"
  <2> DEFINE dead == {uid \in Owned(db, Scopes) : db.rows[uid].path \notin statement.keep}
  <2>1. /\ DOMAIN db' = DOMAIN db
        /\ db'.rows = [uid \in Uids |-> IF uid \in dead THEN NoRow ELSE db.rows[uid]]
        /\ db'.claims = [uid \in Uids |-> IF uid \in dead THEN << >> ELSE db.claims[uid]]
    <3>1. {"rows", "claims", "chunks", "findings", "edges"} \subseteq DOMAIN db
      BY DEF EmptyTables, Readable
    <3> QED
      BY <1>5, <3>1 DEF Applied, DeleteDocumentsNotIn
  <2> HIDE DEF dead
  <2>2. \A uid \in Documents(db') : uid \in Documents(db) /\ db'.rows[uid] = db.rows[uid]
    BY <2>1 DEF Documents
  <2>3. \A uid \in Uids : IsFiniteSet(DOMAIN db'.claims[uid])
    <3>1. IsFiniteSet(DOMAIN << >>)
      BY FS_EmptySet
    <3> QED
      BY <2>1, <3>1 DEF Readable
  <2>4. \A uid \in Documents(db') : ReadableRow(db'.rows[uid])
    BY <2>2 DEF Readable
  <2>5. \A u, v \in Documents(db') :
          db'.rows[u].scope = db'.rows[v].scope /\ db'.rows[u].slug = db'.rows[v].slug => u = v
    BY <2>2 DEF Readable
  <2>6. /\ DOMAIN db'.rows = Uids /\ DOMAIN db'.claims = Uids
        /\ DOMAIN EmptyTables \subseteq DOMAIN db'
    BY <2>1 DEF Readable
  <2> QED
    BY <2>3, <2>4, <2>5, <2>6 DEF Readable
<1> QED
  BY <1>2, <1>3, <1>4, <1>5 DEF ReadableStatement

LEMMA ServerReadableNext == ServerReadable /\ [Next]_vars => ServerReadable'
<1> SUFFICES ASSUME ServerReadable, [Next]_vars PROVE ServerReadable'
  OBVIOUS
<1>1. CASE IndexStep
  <2>1. script # << >> /\ db' = Applied(Head(script)) /\ script' = Tail(script)
    BY <1>1 DEF IndexStep
  <2>2. Head(script) \in ReadableStatements /\ script' \in Seq(ReadableStatements)
    BY <2>1 DEF ServerReadable
  <2>3. ReadableStatement(Head(script)) /\ Readable(db)
    BY <2>2 DEF ReadableStatements, ServerReadable
  <2> QED
    BY <2>1, <2>2, <2>3, StatementsAreReadable DEF ServerReadable, ReadableStatements
<1>2. CASE Proposing
  <2>1. UNCHANGED <<db, script>>
    BY <1>2 DEF Proposing, gateVars, StartRun, RunStep, LoadProposeState, ReadPending,
      PlaceBatch, WriteChange, CommitBatch, RunStops, OwnerActs, OwnerDecides
  <2> QED
    BY <2>1 DEF ServerReadable
<1>3. ASSUME NEW c \in CallIds,
             \/ Send(c) \/ TurnedAway(c) \/ GateLimits(c) \/ GateAdmits(c)
             \/ Authenticate(c) \/ ToolStep(c)
      PROVE  UNCHANGED <<db, script>>
  <2>1. ASSUME ToolStep(c) PROVE UNCHANGED <<db, script>>
    BY <2>1 DEF ToolStep, ListStep, PageStep, BackStep, HopStep, LexStep, TextsStep,
      VectorsStep, MetaStep, LoadStep, ExpandStep, PackStep, ReadStep, WriteStep, ReadFails,
      AuditStep, Step, Others, proposeVars
  <2> QED
    BY <1>3, <2>1 DEF Send, TurnedAway, GateLimits, GateAdmits, Authenticate, Step, Others,
      proposeVars
<1>4. ASSUME \/ \E key \in Keys : OtherRequest(key)
             \/ \E who : AgentChecked(who) \/ AgentInserted(who)
             \/ TokenCommand \/ Revoke \/ TimePasses \/ UNCHANGED vars
      PROVE  UNCHANGED <<db, script>>
  BY <1>4 DEF OtherRequest, AgentChecked, AgentInserted, TokenCommand, Revoke, TimePasses,
    TokensOnly, proposeVars, gateVars, vars
<1>5. ASSUME UNCHANGED <<db, script>> PROVE ServerReadable'
  BY <1>5 DEF ServerReadable
<1> QED
  BY <1>1, <1>2, <1>3, <1>4, <1>5 DEF Next

ExactFields ==
  {"pc", "req", "quiet", "held", "rows", "claims", "hits", "found", "near", "visited", "next",
   "hops", "pages", "aside", "outcome"}

Asked(req) == req.tool \in ToolNames /\ {req.limit, req.depth, req.budget} \subseteq Int

\* A call is where its tool goes, and has nothing gathered before it reads.
Served(call) ==
  /\ ExactFields \subseteq DOMAIN call
  /\ Asked(call.req)
  /\ call.pc = "list" => call.req.tool = "pages"
  /\ call.pc = "page" => call.req.tool \in {"fetch", "related"}
  /\ call.pc \in {"back", "hop"} => call.req.tool = "related"
  /\ call.pc \in {"search", "texts", "vectors", "meta"} => call.req.tool \in {"search", "context"}
  /\ call.pc \in {"load", "expand"} => call.req.tool = "context"
  /\ call.pc \in {"read", "write"} => call.req.tool = "remember"
  /\ call.pc \in Reading /\ call.req.tool = "context" => call.req.budget >= -1
  /\ call.pc \in {"gate", "auth", "page"} => call.hops = 0
  /\ call.pc \in {"gate", "auth", "search", "texts", "vectors", "meta"} => call.found = {}

PageOf(index, call) == GetPage(index, call.held, call.req.scope, call.req.slug)

\* What a call knows that found the index as it is.
ReadSoFar(index, call) ==
  /\ call.pc = "back" => Hopped(index, call) /\ call.visited = {PageOf(index, call)}
  /\ call.pc = "hop" =>
       /\ Hopped(index, call)
       /\ call.aside = {e.from : e \in Backlinks(index, call.held, PageOf(index, call))}
  /\ call.pc \in {"texts", "vectors", "meta"} => Searched(index, call)
  /\ call.pc = "vectors" => Compared(index, call)
  /\ call.pc = "load" => Loading(index, call)
  /\ call.pc = "expand" => Expanding(index, call)
  /\ call.pc = "audit" /\ call.outcome = "ok" => AnswerIsExact(index, call)

Good(index, call) == Served(call) /\ (call.quiet => ReadSoFar(index, call))

ExactInv == \A c \in DOMAIN calls : Good(db, calls[c])

\* A call goes on, well.
Goes(c) == \E new : Good(db, new) /\ calls' = [calls EXCEPT ![c] = new]

LEMMA GoneOn ==
  ASSUME ExactInv, NEW c \in DOMAIN calls, Goes(c), db' = db
  PROVE  ExactInv'
<1>1. PICK new : Good(db, new) /\ calls' = [calls EXCEPT ![c] = new]
  BY DEF Goes
<1>2. DOMAIN calls' = DOMAIN calls /\ calls'[c] = new
        /\ \A d \in DOMAIN calls \ {c} : calls'[d] = calls[d]
  BY <1>1
<1>3. ASSUME NEW d \in DOMAIN calls PROVE Good(db, calls'[d])
  BY <1>1, <1>2 DEF ExactInv
<1> QED
  BY <1>2, <1>3 DEF ExactInv

LEMMA AnswersByTool ==
  ASSUME NEW index, NEW call, call.req.tool \in ToolNames,
         call.req.tool = "related" => RelatedIsExact(index, call),
         call.req.tool = "context" => ContextIsExact(index, call),
         call.req.tool = "search" => SearchIsExact(index, call),
         call.req.tool = "pages" => ListIsExact(index, call)
  PROVE  AnswerIsExact(index, call)
BY DEF AnswerIsExact, ToolNames

LEMMA AnswerGoes ==
  ASSUME NEW c \in DOMAIN calls, Good(db, calls[c]), NEW pages, NEW aside,
         calls[c].quiet => AnswerIsExact(db, Answered(calls[c], pages, aside)),
         calls' = [calls EXCEPT ![c] = Answered(calls[c], pages, aside)]
  PROVE  Goes(c)
<1> DEFINE new == Answered(calls[c], pages, aside)
<1>1. /\ ExactFields \subseteq DOMAIN new /\ new.pc = "audit" /\ new.outcome = "ok"
      /\ new.req = calls[c].req /\ new.quiet = calls[c].quiet
  BY DEF Good, Served, ExactFields, Answered
<1> HIDE DEF new
<1>2. Served(new)
  BY <1>1 DEF Good, Served, Reading
<1>3. new.quiet => ReadSoFar(db, new)
  BY <1>1 DEF ReadSoFar, new
<1> QED
  BY <1>2, <1>3 DEF Good, Goes, new

LEMMA FailureGoes ==
  ASSUME NEW c \in DOMAIN calls, Good(db, calls[c]), NEW outcome, outcome # "ok",
         calls' = [calls EXCEPT ![c] = Failed(calls[c], outcome)]
  PROVE  Goes(c)
<1> DEFINE new == Failed(calls[c], outcome)
<1>1. /\ ExactFields \subseteq DOMAIN new /\ new.pc = "audit" /\ new.outcome = outcome
      /\ new.req = calls[c].req
  BY DEF Good, Served, ExactFields, Failed
<1> HIDE DEF new
<1>2. Served(new) /\ ReadSoFar(db, new)
  BY <1>1 DEF Good, Served, Reading, ReadSoFar
<1> QED
  BY <1>2 DEF Good, Goes, new

LEMMA ListGoes ==
  ASSUME NEW c \in DOMAIN calls, Good(db, calls[c]), ListStep(c)
  PROVE  Goes(c)
<1> DEFINE call == calls[c]
           filter == [types |-> call.req.types, tags |-> {}, status |-> {},
                      historical |-> FALSE, limit |-> PagesLimit(call.req.limit)]
<1>1. PICK pages \in ListPages(db, call.held, filter) : Step(c, Answered(call, pages, {}))
  BY DEF ListStep
<1>2. Served(call) /\ call.req.tool = "pages" /\ call.req.limit \in Int
  BY DEF Good, Served, Asked, ListStep, At
<1> DEFINE new == Answered(call, pages, {})
<1>3. new.held = call.held /\ new.req = call.req /\ new.pages = pages
  BY <1>2 DEF Answered, Served, ExactFields
<1> HIDE DEF new
<1>4. ListIsExact(db, new)
  BY <1>1, <1>2, <1>3, ListsAreExact
<1>5. AnswerIsExact(db, new)
  BY <1>2, <1>3, <1>4, AnswersByTool DEF ToolNames
<1> QED
  BY <1>1, <1>5, AnswerGoes DEF new, Step

LEMMA PageGoes ==
  ASSUME NEW c \in DOMAIN calls, Good(db, calls[c]), PageStep(c)
  PROVE  Goes(c)
<1> DEFINE call == calls[c]
           uid  == PageOf(db, call)
<1>1. /\ Served(call) /\ call.req.tool \in {"fetch", "related"} /\ call.hops = 0
      /\ call.req.depth \in Int
  BY DEF Good, Served, Asked, PageStep, At
<1>2. ASSUME uid = None PROVE Goes(c)
  <2>1. Step(c, Failed(call, "not_found"))
    BY <1>2 DEF PageStep, PageOf
  <2> QED
    BY <2>1, FailureGoes DEF Step
<1>3. ASSUME uid # None, call.req.tool = "fetch" PROVE Goes(c)
  <2>1. Step(c, Answered(call, {uid}, {}))
    BY <1>3 DEF PageStep, PageOf
  <2> DEFINE new == Answered(call, {uid}, {})
  <2>2. new.req = call.req
    BY DEF Answered
  <2> HIDE DEF new
  <2>3. AnswerIsExact(db, new)
    BY <1>3, <2>2, AnswersByTool DEF ToolNames
  <2> QED
    BY <2>1, <2>3, AnswerGoes DEF Step, new
<1>4. ASSUME uid # None, call.req.tool = "related" PROVE Goes(c)
  <2> DEFINE new == [call EXCEPT !.pc = "back", !.visited = {uid}, !.next = {uid}]
  <2>1. Step(c, new)
    BY <1>4 DEF PageStep, PageOf
  <2>2. /\ ExactFields \subseteq DOMAIN new /\ new.pc = "back" /\ new.visited = {uid}
        /\ new.next = {uid} /\ new.hops = 0 /\ new.held = call.held /\ new.req = call.req
    BY <1>1 DEF Served, ExactFields
  <2>3. uid \in Uids
    BY <1>4 DEF PageOf, GetPage, Owned, Documents
  <2> HIDE DEF new, uid, call
  <2>4. Served(new)
    BY <1>1, <1>4, <2>2 DEF Served, Reading
  <2>5. uid = PageOf(db, new)
    BY <2>2 DEF PageOf, uid, call
  <2>6. Hopped(db, new)
    <3>1. Reach(db, new.held, uid, 0) = {uid}
      BY <2>3, ReachStarts
    <3>2. Cardinality({uid}) = 1
      BY FS_Singleton
    <3>3. MaxNodes >= 1 /\ Depth(new.req.depth) \in Nat
      BY <1>1, <2>2, LimitsAreNumbers
    <3>4. new.visited \ new.next = {}
      BY <2>2
    <3>5. Out(db, new.held, {}) = {}
      BY DEF Out, OutboundNeighbors
    <3> QED
      BY <2>2, <2>3, <2>5, <3>1, <3>2, <3>3, <3>4, <3>5 DEF Hopped, PageOf
  <2>7. ReadSoFar(db, new)
    BY <2>2, <2>5, <2>6 DEF ReadSoFar
  <2> QED
    BY <2>1, <2>4, <2>7 DEF Good, Goes, Step
<1> QED
  BY <1>1, <1>2, <1>3, <1>4

LEMMA BackGoes ==
  ASSUME NEW c \in DOMAIN calls, Good(db, calls[c]), BackStep(c)
  PROVE  Goes(c)
<1> DEFINE call == calls[c]
           uid  == CHOOSE u \in call.visited : TRUE
           from == {e.from : e \in Backlinks(db, call.held, uid)}
           new  == [call EXCEPT !.pc = "hop", !.aside = from]
<1>1. Served(call) /\ call.req.tool = "related" /\ call.pc = "back"
  BY DEF Good, Served, BackStep, At
<1>2. Step(c, new)
  BY DEF BackStep
<1> HIDE DEF from
<1>3. /\ ExactFields \subseteq DOMAIN new /\ new.pc = "hop" /\ new.aside = from
      /\ new.held = call.held /\ new.req = call.req /\ new.quiet = call.quiet
      /\ new.visited = call.visited /\ new.next = call.next /\ new.hops = call.hops
  BY <1>1 DEF Served, ExactFields
<1> HIDE DEF new
<1>4. Served(new)
  BY <1>1, <1>3 DEF Served, Reading
<1>5. ASSUME call.quiet PROVE ReadSoFar(db, new)
  <2>1. Hopped(db, call) /\ call.visited = {PageOf(db, call)}
    BY <1>1, <1>5 DEF Good, ReadSoFar
  <2>2. uid = PageOf(db, call)
    BY <2>1
  <2>3. PageOf(db, new) = PageOf(db, call)
    BY <1>3 DEF PageOf
  <2>4. Hopped(db, new)
    BY <1>3, <2>1 DEF Hopped
  <2>5. new.aside = {e.from : e \in Backlinks(db, new.held, PageOf(db, new))}
    BY <1>3, <2>2, <2>3 DEF from
  <2> QED
    BY <1>3, <2>4, <2>5 DEF ReadSoFar
<1> QED
  BY <1>2, <1>3, <1>4, <1>5 DEF Good, Goes, Step

LEMMA HopGoes ==
  ASSUME NEW c \in DOMAIN calls, Good(db, calls[c]), HopStep(c)
  PROVE  Goes(c)
<1> DEFINE call == calls[c]
           more == /\ call.hops < Depth(call.req.depth) /\ call.next # {}
                   /\ Cardinality(call.visited) < MaxNodes
           edges == OutboundNeighbors(db, call.held, call.next, {})
<1>1. /\ Served(call) /\ call.req.tool = "related" /\ call.pc = "hop"
      /\ call.req.depth \in Int
  BY DEF Good, Served, Asked, HopStep, At
<1>2. call.quiet =>
        /\ Hopped(db, call)
        /\ call.aside = {e.from : e \in Backlinks(db, call.held, PageOf(db, call))}
  BY <1>1 DEF Good, ReadSoFar
<1>3. \/ more /\ \E seen \in Hops(db, call.visited, edges) :
           Step(c, [call EXCEPT !.hops = @ + 1, !.visited = @ \cup seen, !.next = seen])
      \/ ~more /\ Step(c, Answered(call, call.visited, call.aside))
  BY DEF HopStep
<1>4. ASSUME more, NEW seen \in Hops(db, call.visited, edges),
             Step(c, [call EXCEPT !.hops = @ + 1, !.visited = @ \cup seen, !.next = seen])
      PROVE  Goes(c)
  <2> DEFINE new == [call EXCEPT !.hops = @ + 1, !.visited = @ \cup seen, !.next = seen]
  <2>1. /\ ExactFields \subseteq DOMAIN new /\ new.pc = "hop" /\ new.aside = call.aside
        /\ new.held = call.held /\ new.req = call.req /\ new.quiet = call.quiet
        /\ new.visited = call.visited \cup seen /\ new.next = seen /\ new.hops = call.hops + 1
    BY <1>1 DEF Served, ExactFields
  <2>2. calls' = [calls EXCEPT ![c] = new]
    BY <1>4 DEF Step
  <2> HIDE DEF new
  <2>3. Served(new)
    BY <1>1, <2>1 DEF Served, Reading
  <2>4. ASSUME call.quiet PROVE ReadSoFar(db, new)
    <3>1. Hopped(db, new)
      BY <1>1, <1>2, <1>4, <2>1, <2>4, HopGoesOn
    <3>2. PageOf(db, new) = PageOf(db, call)
      BY <2>1 DEF PageOf
    <3> QED
      BY <1>2, <2>1, <2>4, <3>1, <3>2 DEF ReadSoFar
  <2> QED
    BY <2>1, <2>2, <2>3, <2>4 DEF Good, Goes
<1>5. ASSUME ~more, Step(c, Answered(call, call.visited, call.aside)) PROVE Goes(c)
  <2> DEFINE new == Answered(call, call.visited, call.aside)
  <2>1. /\ new.held = call.held /\ new.req = call.req
        /\ new.pages = call.visited /\ new.aside = call.aside
    BY <1>1 DEF Answered, Served, ExactFields
  <2> HIDE DEF new
  <2>2. ASSUME call.quiet PROVE AnswerIsExact(db, new)
    <3>1. RelatedIsExact(db, new)
      BY <1>1, <1>2, <1>5, <2>1, <2>2, HopsEnd DEF PageOf
    <3> QED
      BY <1>1, <2>1, <3>1, AnswersByTool DEF ToolNames
  <2> QED
    BY <1>5, <2>2, AnswerGoes DEF new, Step
<1> HIDE DEF more, edges
<1> QED
  BY <1>3, <1>4, <1>5

LEMMA LexGoes ==
  ASSUME NEW c \in DOMAIN calls, Good(db, calls[c]), Readable(db), LexStep(c)
  PROVE  Goes(c)
<1> DEFINE call == calls[c]
           rows == LexTrigramRows(db, call.held, call.req.query, call.req.historical)
<1>1. /\ Served(call) /\ call.req.tool \in {"search", "context"} /\ call.pc = "search"
      /\ call.found = {}
  BY DEF Good, Served, LexStep, At
<1>2. PICK pc \in {"texts", "meta"} : Step(c, [call EXCEPT !.rows = rows, !.pc = pc])
  BY DEF LexStep
<1> DEFINE new == [call EXCEPT !.rows = rows, !.pc = pc]
<1>3. /\ ExactFields \subseteq DOMAIN new /\ new.pc = pc /\ new.rows = rows
      /\ new.held = call.held /\ new.req = call.req /\ new.found = call.found
  BY <1>1 DEF Served, ExactFields
<1>4. calls' = [calls EXCEPT ![c] = new]
  BY <1>2 DEF Step
<1> HIDE DEF new
<1>5. Served(new)
  BY <1>1, <1>2, <1>3 DEF Served, Reading
<1>6. Searched(db, new)
  BY <1>3, LexIsSearched
<1>7. ReadSoFar(db, new)
  BY <1>2, <1>3, <1>6 DEF ReadSoFar
<1> QED
  BY <1>4, <1>5, <1>7 DEF Good, Goes

LEMMA TextsGo ==
  ASSUME NEW c \in DOMAIN calls, Good(db, calls[c]), Readable(db), TextsStep(c)
  PROVE  Goes(c)
<1> DEFINE call  == calls[c]
           texts == CandidateClaims(db, call.held, call.req.historical)
<1>1. /\ Served(call) /\ call.req.tool \in {"search", "context"} /\ call.pc = "texts"
      /\ call.found = {}
  BY DEF Good, Served, TextsStep, At
<1>2. PICK pc \in {"vectors", "meta"} : Step(c, [call EXCEPT !.claims = texts, !.pc = pc])
  BY DEF TextsStep
<1> DEFINE new == [call EXCEPT !.claims = texts, !.pc = pc]
<1>3. /\ ExactFields \subseteq DOMAIN new /\ new.pc = pc /\ new.claims = texts
      /\ new.held = call.held /\ new.req = call.req /\ new.found = call.found
      /\ new.rows = call.rows /\ new.quiet = call.quiet
  BY <1>1 DEF Served, ExactFields
<1>4. calls' = [calls EXCEPT ![c] = new]
  BY <1>2 DEF Step
<1> HIDE DEF new
<1>5. Served(new)
  BY <1>1, <1>2, <1>3 DEF Served, Reading
<1>6. ASSUME call.quiet PROVE ReadSoFar(db, new)
  <2>1. Searched(db, call)
    BY <1>1, <1>6 DEF Good, ReadSoFar
  <2>2. Matching(db, new) = Matching(db, call)
    BY <1>3 DEF Matching
  <2>3. Searched(db, new)
    BY <1>3, <2>1, <2>2 DEF Searched
  <2>4. Compared(db, new)
    BY <1>3, CandidatesAreSound DEF Compared
  <2> QED
    BY <1>2, <1>3, <2>3, <2>4 DEF ReadSoFar
<1> QED
  BY <1>3, <1>4, <1>5, <1>6 DEF Good, Goes

LEMMA VectorsGo ==
  ASSUME NEW c \in DOMAIN calls, Good(db, calls[c]), VectorsStep(c)
  PROVE  Goes(c)
<1> DEFINE call == calls[c]
           more == SemanticRows(call.claims, db.vectors, call.req.query)
           new  == [call EXCEPT !.pc = "meta", !.rows = @ \cup more]
<1>1. /\ Served(call) /\ call.req.tool \in {"search", "context"} /\ call.pc = "vectors"
      /\ call.found = {}
  BY DEF Good, Served, VectorsStep, At
<1>2. calls' = [calls EXCEPT ![c] = new]
  BY DEF VectorsStep, Step
<1> HIDE DEF more
<1>3. /\ ExactFields \subseteq DOMAIN new /\ new.pc = "meta" /\ new.rows = call.rows \cup more
      /\ new.held = call.held /\ new.req = call.req /\ new.found = call.found
      /\ new.quiet = call.quiet
  BY <1>1 DEF Served, ExactFields
<1> HIDE DEF new
<1>4. Served(new)
  BY <1>1, <1>3 DEF Served, Reading
<1>5. ASSUME call.quiet PROVE ReadSoFar(db, new)
  <2>1. Searched(db, call) /\ Compared(db, call)
    BY <1>1, <1>5 DEF Good, ReadSoFar
  <2>2. Searched(db, new)
    BY <1>3, <2>1, VectorsAreSearched DEF more
  <2> QED
    BY <1>3, <2>2 DEF ReadSoFar
<1> QED
  BY <1>2, <1>3, <1>4, <1>5 DEF Good, Goes

LEMMA MetaGoes ==
  ASSUME NEW c \in DOMAIN calls, Good(db, calls[c]), MetaStep(c)
  PROVE  Goes(c)
<1> DEFINE call == calls[c]
           most == IF call.req.tool = "search" THEN TopK(call.req.limit) ELSE SearchTopK
<1>1. /\ Served(call) /\ call.req.tool \in {"search", "context"} /\ call.pc = "meta"
      /\ call.found = {} /\ call.req.limit \in Int
      /\ call.req.tool = "context" => call.req.budget >= -1
  BY DEF Good, Served, Asked, MetaStep, At, Reading
<1>2. call.quiet => Searched(db, call)
  BY <1>1 DEF Good, ReadSoFar
<1>3. PICK best \in BestOf(Fused(call.rows), most) :
        LET hits == HitsOfBest(db, call, best)
        IN Step(c, IF call.req.tool = "search"
                   THEN Answered(call, {hit.uid : hit \in hits}, {})
                   ELSE [call EXCEPT !.pc = "load", !.hits = hits])
  BY DEF MetaStep, HitsOfBest
<1> DEFINE hits == HitsOfBest(db, call, best)
<1>4. most \in Nat
  BY <1>1, LimitsAreNumbers
<1>5. ASSUME call.req.tool = "search" PROVE Goes(c)
  <2> DEFINE new == Answered(call, Sources(hits), {})
  <2>1. new.held = call.held /\ new.req = call.req /\ new.pages = Sources(hits)
    BY <1>1 DEF Answered, Served, ExactFields
  <2>2. calls' = [calls EXCEPT ![c] = new]
    BY <1>3, <1>5 DEF Step, Sources
  <2> HIDE DEF new, hits
  <2>3. ASSUME call.quiet PROVE AnswerIsExact(db, new)
    <3>1. \/ Matching(db, call) \subseteq Sources(hits)
          \/ Cardinality(Sources(hits)) = most
      BY <1>2, <1>3, <1>4, <2>3, HitsAreExact DEF hits
    <3>2. Matching(db, new) = Matching(db, call)
      BY <2>1 DEF Matching
    <3>3. SearchIsExact(db, new)
      BY <1>5, <2>1, <3>1, <3>2 DEF SearchIsExact
    <3> QED
      BY <1>5, <2>1, <3>3, AnswersByTool DEF ToolNames
  <2> QED
    BY <2>2, <2>3, AnswerGoes DEF new
<1>6. ASSUME call.req.tool = "context" PROVE Goes(c)
  <2> DEFINE new == [call EXCEPT !.pc = "load", !.hits = hits]
  <2>1. calls' = [calls EXCEPT ![c] = new]
    BY <1>3, <1>6 DEF Step
  <2> HIDE DEF hits
  <2>2. /\ ExactFields \subseteq DOMAIN new /\ new.pc = "load" /\ new.hits = hits
        /\ new.held = call.held /\ new.req = call.req /\ new.found = call.found
        /\ new.quiet = call.quiet
    BY <1>1 DEF Served, ExactFields
  <2> HIDE DEF new
  <2>3. Served(new)
    BY <1>1, <1>6, <2>2 DEF Served, Reading
  <2>4. ASSUME call.quiet PROVE ReadSoFar(db, new)
    <3>1. best \in BestOf(Fused(call.rows), SearchTopK)
      BY <1>3, <1>6
    <3>2. Loading(db, new)
      BY <1>1, <1>2, <2>2, <2>4, <3>1, LoadingStarts DEF hits
    <3> QED
      BY <2>2, <3>2 DEF ReadSoFar
  <2> QED
    BY <2>1, <2>2, <2>3, <2>4 DEF Good, Goes
<1> QED
  BY <1>1, <1>5, <1>6

LEMMA LoadGoes ==
  ASSUME NEW c \in DOMAIN calls, Good(db, calls[c]), Readable(db), LoadStep(c)
  PROVE  Goes(c)
<1> DEFINE call == calls[c]
<1>1. /\ Served(call) /\ call.req.tool = "context" /\ call.pc = "load"
      /\ call.req.budget >= -1
  BY DEF Good, Served, LoadStep, At, Reading
<1>2. PICK hit \in call.hits :
        LET uid == GetPage(db, call.held, hit.scope, hit.slug)
        IN Step(c, [call EXCEPT !.hits = @ \ {hit},
                      !.found = IF uid = None \/ uid \in Named(call.found) THEN @
                                ELSE @ \cup {Candidate(db, uid, hit.score, Cardinality(@) + 1)}])
  BY DEF LoadStep
<1> DEFINE uid   == GetPage(db, call.held, hit.scope, hit.slug)
           found == IF uid = None \/ uid \in Named(call.found) THEN call.found
                    ELSE call.found
                           \cup {Candidate(db, uid, hit.score, Cardinality(call.found) + 1)}
           new   == [call EXCEPT !.hits = call.hits \ {hit}, !.found = found]
<1>3. calls' = [calls EXCEPT ![c] = new]
  BY <1>2 DEF Step
<1> HIDE DEF found
<1>4. /\ ExactFields \subseteq DOMAIN new /\ new.pc = "load" /\ new.hits = call.hits \ {hit}
      /\ new.held = call.held /\ new.req = call.req /\ new.found = found
      /\ new.quiet = call.quiet
  BY <1>1 DEF Served, ExactFields
<1> HIDE DEF new
<1>5. Served(new)
  BY <1>1, <1>4 DEF Served, Reading
<1>6. ASSUME call.quiet PROVE ReadSoFar(db, new)
  <2>1. Loading(db, call)
    BY <1>1, <1>6 DEF Good, ReadSoFar
  <2>2. Loading(db, new)
    BY <1>4, <2>1, LoadingGoesOn DEF found
  <2> QED
    BY <1>4, <2>2 DEF ReadSoFar
<1> QED
  BY <1>3, <1>4, <1>5, <1>6 DEF Good, Goes

LEMMA ExpandGoes ==
  ASSUME NEW c \in DOMAIN calls, Good(db, calls[c]), ExpandStep(c)
  PROVE  Goes(c)
<1> DEFINE call == calls[c]
           near == SpecializedBy(db, call, Named(call.found))
           new  == [call EXCEPT !.pc = "expand", !.near = near]
<1>1. /\ Served(call) /\ call.req.tool = "context" /\ call.pc = "load" /\ call.hits = {}
      /\ call.req.budget >= -1
  BY DEF Good, Served, ExpandStep, At, Reading
<1>2. calls' = [calls EXCEPT ![c] = new]
  BY DEF ExpandStep, Step, SpecializedBy
<1> HIDE DEF near
<1>3. /\ ExactFields \subseteq DOMAIN new /\ new.pc = "expand" /\ new.near = near
      /\ new.held = call.held /\ new.req = call.req /\ new.found = call.found
      /\ new.quiet = call.quiet
  BY <1>1 DEF Served, ExactFields
<1> HIDE DEF new
<1>4. Served(new)
  BY <1>1, <1>3 DEF Served, Reading
<1>5. ASSUME call.quiet PROVE ReadSoFar(db, new)
  <2>1. Loading(db, call)
    BY <1>1, <1>5 DEF Good, ReadSoFar
  <2>2. Expanding(db, new)
    BY <1>1, <1>3, <2>1, LoadingEnds DEF near
  <2> QED
    BY <1>3, <2>2 DEF ReadSoFar
<1> QED
  BY <1>2, <1>3, <1>4, <1>5 DEF Good, Goes

LEMMA PackGoes ==
  ASSUME NEW c \in DOMAIN calls, Good(db, calls[c]), Readable(db), PackStep(c)
  PROVE  Goes(c)
<1> DEFINE call     == calls[c]
           expanded == PagesByUIDs(db, call.held, call.near \ Named(call.found))
           first    == Cardinality(call.found) + 1
<1>1. /\ Served(call) /\ call.req.tool = "context" /\ call.pc = "expand"
      /\ call.req.budget >= -1 /\ call.req.budget \in Int
  BY DEF Good, Served, Asked, PackStep, At, Reading
<1>2. PICK at \in Bijection(expanded, first..(first + Cardinality(expanded) - 1)) :
        LET all  == call.found \cup {Candidate(db, uid, 0, at[uid]) : uid \in expanded}
            kept == {d \in all : call.req.historical \/ ~d.historical}
        IN \E pages \in Packs(kept, Budget(call.req.budget)) :
             Step(c, Answered(call, Named(pages), Named(kept \ pages)))
  BY DEF PackStep
<1> DEFINE all  == call.found \cup Placed(db, expanded, at)
           kept == {d \in all : call.req.historical \/ ~d.historical}
<1>3. PICK pages \in Packs(kept, Budget(call.req.budget)) :
        Step(c, Answered(call, Named(pages), Named(kept \ pages)))
  BY <1>2 DEF Placed
<1>4. Placing(db, call, expanded, all)
  BY <1>2 DEF Placing, PagesByUIDs
<1> DEFINE new == Answered(call, Named(pages), Named(kept \ pages))
<1> HIDE DEF all, kept, expanded
<1>5. /\ new.held = call.held /\ new.req = call.req
      /\ new.pages = Named(pages) /\ new.aside = Named(kept \ pages)
  BY <1>1 DEF Answered, Served, ExactFields
<1> HIDE DEF new
<1>6. ASSUME call.quiet PROVE AnswerIsExact(db, new)
  <2>1. Expanding(db, call)
    BY <1>1, <1>6 DEF Good, ReadSoFar
  <2>2. kept = {d \in all : call.req.historical \/ ~d.historical}
    BY DEF kept
  <2>3. expanded = PagesByUIDs(db, call.held, call.near \ Named(call.found))
    BY DEF expanded
  <2>4. ContextIsExact(db, new)
    BY <1>1, <1>3, <1>4, <1>5, <2>1, <2>2, <2>3, ExpandingEnds
  <2> QED
    BY <1>1, <1>5, <2>4, AnswersByTool DEF ToolNames
<1> QED
  BY <1>3, <1>6, AnswerGoes DEF new, Step

\* Elsewhere a call knows nothing of the index.
LEMMA ElsewhereIsGood ==
  ASSUME NEW c \in DOMAIN calls, Good(db, calls[c]), NEW new,
         ExactFields \subseteq DOMAIN new, new.req = calls[c].req,
         \/ new.pc = "done"
         \/ new.pc = "write" /\ calls[c].pc = "read"
         \/ new.pc = "auth" /\ calls[c].pc = "gate" /\ new.hops = calls[c].hops
              /\ new.found = calls[c].found,
         calls' = [calls EXCEPT ![c] = new]
  PROVE  Goes(c)
<1>1. Served(new)
  BY DEF Good, Served, Reading
<1>2. ReadSoFar(db, new)
  BY DEF ReadSoFar
<1> QED
  BY <1>1, <1>2 DEF Good, Goes

LEMMA RestGoes ==
  ASSUME NEW c \in DOMAIN calls, Good(db, calls[c]),
         ReadStep(c) \/ WriteStep(c) \/ ReadFails(c) \/ AuditStep(c)
  PROVE  Goes(c)
<1> DEFINE call == calls[c]
<1>1. Served(call)
  BY DEF Good
<1>2. ASSUME Step(c, Failed(call, "error")) PROVE Goes(c)
  BY <1>2, FailureGoes DEF Step
<1>3. ASSUME ReadStep(c) PROVE Goes(c)
  <2>1. PICK page : \/ Step(c, Failed(call, "error"))
                    \/ Step(c, [call EXCEPT !.pc = "write", !.base = page, !.saw = page])
    BY <1>3 DEF ReadStep
  <2> DEFINE new == [call EXCEPT !.pc = "write", !.base = page, !.saw = page]
  <2>2. ExactFields \subseteq DOMAIN new /\ new.pc = "write" /\ new.req = call.req
    BY <1>1 DEF Served, ExactFields
  <2>3. call.pc = "read"
    BY <1>3 DEF ReadStep, At
  <2> HIDE DEF new
  <2>4. ASSUME Step(c, new) PROVE Goes(c)
    BY <2>2, <2>3, <2>4, ElsewhereIsGood DEF Step
  <2> QED
    BY <1>2, <2>1, <2>4 DEF new
<1>4. ASSUME WriteStep(c) PROVE Goes(c)
  <2>1. \/ calls' = [calls EXCEPT ![c] = Answered(call, {}, {})]
        \/ calls' = [calls EXCEPT ![c] = Failed(call, "error")]
    BY <1>4 DEF WriteStep
  <2> DEFINE new == Answered(call, {}, {})
  <2>2. call.req.tool = "remember" /\ new.req = call.req
    BY <1>1, <1>4 DEF WriteStep, At, Served, Answered
  <2> HIDE DEF new
  <2>3. AnswerIsExact(db, new)
    BY <2>2, AnswersByTool DEF ToolNames
  <2> QED
    BY <2>1, <2>3, AnswerGoes, FailureGoes DEF new
<1>5. ASSUME AuditStep(c) PROVE Goes(c)
  <2> DEFINE new == [call EXCEPT !.pc = "done"]
  <2>1. calls' = [calls EXCEPT ![c] = new]
    BY <1>5 DEF AuditStep
  <2>2. ExactFields \subseteq DOMAIN new /\ new.pc = "done" /\ new.req = call.req
    BY <1>1 DEF Served, ExactFields
  <2> HIDE DEF new
  <2> QED
    BY <2>1, <2>2, ElsewhereIsGood
<1> QED
  BY <1>2, <1>3, <1>4, <1>5 DEF ReadFails

LEMMA ToolsAreExact ==
  ASSUME ExactInv, Readable(db), NEW c, ToolStep(c)
  PROVE  ExactInv'
<1>1. c \in DOMAIN calls /\ db' = db
  BY DEF ToolStep, ListStep, PageStep, BackStep, HopStep, LexStep, TextsStep, VectorsStep,
    MetaStep, LoadStep, ExpandStep, PackStep, ReadStep, WriteStep, ReadFails, AuditStep, At,
    Step, Others, proposeVars
<1>2. Good(db, calls[c])
  BY <1>1 DEF ExactInv
<1>3. Goes(c)
  BY <1>1, <1>2, ListGoes, PageGoes, BackGoes, HopGoes, LexGoes, TextsGo, VectorsGo, MetaGoes,
    LoadGoes, ExpandGoes, PackGoes, RestGoes DEF ToolStep
<1> QED
  BY <1>1, <1>3, GoneOn

LEMMA SentAreExact ==
  ASSUME GateInv, ExactInv, NEW c, Send(c)
  PROVE  ExactInv'
<1>1. PICK req \in world.requests :
        calls' = [d \in DOMAIN calls \cup {c} |-> IF d = c THEN Fresh(req) ELSE calls[d]]
  BY DEF Send
<1>2. c \notin DOMAIN calls /\ db' = db
  BY DEF Send, Others, proposeVars
<1> DEFINE new == Fresh(req)
<1>3. Asked(req)
  BY WorldsAreSound DEF GateInv, Asked
<1>4. /\ ExactFields \subseteq DOMAIN new /\ new.req = req /\ new.pc \in {"gate", "auth"}
      /\ new.hops = 0 /\ new.found = {}
  BY DEF Fresh, ExactFields
<1> HIDE DEF new
<1>5. Good(db, new)
  BY <1>3, <1>4 DEF Good, Served, ReadSoFar, Reading
<1>6. DOMAIN calls' = DOMAIN calls \cup {c} /\ calls'[c] = new
        /\ \A d \in DOMAIN calls : calls'[d] = calls[d]
  BY <1>1, <1>2 DEF new
<1>7. ASSUME NEW d \in DOMAIN calls \cup {c} PROVE Good(db, calls'[d])
  BY <1>5, <1>6 DEF ExactInv
<1> QED
  BY <1>2, <1>6, <1>7 DEF ExactInv

LEMMA LetInAreExact ==
  ASSUME ExactInv, NEW c,
         TurnedAway(c) \/ GateLimits(c) \/ GateAdmits(c) \/ Authenticate(c)
  PROVE  ExactInv'
<1> DEFINE call == calls[c]
<1>1. c \in DOMAIN calls /\ call.pc \in {"gate", "auth"} /\ db' = db
  BY DEF TurnedAway, GateLimits, GateAdmits, Authenticate, At, Step, Others, proposeVars
<1>2. Good(db, call) /\ Served(call) /\ call.hops = 0 /\ call.found = {} /\ Asked(call.req)
  BY <1>1 DEF ExactInv, Good, Served
<1>3. ASSUME TurnedAway(c) \/ GateLimits(c) PROVE Goes(c)
  <2>1. PICK outcome : calls' = [calls EXCEPT ![c] = End(c, outcome)]
    BY <1>3 DEF TurnedAway, GateLimits, Step
  <2> DEFINE new == End(c, outcome)
  <2>2. ExactFields \subseteq DOMAIN new /\ new.pc = "done" /\ new.req = call.req
    BY <1>2 DEF Served, ExactFields, End
  <2> HIDE DEF new
  <2> QED
    BY <1>1, <1>2, <2>1, <2>2, ElsewhereIsGood DEF new
<1>4. ASSUME GateAdmits(c) PROVE Goes(c)
  <2> DEFINE new == [call EXCEPT !.pc = "auth"]
  <2>1. calls' = [calls EXCEPT ![c] = new] /\ call.pc = "gate"
    BY <1>4 DEF GateAdmits, At
  <2>2. /\ ExactFields \subseteq DOMAIN new /\ new.pc = "auth" /\ new.req = call.req
        /\ new.hops = call.hops /\ new.found = call.found
    BY <1>2 DEF Served, ExactFields
  <2> HIDE DEF new
  <2> QED
    BY <1>1, <1>2, <2>1, <2>2, ElsewhereIsGood
<1>5. ASSUME Authenticate(c) PROVE Goes(c)
  <2> DEFINE req   == call.req
             token == tokens[req.token]
             held  == IF req.scope = None THEN token.scopes ELSE {req.scope}
             path  == IF req.tool = "remember"
                      THEN RememberPath(req.scope, token.name, clock) ELSE None
             pc    == FirstStep(req.tool)
             moved == [call EXCEPT !.pc = pc, !.held = held, !.owned = Owned(db, held),
                                   !.path = path, !.at = clock % DayLength]
  <2>1. calls' = [calls EXCEPT ![c] = IF Refused(req, token)
                                      THEN Failed(call, "refused") ELSE moved]
    BY <1>5 DEF Authenticate
  <2>2. ASSUME Refused(req, token) PROVE Goes(c)
    BY <1>1, <1>2, <2>1, <2>2, FailureGoes
  <2>3. ASSUME ~Refused(req, token) PROVE Goes(c)
    <3>1. req.tool = "context" => req.budget >= -1
      BY <1>2, <2>3 DEF Refused, Asked
    <3>2. \/ req.tool = "pages" /\ pc = "list"
          \/ req.tool \in {"fetch", "related"} /\ pc = "page"
          \/ req.tool \in {"search", "context"} /\ pc = "search"
          \/ req.tool = "remember" /\ pc = "read"
      BY <1>2 DEF Asked, ToolNames, FirstStep
    <3> HIDE DEF held, path, pc, token
    <3>3. /\ ExactFields \subseteq DOMAIN moved /\ moved.pc = pc /\ moved.req = req
          /\ moved.hops = 0 /\ moved.found = {}
      BY <1>2 DEF Served, ExactFields
    <3>4. calls' = [calls EXCEPT ![c] = moved]
      BY <2>1, <2>3
    <3> HIDE DEF moved, req
    <3>5. Served(moved)
      BY <1>2, <3>1, <3>2, <3>3 DEF Served, Reading, req
    <3>6. ReadSoFar(db, moved)
      BY <3>2, <3>3 DEF ReadSoFar
    <3> QED
      BY <3>4, <3>5, <3>6 DEF Good, Goes
  <2> QED
    BY <2>2, <2>3
<1> QED
  BY <1>1, <1>3, <1>4, <1>5, GoneOn

\* A call that reads learns of a change of the index; the others have nothing of it.
LEMMA IndexKeepsExact ==
  ASSUME ExactInv, IndexStep
  PROVE  ExactInv'
<1>1. DOMAIN calls' = DOMAIN calls
  BY DEF IndexStep
<1>2. ASSUME NEW d \in DOMAIN calls PROVE Good(db', calls'[d])
  <2> DEFINE more == [calls[d] EXCEPT !.quiet = FALSE, !.owned = @ \cup Owned(db', calls[d].held)]
  <2>1. Served(calls[d])
    BY DEF ExactInv, Good
  <2>2. /\ DOMAIN more = DOMAIN calls[d] /\ more.quiet = FALSE
        /\ more.pc = calls[d].pc /\ more.req = calls[d].req
        /\ more.hops = calls[d].hops /\ more.found = calls[d].found
    BY <2>1 DEF Served, ExactFields
  <2>3. calls'[d] = IF calls[d].pc \in Reading \cup {"audit"} THEN more ELSE calls[d]
    BY DEF IndexStep
  <2> HIDE DEF more
  <2>4. ASSUME calls[d].pc \in Reading \cup {"audit"} PROVE Good(db', calls'[d])
    <3>1. Served(more)
      BY <2>1, <2>2 DEF Served
    <3> QED
      BY <2>2, <2>3, <2>4, <3>1 DEF Good
  <2>5. ASSUME calls[d].pc \notin Reading \cup {"audit"} PROVE Good(db', calls'[d])
    <3>1. ReadSoFar(db', calls[d])
      BY <2>5 DEF ReadSoFar, Reading
    <3> QED
      BY <2>1, <2>3, <2>5, <3>1 DEF Good
  <2> QED
    BY <2>4, <2>5
<1> QED
  BY <1>1, <1>2 DEF ExactInv

LEMMA ExactInvNext == GateInv /\ ServerReadable /\ ExactInv /\ [Next]_vars => ExactInv'
<1> SUFFICES ASSUME GateInv, ServerReadable, ExactInv, [Next]_vars PROVE ExactInv'
  OBVIOUS
<1>1. ASSUME NEW c,
             \/ Send(c) \/ TurnedAway(c) \/ GateLimits(c) \/ GateAdmits(c)
             \/ Authenticate(c) \/ ToolStep(c)
      PROVE  ExactInv'
  BY <1>1, SentAreExact, LetInAreExact, ToolsAreExact DEF ServerReadable
<1>2. CASE IndexStep
  BY <1>2, IndexKeepsExact
<1>3. ASSUME \/ \E key \in Keys : OtherRequest(key)
             \/ \E who : AgentChecked(who) \/ AgentInserted(who)
             \/ TokenCommand \/ Revoke \/ Proposing \/ TimePasses \/ UNCHANGED vars
      PROVE  UNCHANGED <<calls, db>>
  <2>1. ASSUME Proposing PROVE UNCHANGED <<calls, db>>
    BY <2>1 DEF Proposing, gateVars, StartRun, RunStep, LoadProposeState, ReadPending,
      PlaceBatch, WriteChange, CommitBatch, RunStops, OwnerActs, OwnerDecides
  <2> QED
    BY <1>3, <2>1 DEF OtherRequest, AgentChecked, AgentInserted, TokenCommand, Revoke,
      TimePasses, TokensOnly, proposeVars, gateVars, vars
<1>4. ASSUME UNCHANGED <<calls, db>> PROVE ExactInv'
  BY <1>4 DEF ExactInv
<1> QED
  BY <1>1, <1>2, <1>3, <1>4 DEF Next

\* context.go:114-308, related.go:108-163, pages.go:93-117, search.go: of any pages,
\* claims, links, vectors and requests, whatever reads of other calls and of the owner
\* come between those of one and however ties are broken, a call that is served while
\* the index stays as it was is told all that is within reach or as many pages as it
\* may be, fills its budget with whole pages and leaves none out that would fit.
THEOREM AnswersAreRight == ASSUME WorldsAreReadable PROVE Spec => []AnswersAreExact
<1>1. Init => ServerReadable /\ ExactInv
  <2> SUFFICES ASSUME Init PROVE ServerReadable /\ ExactInv
    OBVIOUS
  <2>1. world \in Worlds /\ db = world.db /\ script = world.script /\ calls = << >>
    BY DEF Init
  <2>2. Readable(db)
    BY <2>1, WorldsAreReadable DEF WorldsAreReadable
  <2>3. ToSet(script) \subseteq ReadableStatements
    <3> SUFFICES ASSUME NEW k \in DOMAIN script PROVE script[k] \in ReadableStatements
      BY DEF ToSet
    <3>1. script[k] \in Statements
      BY <2>1 DEF Statements, ToSet
    <3>2. ReadableStatement(script[k])
      BY <2>1, WorldsAreReadable DEF WorldsAreReadable
    <3> QED
      BY <3>1, <3>2 DEF ReadableStatements
  <2>4. script \in Seq(ReadableStatements)
    <3>1. script \in Seq(ToSet(script))
      BY <2>1, WorldsAreSound
    <3> HIDE DEF ToSet, ReadableStatements
    <3> QED
      BY <2>3, <3>1
  <2>5. ExactInv
    BY <2>1 DEF ExactInv
  <2> QED
    BY <2>2, <2>4, <2>5 DEF ServerReadable
<1>2. Spec => []ServerReadable
  BY <1>1, ServerReadableNext, PTL DEF Spec
<1>3. Spec => []ExactInv
  BY <1>1, <1>2, ExactInvNext, GateHolds, PTL DEF Spec
<1>4. ExactInv => AnswersAreExact
  BY DEF ExactInv, Good, ReadSoFar, AnswersAreExact
<1> QED
  BY <1>3, <1>4, PTL

===============================================================================
