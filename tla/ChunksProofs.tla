----------------------------- MODULE ChunksProofs -----------------------------
(* What the chunks of a body promise (Chunks, Hold), for every body and every  *)
(* limit.  Each fold of the cutting is climbed line by line, block by block    *)
(* and piece by piece: a fold over a sequence is the last of a row of values,  *)
(* each made of the one before (the ladders below), and what is known of one   *)
(* value is known of the next.  Sections, blocks, pieces and chunks then each  *)
(* get a lemma of their own: what they keep of the words, where a listing is   *)
(* and what may be over the limit.                                             *)
EXTENDS Chunks, FiniteSetTheorems, SequenceTheorems, WellFoundedInduction, TLAPS

------------------------------------------------------------------------------
(* Numbers and folds. *)

\* The smallest of some numbers.
LEMMA Least ==
  ASSUME NEW T \in SUBSET Nat, T # {}
  PROVE  \E m \in T : \A k \in T : m <= k
<1> DEFINE Below == {p \in Nat \X Nat : p[1] < p[2]}
<1>1. IsWellFoundedOn(Below, Nat)
  <2>1. Below = OpToRel(<, Nat)
    BY DEF OpToRel
  <2> QED
    BY <2>1, NatLessThanWellFounded
<1>2. PICK m \in T : \A k \in T : ~(<<k, m>> \in Below)
  BY <1>1, WFMin
<1>3. ASSUME NEW k \in T PROVE m <= k
  <2>1. <<k, m>> \in Nat \X Nat
    OBVIOUS
  <2>2. ~(k < m)
    BY <1>2, <2>1
  <2> QED
    BY <2>2
<1> QED
  BY <1>3

\* Induction, the set of numbers with the property in hand.
LEMMA Climb ==
  ASSUME NEW n \in Nat, NEW T, 0 \in T, \A k \in 0 .. n - 1 : k \in T => k + 1 \in T
  PROVE  \A k \in 0 .. n : k \in T
<1> SUFFICES ASSUME \E k \in 0 .. n : k \notin T PROVE FALSE
  OBVIOUS
<1> DEFINE Missing == {k \in 0 .. n : k \notin T}
<1>1. Missing \in SUBSET Nat /\ Missing # {}
  OBVIOUS
<1>2. PICK m \in Missing : \A k \in Missing : m <= k
  BY <1>1, Least
<1>3. m \in 1 .. n /\ m - 1 \notin Missing
  BY <1>2
<1> QED
  BY <1>2, <1>3

\* What holds of the first value and is handed on holds of all.
LEMMA Stays ==
  ASSUME NEW n \in Nat, NEW U, NEW g, g[0] \in U, \A k \in 1 .. n : g[k - 1] \in U => g[k] \in U
  PROVE  \A k \in 0 .. n : g[k] \in U
<1> DEFINE T == {k \in 0 .. n : g[k] \in U}
<1>1. 0 \in T
  OBVIOUS
<1>2. ASSUME NEW k \in 0 .. n - 1, k \in T PROVE k + 1 \in T
  <2>1. k + 1 \in 1 .. n /\ (k + 1) - 1 = k
    OBVIOUS
  <2> QED
    BY <1>2, <2>1
<1>3. \A k \in 0 .. n : k \in T
  <2> HIDE DEF T
  <2> QED
    BY <1>1, <1>2, Climb
<1> QED
  BY <1>3

\* The largest of some numbers, which the fold takes next.
LEMMA TopIs ==
  ASSUME NEW s \in SUBSET Nat, NEW k \in s, \A y \in s : k >= y
  PROVE  Max(s) = k
<1> DEFINE Top(x) == x \in s /\ \A y \in s : x >= y
<1>1. \E x : Top(x)
  OBVIOUS
<1>2. Max(s) = CHOOSE x : Top(x)
  BY DEF Max
<1>3. Top(Max(s))
  BY <1>1, <1>2
<1>4. Max(s) \in Nat /\ Max(s) >= k /\ k >= Max(s)
  BY <1>3
<1> QED
  BY <1>4

\* ... and that there is one.
LEMMA TopIn ==
  ASSUME NEW n \in Nat, NEW s \in SUBSET (1 .. n), s # {}
  PROVE  Max(s) \in s
<1> DEFINE U == {m \in 0 .. n : \E y \in s : n - m <= y}
<1>1. U \in SUBSET Nat
  OBVIOUS
<1>3. U # {}
  <2>1. PICK y \in s : TRUE
    OBVIOUS
  <2>2. n - y \in U
    BY <2>1
  <2> QED
    BY <2>2
<1>4. PICK m \in U : \A k \in U : m <= k
  BY <1>1, <1>3, Least
<1>5. PICK x \in s : n - m <= x
  BY <1>4
<1>6. ASSUME NEW y \in s PROVE x >= y
  <2>1. n - y \in U
    OBVIOUS
  <2>2. m <= n - y
    BY <1>4, <2>1
  <2> QED
    BY <1>5, <2>2
<1> QED
  BY <1>5, <1>6, TopIs

\* ... of the numbers from 1.
LEMMA RunTo ==
  ASSUME NEW n \in Nat, NEW k \in 1 .. n
  PROVE  /\ 1 .. k \in SUBSET (1 .. n) /\ 1 .. k # {}
         /\ Max(1 .. k) = k /\ (1 .. k) \ {k} = 1 .. k - 1
<1>1. Max(1 .. k) = k
  BY TopIs
<1> QED
  BY <1>1

\* A fold over the numbers to n, as the table the library keeps of it.
IsTable(h, base, F, n) ==
  \A s \in SUBSET (1 .. n) :
    h[s] = IF s = {} THEN base ELSE F[Max(s)][h[s \ {Max(s)}]]

HasTable(U, base, F, n) == \E h \in [SUBSET (1 .. n) -> U] : IsTable(h, base, F, n)

\* There is such a table, for every step function.
LEMMA TableIs ==
  ASSUME NEW U, NEW base \in U, NEW n \in Nat, NEW F \in [1 .. n -> [U -> U]]
  PROVE  HasTable(U, base, F, n)
<1> DEFINE T == {m \in 0 .. n : HasTable(U, base, F, m)}
<1>1. 0 \in T
  <2> DEFINE h == [s \in SUBSET (1 .. 0) |-> base]
  <2>1. h \in [SUBSET (1 .. 0) -> U]
    OBVIOUS
  <2>2. IsTable(h, base, F, 0)
    BY DEF IsTable
  <2>3. HasTable(U, base, F, 0)
    <3> HIDE DEF h
    <3> QED
      BY <2>1, <2>2 DEF HasTable
  <2> QED
    BY <2>3
<1>2. ASSUME NEW k \in 0 .. n - 1, k \in T PROVE k + 1 \in T
  <2>1. PICK h \in [SUBSET (1 .. k) -> U] : IsTable(h, base, F, k)
    BY <1>2 DEF HasTable
  <2> DEFINE new == [s \in SUBSET (1 .. k + 1) |->
                       IF k + 1 \in s THEN F[k + 1][h[s \ {k + 1}]] ELSE h[s]]
  <2>2. new \in [SUBSET (1 .. k + 1) -> U]
    <3>1. ASSUME NEW s \in SUBSET (1 .. k + 1)
          PROVE  (IF k + 1 \in s THEN F[k + 1][h[s \ {k + 1}]] ELSE h[s]) \in U
      <4>1. s \ {k + 1} \in SUBSET (1 .. k)
        OBVIOUS
      <4>2. k + 1 \in 1 .. n
        OBVIOUS
      <4>3. h[s \ {k + 1}] \in U
        BY <4>1
      <4>4. F[k + 1][h[s \ {k + 1}]] \in U
        BY <4>2, <4>3
      <4>5. k + 1 \notin s => s \in SUBSET (1 .. k)
        OBVIOUS
      <4> QED
        BY <4>4, <4>5
    <3> QED
      BY <3>1
  <2>3. ASSUME NEW s \in SUBSET (1 .. k + 1)
        PROVE  new[s] = IF s = {} THEN base ELSE F[Max(s)][new[s \ {Max(s)}]]
    <3>1. CASE k + 1 \in s
      <4>1. s \ {k + 1} \in SUBSET (1 .. k + 1) /\ k + 1 \notin s \ {k + 1}
        OBVIOUS
      <4>2. Max(s) = k + 1
        BY <3>1, TopIs
      <4>3. new[s \ {k + 1}] = h[s \ {k + 1}]
        BY <4>1
      <4>4. new[s] = F[k + 1][h[s \ {k + 1}]]
        BY <3>1
      <4> QED
        BY <3>1, <4>2, <4>3, <4>4
    <3>2. CASE k + 1 \notin s
      <4>1. s \in SUBSET (1 .. k)
        BY <3>2
      <4>2. h[s] = IF s = {} THEN base ELSE F[Max(s)][h[s \ {Max(s)}]]
        BY <2>1, <4>1 DEF IsTable
      <4>3. new[s] = h[s]
        BY <3>2
      <4>4. s \ {Max(s)} \in SUBSET (1 .. k + 1) /\ k + 1 \notin s \ {Max(s)}
        BY <3>2
      <4>5. new[s \ {Max(s)}] = h[s \ {Max(s)}]
        BY <4>4
      <4> QED
        BY <4>2, <4>3, <4>5
    <3> QED
      BY <3>1, <3>2
  <2>4. IsTable(new, base, F, k + 1)
    BY <2>3 DEF IsTable
  <2> HIDE DEF new
  <2>5. HasTable(U, base, F, k + 1)
    BY <2>2, <2>4 DEF HasTable
  <2> QED
    BY <2>5
<1>3. n \in T
  <2>1. \A k \in 0 .. n : k \in T
    <3> HIDE DEF T
    <3> QED
      BY <1>1, <1>2, Climb
  <2> QED
    BY <2>1
<1> QED
  BY <1>3

\* Texts joined are a text.
LEMMA JoinType == << >> \in Texts /\ \A s, t \in Texts : s \o t \in Texts
BY ConcatProperties DEF Texts

\* Words, part by part.
LEMMA WordsLadder ==
  ASSUME NEW seq, NEW n \in Nat, DOMAIN seq = 1 .. n, \A k \in 1 .. n : seq[k].words \in Texts
  PROVE  \E g : /\ \A k \in 0 .. n : g[k] \in Texts
                /\ g[0] = << >>
                /\ \A k \in 1 .. n : g[k] = g[k - 1] \o seq[k].words
                /\ WordsOf(seq) = g[n]
<1> DEFINE F == [k \in 1 .. n |-> [x \in Texts |-> x \o seq[k].words]]
           Is(h) == h = [s \in SUBSET (1 .. n) |->
                           IF s = {} THEN << >>
                           ELSE h[s \ {Max(s)}] \o seq[Max(s)].words]
<1>1. << >> \in Texts /\ F \in [1 .. n -> [Texts -> Texts]]
  BY JoinType
<1>2. PICK t \in [SUBSET (1 .. n) -> Texts] : IsTable(t, << >>, F, n)
  <2> HIDE DEF F
  <2> QED
    BY <1>1, TableIs DEF HasTable
<1>3. Is(t)
  <2>1. ASSUME NEW s \in SUBSET (1 .. n), s # {}
        PROVE  F[Max(s)][t[s \ {Max(s)}]] = t[s \ {Max(s)}] \o seq[Max(s)].words
    BY <2>1, TopIn
  <2> HIDE DEF F
  <2> QED
    BY <1>2, <2>1 DEF IsTable
<1> DEFINE iter == CHOOSE h : Is(h)
<1>4. Is(iter)
  BY <1>3
<1>5. WordsOf(seq) = iter[1 .. n]
  BY DEF WordsOf, FoldLeft, MapThenFoldSet
<1> HIDE DEF iter
<1> DEFINE g == [k \in 0 .. n |-> iter[1 .. k]]
<1>6. ASSUME NEW k \in 1 .. n PROVE iter[1 .. k] = iter[1 .. k - 1] \o seq[k].words
  <2>1. /\ 1 .. k \in SUBSET (1 .. n) /\ 1 .. k # {}
        /\ Max(1 .. k) = k /\ (1 .. k) \ {k} = 1 .. k - 1
    BY RunTo
  <2> QED
    BY <1>4, <2>1
<1>7. g[0] = << >>
  BY <1>4
<1>8. ASSUME NEW k \in 1 .. n PROVE g[k] = g[k - 1] \o seq[k].words
  <2>1. g[k] = iter[1 .. k] /\ g[k - 1] = iter[1 .. k - 1]
    OBVIOUS
  <2> QED
    BY <1>6, <2>1
<1>9. WordsOf(seq) = g[n]
  BY <1>5
<1>10. \A k \in 0 .. n : g[k] \in Texts
  <2> HIDE DEF g
  <2>1. ASSUME NEW k \in 1 .. n, g[k - 1] \in Texts PROVE g[k] \in Texts
    BY <1>8, <2>1, JoinType
  <2> HIDE DEF F
  <2> QED
    BY <1>1, <1>7, <2>1, Stays
<1> HIDE DEF g
<1> QED
  BY <1>7, <1>8, <1>9, <1>10

------------------------------------------------------------------------------
(* What the cutting works on. *)

Pieces == [words : Texts]

Parts == [words : Texts, atomic : BOOLEAN]

Cuts == [path : Seq(Texts), lines : Seq(Lines)]

Sectioned ==
  [fence : BOOLEAN, stack : Seq(Texts), done : Seq(Cuts) \ {<< >>}]

Scanned == [blocks : Seq(Parts), current : Seq(Lines), fence : BOOLEAN, table : BOOLEAN]

Packed == [done : Seq(Pieces), current : Texts]

NoSections ==
  [fence |-> FALSE, stack |-> << >>, done |-> <<[path |-> << >>, lines |-> << >>]>>]

NoBlocks == [blocks |-> << >>, current |-> << >>, fence |-> FALSE, table |-> FALSE]

\* Where the sections begin.
LEMMA NoSectionsType == NoSections \in Sectioned
BY DEF Cuts, NoSections, Sectioned

\* Sections stay sections.
LEMMA AddLineType ==
  ASSUME NEW acc \in Sectioned, NEW line \in Lines
  PROVE  AddLine(acc, line) \in Sectioned
<1> DEFINE fence == IF line.kind = "fence" THEN ~ acc.fence ELSE acc.fence
           level == Level(line)
           above == IF level > 0 /\ level - 2 < Len(acc.stack)
                    THEN SubSeq(acc.stack, 1, level - 2) ELSE acc.stack
           stack == Append(above, line.words)
           last  == Len(acc.done)
<1>1. level \in {0, 2, 3} /\ fence \in BOOLEAN /\ line.words \in Texts
  BY DEF Level, Lines, Sectioned
<1>2. acc.stack \in Seq(Texts) /\ acc.done \in Seq(Cuts) /\ acc.done # << >>
  BY DEF Sectioned, Texts
<1>3. stack \in Seq(Texts)
  <2>1. above \in Seq(Texts)
    BY <1>1, <1>2
  <2> QED
    BY <1>1, <2>1
<1>4. last \in 1 .. Len(acc.done)
  BY <1>2
<1>5. CASE ~ fence /\ level > 0
  <2>1. Append(acc.done, [path |-> stack, lines |-> << >>]) \in Seq(Cuts) \ {<< >>}
    <3>1. [path |-> stack, lines |-> << >>] \in Cuts
      <4> HIDE DEF stack
      <4> QED
        BY <1>3 DEF Cuts
    <3> QED
      BY <1>2, <3>1, AppendProperties
  <2>2. AddLine(acc, line)
        = [fence |-> fence, stack |-> stack,
           done  |-> Append(acc.done, [path |-> stack, lines |-> << >>])]
    BY <1>5 DEF AddLine
  <2> HIDE DEF stack, fence
  <2> QED
    BY <1>1, <1>3, <2>1, <2>2 DEF Sectioned, Texts
<1>6. CASE ~ (~ fence /\ level > 0)
  <2> DEFINE more == [acc.done EXCEPT ![last].lines = Append(@, line)]
  <2>1. AddLine(acc, line) = [acc EXCEPT !.fence = fence, !.done = more]
    BY <1>6 DEF AddLine, Sectioned
  <2>2. acc.done[last] \in Cuts
    <3> HIDE DEF last
    <3> QED
      BY <1>2, <1>4, ElementOfSeq
  <2>3. [acc.done[last] EXCEPT !.lines = Append(@, line)] \in Cuts
    BY <2>2, AppendProperties DEF Cuts
  <2>4. more \in Seq(Cuts) /\ Len(more) = Len(acc.done)
    <3>1. more = [acc.done EXCEPT ![last] = [acc.done[last] EXCEPT !.lines = Append(@, line)]]
      BY <1>2, <1>4
    <3> HIDE DEF more, last
    <3> QED
      BY <1>2, <1>4, <2>3, <3>1, ExceptSeq
  <2>5. more # << >>
    BY <1>2, <1>4, <2>4
  <2> HIDE DEF more, fence
  <2> QED
    BY <1>1, <2>1, <2>4, <2>5 DEF Sectioned
<1> QED
  BY <1>5, <1>6

\* Where the blocks begin.
LEMMA NoBlocksType == NoBlocks \in Scanned
BY DEF NoBlocks, Scanned

\* The words of lines are a text.
LEMMA LinesHaveWords ==
  ASSUME NEW lines \in Seq(Lines)
  PROVE  WordsOf(lines) \in Texts
<1> DEFINE n == Len(lines)
<1>1. n \in Nat /\ DOMAIN lines = 1 .. n /\ \A k \in 1 .. n : lines[k].words \in Texts
  BY DEF Lines
<1> HIDE DEF n
<1>2. PICK g : (\A k \in 0 .. n : g[k] \in Texts) /\ WordsOf(lines) = g[n]
  BY <1>1, WordsLadder, ZenonT(30)
<1> QED
  BY <1>1, <1>2

\* Blocks stay blocks when one is ended,
LEMMA FlushedType ==
  ASSUME NEW acc \in Scanned
  PROVE  Flushed(acc) \in Scanned
<1>1. WordsOf(acc.current) \in Texts
  BY LinesHaveWords DEF Scanned
<1>2. [words |-> WordsOf(acc.current), atomic |-> acc.fence \/ acc.table] \in Parts
  BY <1>1 DEF Scanned, Parts
<1> DEFINE more == IF WordsOf(acc.current) = << >> THEN acc.blocks
                   ELSE Append(acc.blocks, [words  |-> WordsOf(acc.current),
                                            atomic |-> acc.fence \/ acc.table])
<1>3. more \in Seq(Parts)
  BY <1>2, AppendProperties DEF Scanned
<1>4. Flushed(acc) = [acc EXCEPT !.current = << >>, !.blocks = more]
  BY DEF Flushed
<1> HIDE DEF more
<1>5. << >> \in Seq(Lines)
  OBVIOUS
<1> QED
  BY <1>3, <1>4, <1>5 DEF Scanned

\* ... and at every line.
LEMMA ScanType ==
  ASSUME NEW acc \in Scanned, NEW line \in Lines
  PROVE  Scan(acc, line) \in Scanned
<1>1. ASSUME NEW x \in Scanned PROVE Kept(x, line) \in Scanned /\ Toggled(x) \in Scanned
  <2>1. Append(x.current, line) \in Seq(Lines)
    BY AppendProperties DEF Scanned
  <2> QED
    BY <2>1 DEF Kept, Toggled, Scanned
<1>2. \A isRow \in BOOLEAN : Turned(acc, isRow) \in Scanned
  BY FlushedType DEF Turned, Scanned
<1> QED
  BY <1>1, <1>2, FlushedType DEF Scan

\* Chunks stay chunks.
LEMMA PutType ==
  ASSUME NEW acc \in Packed, NEW piece \in Pieces
  PROVE  Put(acc, piece) \in Packed
<1>1. acc.current \o piece.words \in Texts
  BY ConcatProperties DEF Packed, Pieces, Texts
<1>2. Append(acc.done, [words |-> acc.current]) \in Seq(Pieces)
  BY AppendProperties DEF Packed, Pieces
<1>3. piece.words \in Texts
  BY DEF Pieces
<1> QED
  BY <1>1, <1>2, <1>3 DEF Put, Packed

\* Sections, line by line.
LEMMA SectionsLadder ==
  ASSUME NEW n \in Nat, NEW seq \in [1 .. n -> Lines]
  PROVE  \E g : /\ \A k \in 0 .. n : g[k] \in Sectioned
                /\ g[0] = NoSections
                /\ \A k \in 1 .. n : g[k] = AddLine(g[k - 1], seq[k])
                /\ FoldLeft(AddLine, NoSections, seq) = g[n]
<1> DEFINE F == [k \in 1 .. n |-> [x \in Sectioned |-> AddLine(x, seq[k])]]
           Is(h) == h = [s \in SUBSET (1 .. n) |->
                           IF s = {} THEN NoSections
                           ELSE AddLine(h[s \ {Max(s)}], seq[Max(s)])]
<1>1. NoSections \in Sectioned /\ F \in [1 .. n -> [Sectioned -> Sectioned]]
  BY NoSectionsType, AddLineType
<1>2. PICK t \in [SUBSET (1 .. n) -> Sectioned] : IsTable(t, NoSections, F, n)
  <2> HIDE DEF F
  <2> QED
    BY <1>1, TableIs DEF HasTable
<1>3. Is(t)
  <2>1. ASSUME NEW s \in SUBSET (1 .. n), s # {}
        PROVE  F[Max(s)][t[s \ {Max(s)}]] = AddLine(t[s \ {Max(s)}], seq[Max(s)])
    BY <2>1, TopIn
  <2> HIDE DEF F
  <2> QED
    BY <1>2, <2>1 DEF IsTable
<1> DEFINE iter == CHOOSE h : Is(h)
<1>4. Is(iter)
  BY <1>3
<1>5. FoldLeft(AddLine, NoSections, seq) = iter[1 .. n]
  BY DEF FoldLeft, MapThenFoldSet
<1> HIDE DEF iter
<1> DEFINE g == [k \in 0 .. n |-> iter[1 .. k]]
<1>6. ASSUME NEW k \in 1 .. n PROVE iter[1 .. k] = AddLine(iter[1 .. k - 1], seq[k])
  <2>1. /\ 1 .. k \in SUBSET (1 .. n) /\ 1 .. k # {}
        /\ Max(1 .. k) = k /\ (1 .. k) \ {k} = 1 .. k - 1
    BY RunTo
  <2> QED
    BY <1>4, <2>1
<1>7. g[0] = NoSections
  BY <1>4
<1>8. ASSUME NEW k \in 1 .. n PROVE g[k] = AddLine(g[k - 1], seq[k])
  <2>1. g[k] = iter[1 .. k] /\ g[k - 1] = iter[1 .. k - 1]
    OBVIOUS
  <2> QED
    BY <1>6, <2>1
<1>9. FoldLeft(AddLine, NoSections, seq) = g[n]
  BY <1>5
<1>10. \A k \in 0 .. n : g[k] \in Sectioned
  <2> HIDE DEF g
  <2>1. ASSUME NEW k \in 1 .. n, g[k - 1] \in Sectioned PROVE g[k] \in Sectioned
    BY <1>8, <2>1, AddLineType
  <2> HIDE DEF F
  <2> QED
    BY <1>1, <1>7, <2>1, Stays
<1> HIDE DEF g
<1> QED
  BY <1>7, <1>8, <1>9, <1>10

\* Blocks, line by line.
LEMMA BlocksLadder ==
  ASSUME NEW n \in Nat, NEW seq \in [1 .. n -> Lines]
  PROVE  \E g : /\ \A k \in 0 .. n : g[k] \in Scanned
                /\ g[0] = NoBlocks
                /\ \A k \in 1 .. n : g[k] = Scan(g[k - 1], seq[k])
                /\ FoldLeft(Scan, NoBlocks, seq) = g[n]
<1> DEFINE F == [k \in 1 .. n |-> [x \in Scanned |-> Scan(x, seq[k])]]
           Is(h) == h = [s \in SUBSET (1 .. n) |->
                           IF s = {} THEN NoBlocks
                           ELSE Scan(h[s \ {Max(s)}], seq[Max(s)])]
<1>1. NoBlocks \in Scanned /\ F \in [1 .. n -> [Scanned -> Scanned]]
  BY NoBlocksType, ScanType
<1>2. PICK t \in [SUBSET (1 .. n) -> Scanned] : IsTable(t, NoBlocks, F, n)
  <2> HIDE DEF F
  <2> QED
    BY <1>1, TableIs DEF HasTable
<1>3. Is(t)
  <2>1. ASSUME NEW s \in SUBSET (1 .. n), s # {}
        PROVE  F[Max(s)][t[s \ {Max(s)}]] = Scan(t[s \ {Max(s)}], seq[Max(s)])
    BY <2>1, TopIn
  <2> HIDE DEF F
  <2> QED
    BY <1>2, <2>1 DEF IsTable
<1> DEFINE iter == CHOOSE h : Is(h)
<1>4. Is(iter)
  BY <1>3
<1>5. FoldLeft(Scan, NoBlocks, seq) = iter[1 .. n]
  BY DEF FoldLeft, MapThenFoldSet
<1> HIDE DEF iter
<1> DEFINE g == [k \in 0 .. n |-> iter[1 .. k]]
<1>6. ASSUME NEW k \in 1 .. n PROVE iter[1 .. k] = Scan(iter[1 .. k - 1], seq[k])
  <2>1. /\ 1 .. k \in SUBSET (1 .. n) /\ 1 .. k # {}
        /\ Max(1 .. k) = k /\ (1 .. k) \ {k} = 1 .. k - 1
    BY RunTo
  <2> QED
    BY <1>4, <2>1
<1>7. g[0] = NoBlocks
  BY <1>4
<1>8. ASSUME NEW k \in 1 .. n PROVE g[k] = Scan(g[k - 1], seq[k])
  <2>1. g[k] = iter[1 .. k] /\ g[k - 1] = iter[1 .. k - 1]
    OBVIOUS
  <2> QED
    BY <1>6, <2>1
<1>9. FoldLeft(Scan, NoBlocks, seq) = g[n]
  BY <1>5
<1>10. \A k \in 0 .. n : g[k] \in Scanned
  <2> HIDE DEF g
  <2>1. ASSUME NEW k \in 1 .. n, g[k - 1] \in Scanned PROVE g[k] \in Scanned
    BY <1>8, <2>1, ScanType
  <2> HIDE DEF F
  <2> QED
    BY <1>1, <1>7, <2>1, Stays
<1> HIDE DEF g
<1> QED
  BY <1>7, <1>8, <1>9, <1>10

\* Pieces, one after the other.
LEMMA PutLadder ==
  ASSUME NEW n \in Nat, NEW seq \in [1 .. n -> Pieces], NEW acc \in Packed
  PROVE  \E g : /\ \A k \in 0 .. n : g[k] \in Packed
                /\ g[0] = acc
                /\ \A k \in 1 .. n : g[k] = Put(g[k - 1], seq[k])
                /\ FoldLeft(Put, acc, seq) = g[n]
<1> DEFINE F == [k \in 1 .. n |-> [x \in Packed |-> Put(x, seq[k])]]
           Is(h) == h = [s \in SUBSET (1 .. n) |->
                           IF s = {} THEN acc
                           ELSE Put(h[s \ {Max(s)}], seq[Max(s)])]
<1>1. acc \in Packed /\ F \in [1 .. n -> [Packed -> Packed]]
  BY PutType
<1>2. PICK t \in [SUBSET (1 .. n) -> Packed] : IsTable(t, acc, F, n)
  <2> HIDE DEF F
  <2> QED
    BY <1>1, TableIs DEF HasTable
<1>3. Is(t)
  <2>1. ASSUME NEW s \in SUBSET (1 .. n), s # {}
        PROVE  F[Max(s)][t[s \ {Max(s)}]] = Put(t[s \ {Max(s)}], seq[Max(s)])
    BY <2>1, TopIn
  <2> HIDE DEF F
  <2> QED
    BY <1>2, <2>1 DEF IsTable
<1> DEFINE iter == CHOOSE h : Is(h)
<1>4. Is(iter)
  BY <1>3
<1>5. FoldLeft(Put, acc, seq) = iter[1 .. n]
  BY DEF FoldLeft, MapThenFoldSet
<1> HIDE DEF iter
<1> DEFINE g == [k \in 0 .. n |-> iter[1 .. k]]
<1>6. ASSUME NEW k \in 1 .. n PROVE iter[1 .. k] = Put(iter[1 .. k - 1], seq[k])
  <2>1. /\ 1 .. k \in SUBSET (1 .. n) /\ 1 .. k # {}
        /\ Max(1 .. k) = k /\ (1 .. k) \ {k} = 1 .. k - 1
    BY RunTo
  <2> QED
    BY <1>4, <2>1
<1>7. g[0] = acc
  BY <1>4
<1>8. ASSUME NEW k \in 1 .. n PROVE g[k] = Put(g[k - 1], seq[k])
  <2>1. g[k] = iter[1 .. k] /\ g[k - 1] = iter[1 .. k - 1]
    OBVIOUS
  <2> QED
    BY <1>6, <2>1
<1>9. FoldLeft(Put, acc, seq) = g[n]
  BY <1>5
<1>10. \A k \in 0 .. n : g[k] \in Packed
  <2> HIDE DEF g
  <2>1. ASSUME NEW k \in 1 .. n, g[k - 1] \in Packed PROVE g[k] \in Packed
    BY <1>8, <2>1, PutType
  <2> HIDE DEF F
  <2> QED
    BY <1>1, <1>7, <2>1, Stays
<1> HIDE DEF g
<1> QED
  BY <1>7, <1>8, <1>9, <1>10
------------------------------------------------------------------------------
(* Texts. *)

\* Joining in either order.
LEMMA JoinAssociates ==
  \A s, t, u \in Texts : (s \o t) \o u = s \o (t \o u)
BY ConcatAssociative, SMTT(30) DEF Texts

\* Joining nothing.
LEMMA JoinNone == \A s \in Texts : s \o << >> = s /\ << >> \o s = s
BY ConcatEmptySeq DEF Texts

\* Lengths add up.
LEMMA JoinLength ==
  \A s, t \in Texts : Len(s) \in Nat /\ Len(s \o t) = Len(s) + Len(t)
BY ConcatProperties DEF Texts

\* No words, no length.
LEMMA LengthIsNone == \A s \in Texts : s = << >> <=> Len(s) = 0
BY DEF Texts

Worded(S) == \A part \in S : part.words \in Texts

\* Lines, blocks and pieces have words.
LEMMA AllWorded == Worded(Lines) /\ Worded(Parts) /\ Worded(Pieces)
BY DEF Worded, Lines, Parts, Pieces

\* The words of one part after the other.
LEMMA WordsLadderOf ==
  ASSUME NEW S, Worded(S), NEW s \in Seq(S)
  PROVE  /\ WordsOf(s) \in Texts
         /\ \E g : /\ \A k \in 0 .. Len(s) : g[k] \in Texts
                   /\ g[0] = << >>
                   /\ \A k \in 1 .. Len(s) : g[k] = g[k - 1] \o s[k].words
                   /\ WordsOf(s) = g[Len(s)]
<1> DEFINE n == Len(s)
<1>1. n \in Nat /\ DOMAIN s = 1 .. n
  OBVIOUS
<1>2. \A k \in 1 .. n : s[k].words \in Texts
  BY DEF Worded
<1> HIDE DEF n
<1>3. \E g : /\ \A k \in 0 .. n : g[k] \in Texts
             /\ g[0] = << >>
             /\ \A k \in 1 .. n : g[k] = g[k - 1] \o s[k].words
             /\ WordsOf(s) = g[n]
  BY <1>1, <1>2, WordsLadder
<1>4. WordsOf(s) \in Texts
  BY <1>1, <1>3
<1> QED
  BY <1>3, <1>4 DEF n

\* The words of no parts,
LEMMA WordsOfNone == WordsOf(<< >>) = << >>
<1>1. Worded({}) /\ << >> \in Seq({}) /\ Len(<< >>) = 0
  BY DEF Worded
<1>2. PICK g : g[0] = << >> /\ WordsOf(<< >>) = g[Len(<< >>)]
  BY <1>1, WordsLadderOf
<1> QED
  BY <1>1, <1>2

\* ... of parts joined,
LEMMA WordsJoin ==
  ASSUME NEW S, Worded(S), NEW s \in Seq(S), NEW t \in Seq(S)
  PROVE  WordsOf(s \o t) = WordsOf(s) \o WordsOf(t)
<1> DEFINE m == Len(s)
           n == Len(t)
<1>1. m \in Nat /\ n \in Nat /\ s \o t \in Seq(S) /\ Len(s \o t) = m + n
  OBVIOUS
<1>2. PICK f : /\ \A k \in 0 .. m : f[k] \in Texts
               /\ f[0] = << >>
               /\ \A k \in 1 .. m : f[k] = f[k - 1] \o s[k].words
               /\ WordsOf(s) = f[m]
  BY WordsLadderOf
<1>3. PICK g : /\ \A k \in 0 .. n : g[k] \in Texts
               /\ g[0] = << >>
               /\ \A k \in 1 .. n : g[k] = g[k - 1] \o t[k].words
               /\ WordsOf(t) = g[n]
  BY WordsLadderOf
<1>4. PICK h : /\ \A k \in 0 .. m + n : h[k] \in Texts
               /\ h[0] = << >>
               /\ \A k \in 1 .. m + n : h[k] = h[k - 1] \o (s \o t)[k].words
               /\ WordsOf(s \o t) = h[m + n]
  BY <1>1, WordsLadderOf
<1>5. \A k \in 1 .. m : (s \o t)[k] = s[k]
  BY ConcatProperties
<1>6. \A k \in 1 .. n : (s \o t)[m + k] = t[k] /\ t[k].words \in Texts
  BY ConcatProperties DEF Worded
<1> HIDE DEF m, n
<1>7. \A k \in 0 .. m : h[k] = f[k]
  <2> DEFINE T == {k \in 0 .. m : h[k] = f[k]}
  <2>1. 0 \in T
    BY <1>1, <1>2, <1>4
  <2>2. ASSUME NEW k \in 0 .. m - 1, k \in T PROVE k + 1 \in T
    <3>1. k + 1 \in 1 .. m /\ k + 1 \in 1 .. m + n /\ (k + 1) - 1 = k
      BY <1>1
    <3>2. f[k + 1] = f[k] \o s[k + 1].words
      BY <1>2, <3>1
    <3>3. h[k + 1] = h[k] \o s[k + 1].words
      BY <1>4, <1>5, <3>1
    <3>4. h[k] = f[k] /\ k + 1 \in 0 .. m
      BY <1>1, <2>2
    <3>5. h[k + 1] = f[k + 1]
      BY <3>2, <3>3, <3>4
    <3> QED
      BY <3>4, <3>5
  <2>3. \A k \in 0 .. m : k \in T
    <3> HIDE DEF T
    <3> QED
      BY <1>1, <2>1, <2>2, Climb
  <2> QED
    BY <2>3
<1>8. \A k \in 0 .. n : h[m + k] = f[m] \o g[k]
  <2> DEFINE T == {k \in 0 .. n : h[m + k] = f[m] \o g[k]}
  <2>1. 0 \in T
    <3>1. m + 0 = m /\ m \in 0 .. m /\ 0 \in 0 .. n
      BY <1>1
    <3>2. h[m] = f[m] /\ f[m] \in Texts
      BY <1>2, <1>7, <3>1
    <3> QED
      BY <1>3, <3>1, <3>2, JoinNone
  <2>2. ASSUME NEW k \in 0 .. n - 1, k \in T PROVE k + 1 \in T
    <3>1. /\ k + 1 \in 1 .. n /\ k \in 0 .. n /\ k + 1 \in 0 .. n /\ m \in 0 .. m
          /\ m + (k + 1) \in 1 .. m + n /\ (k + 1) - 1 = k /\ (m + (k + 1)) - 1 = m + k
      BY <1>1
    <3>2. g[k + 1] = g[k] \o t[k + 1].words /\ g[k] \in Texts /\ t[k + 1].words \in Texts
      BY <1>3, <1>6, <3>1
    <3>3. h[m + (k + 1)] = h[m + k] \o t[k + 1].words
      BY <1>4, <1>6, <3>1
    <3>4. h[m + k] = f[m] \o g[k] /\ f[m] \in Texts
      BY <1>2, <2>2, <3>1
    <3>5. (f[m] \o g[k]) \o t[k + 1].words = f[m] \o (g[k] \o t[k + 1].words)
      BY <3>2, <3>4, JoinAssociates
    <3>6. h[m + (k + 1)] = f[m] \o g[k + 1]
      BY <3>2, <3>3, <3>4, <3>5
    <3> QED
      BY <3>1, <3>6
  <2>3. \A k \in 0 .. n : k \in T
    <3> HIDE DEF T
    <3> QED
      BY <1>1, <2>1, <2>2, Climb
  <2> QED
    BY <2>3
<1>9. n \in 0 .. n
  BY <1>1
<1> QED
  BY <1>2, <1>3, <1>4, <1>8, <1>9

\* ... of one part,
LEMMA WordsOfOne ==
  ASSUME NEW S, Worded(S), NEW part \in S
  PROVE  WordsOf(<<part>>) = part.words
<1>1. <<part>> \in Seq(S) /\ Len(<<part>>) = 1 /\ <<part>>[1] = part
  OBVIOUS
<1>2. PICK g : /\ g[0] = << >>
               /\ \A k \in 1 .. 1 : g[k] = g[k - 1] \o <<part>>[k].words
               /\ WordsOf(<<part>>) = g[1]
  BY <1>1, WordsLadderOf
<1>3. g[1] = g[0] \o part.words
  <2>1. 1 \in 1 .. 1 /\ 1 - 1 = 0
    OBVIOUS
  <2>2. g[1] = g[1 - 1] \o <<part>>[1].words
    BY <1>2, <2>1
  <2> QED
    BY <1>1, <2>1, <2>2
<1> QED
  BY <1>2, <1>3, JoinNone DEF Worded

\* ... and of one part more.
LEMMA WordsAppend ==
  ASSUME NEW S, Worded(S), NEW s \in Seq(S), NEW part \in S
  PROVE  WordsOf(Append(s, part)) = WordsOf(s) \o part.words
<1>1. Append(s, part) = s \o <<part>> /\ <<part>> \in Seq(S)
  BY AppendIsConcat
<1> QED
  BY <1>1, WordsJoin, WordsOfOne

\* The words of some parts, cut in two.
LEMMA WordsSplit ==
  ASSUME NEW S, Worded(S), NEW s \in Seq(S), NEW a \in 1 .. Len(s) + 1,
         NEW b \in a - 1 .. Len(s), NEW c \in b .. Len(s)
  PROVE  /\ SubSeq(s, a, b) \in Seq(S) /\ SubSeq(s, b + 1, c) \in Seq(S)
         /\ WordsOf(SubSeq(s, a, c)) = WordsOf(SubSeq(s, a, b)) \o WordsOf(SubSeq(s, b + 1, c))
<1>1. SubSeq(s, a, b) \in Seq(S)
  BY SubSeqProperties
<1>2. SubSeq(s, b + 1, c) \in Seq(S)
  BY SubSeqProperties
<1>3. SubSeq(s, a, b) \o SubSeq(s, b + 1, c) = SubSeq(s, a, c)
  BY ConcatAdjacentSubSeq
<1> QED
  BY <1>1, <1>2, <1>3, WordsJoin

\* One text within another, by what is before and after it.
Within(part, text) == \E x, y \in Texts : text = (x \o part) \o y

\* A text is within itself,
LEMMA WithinSelf == \A s \in Texts : Within(s, s)
BY JoinNone, JoinType DEF Within

\* Joining, as an operation of which only the laws are used.
Join(s, t) == s \o t

\* Its laws.
LEMMA JoinLaws ==
  /\ \A s, t \in Texts : Join(s, t) \in Texts
  /\ \A s, t, u \in Texts : Join(Join(s, t), u) = Join(s, Join(t, u))
BY JoinType, JoinAssociates DEF Join

\* ... and within a longer one.
LEMMA WithinJoin ==
  ASSUME NEW p \in Texts, NEW q \in Texts, NEW x \in Texts, NEW y \in Texts, Within(p, q)
  PROVE  Within(p, (x \o q) \o y)
<1>1. PICK u, v \in Texts : q = Join(Join(u, p), v)
  BY DEF Within, Join
<1>2. Join(x, u) \in Texts /\ Join(u, p) \in Texts /\ Join(v, y) \in Texts
  BY JoinLaws
<1>3. Join(x, Join(Join(u, p), v)) = Join(Join(x, Join(u, p)), v)
  BY <1>2, JoinLaws
<1>4. Join(x, Join(u, p)) = Join(Join(x, u), p)
  BY JoinLaws
<1>5. Join(Join(x, Join(u, p)), v) = Join(Join(Join(x, u), p), v)
  BY <1>4
<1>6. Join(Join(Join(x, u), p), v) \in Texts /\ Join(Join(x, u), p) \in Texts
  BY <1>2, JoinLaws
<1>7. Join(Join(Join(Join(x, u), p), v), y) = Join(Join(Join(x, u), p), Join(v, y))
  BY <1>6, JoinLaws
<1>8. Join(Join(x, q), y) = Join(Join(Join(x, u), p), Join(v, y))
  BY <1>1, <1>3, <1>5, <1>7
<1> QED
  BY <1>2, <1>8 DEF Within, Join

\* A part of a part is a part.
LEMMA WithinWithin ==
  ASSUME NEW p \in Texts, NEW q \in Texts, NEW r \in Texts, Within(p, q), Within(q, r)
  PROVE  Within(p, r)
<1>1. PICK x, y \in Texts : r = (x \o q) \o y
  BY DEF Within
<1>2. Within(p, (x \o q) \o y)
  BY WithinJoin
<1> QED
  BY <1>1, <1>2

\* Nothing but the empty text is within it.
LEMMA NoneWithin ==
  ASSUME NEW p \in Texts, NEW t \in Texts, t = << >>, Within(p, t)
  PROVE  p = << >>
<1>1. PICK x, y \in Texts : t = (x \o p) \o y
  BY DEF Within
<1>2. Len(t) = Len(x \o p) + Len(y) /\ Len(x \o p) = Len(x) + Len(p)
      /\ Len(x) \in Nat /\ Len(p) \in Nat /\ Len(y) \in Nat
  BY <1>1, JoinType, JoinLength
<1>3. Len(t) = 0
  OBVIOUS
<1> QED
  BY <1>2, <1>3, LengthIsNone

\* What has a text before and after it is found.
LEMMA WithinIsFound ==
  ASSUME NEW p \in Texts, NEW t \in Texts, Within(p, t)
  PROVE  IsFound(p, t)
<1>1. PICK x, y \in Texts : t = (x \o p) \o y
  BY DEF Within
<1> DEFINE i == Len(x)
           m == Len(p)
<1>2. /\ i \in Nat /\ m \in Nat /\ Len(y) \in Nat /\ Len(x \o p) = i + m
      /\ x \o p \in Texts /\ Len(t) = (i + m) + Len(y)
  BY <1>1, JoinLength, JoinType
<1>3. \A k \in 1 .. m : t[i + k] = p[k]
  <2>1. ASSUME NEW k \in 1 .. m PROVE t[i + k] = p[k]
    <3>1. i + k \in 1 .. i + m /\ i + k > i /\ (i + k) - i = k
      BY <1>2
    <3>2. (x \o p)[i + k] = p[k]
      BY <1>2, <3>1, ConcatProperties DEF Texts
    <3>3. ((x \o p) \o y)[i + k] = (x \o p)[i + k]
      BY <1>2, <3>1, ConcatProperties DEF Texts
    <3> QED
      BY <1>1, <3>2, <3>3
  <2> QED
    BY <2>1
<1>4. SubSeq(t, i + 1, i + m) = p
  <2> HIDE DEF i, m
  <2>1. \A k \in i + 1 .. i + m : t[k] \in Nat
    BY <1>2 DEF Texts
  <2>2. /\ SubSeq(t, i + 1, i + m) \in Seq(Nat)
        /\ Len(SubSeq(t, i + 1, i + m)) = IF i + 1 <= i + m THEN (i + m) - (i + 1) + 1 ELSE 0
        /\ \A k \in 1 .. (i + m) - (i + 1) + 1 :
             SubSeq(t, i + 1, i + m)[k] = t[(i + 1) + k - 1]
    BY <1>2, <2>1, SubSeqProperties
  <2>3. Len(SubSeq(t, i + 1, i + m)) = m
    BY <1>2, <2>2
  <2>4. ASSUME NEW k \in 1 .. m PROVE SubSeq(t, i + 1, i + m)[k] = p[k]
    <3>1. k \in 1 .. (i + m) - (i + 1) + 1 /\ (i + 1) + k - 1 = i + k
      BY <1>2
    <3> QED
      BY <1>3, <2>2, <3>1
  <2> QED
    BY <2>2, <2>3, <2>4, SeqEqual DEF Texts, m
<1>5. i \in 0 .. Len(t) - Len(p)
  BY <1>2
<1> HIDE DEF i
<1> QED
  BY <1>4, <1>5 DEF IsFound
------------------------------------------------------------------------------
(* Listings. *)

\* A body starts outside a listing.
LEMMA InsideStarts ==
  ASSUME NEW body
  PROVE  Inside(body, 1) = FALSE
<1>1. {j \in 1 .. 1 - 1 : body[j].kind = "fence"} = {}
  OBVIOUS
<1>2. FencesBefore(body, 1) = 0
  BY <1>1, FS_EmptySet DEF FencesBefore
<1> QED
  BY <1>2 DEF Inside

\* A fence opens a listing or closes one.
LEMMA InsideNext ==
  ASSUME NEW body, NEW k \in Nat \ {0}
  PROVE  Inside(body, k + 1) = IF body[k].kind = "fence" THEN ~ Inside(body, k) ELSE Inside(body, k)
<1> DEFINE F == {j \in 1 .. k - 1 : body[j].kind = "fence"}
           G == {j \in 1 .. (k + 1) - 1 : body[j].kind = "fence"}
<1>1. IsFiniteSet(F) /\ Cardinality(F) \in Nat
  <2>1. IsFiniteSet(1 .. k - 1) /\ F \in SUBSET (1 .. k - 1)
    BY FS_Interval
  <2> QED
    BY <2>1, FS_Subset, FS_CardinalityType
<1>2. k \notin F
  OBVIOUS
<1>3. G = IF body[k].kind = "fence" THEN F \cup {k} ELSE F
  OBVIOUS
<1>4. FencesBefore(body, k) = Cardinality(F) /\ FencesBefore(body, k + 1) = Cardinality(G)
  BY DEF FencesBefore
<1> HIDE DEF F, G
<1>5. Cardinality(F \cup {k}) = Cardinality(F) + 1
  BY <1>1, <1>2, FS_AddElement
<1> DEFINE c == Cardinality(F)
<1>6. c \in Nat /\ ((c + 1) % 2 = 1 <=> ~ (c % 2 = 1))
  BY <1>1
<1>7. FencesBefore(body, k) = c
      /\ FencesBefore(body, k + 1) = IF body[k].kind = "fence" THEN c + 1 ELSE c
  BY <1>3, <1>4, <1>5
<1> HIDE DEF c
<1> QED
  BY <1>6, <1>7 DEF Inside

\* The lines from a to b of a body, a outside a listing.
IsCut(body, lines, a, b) ==
  /\ a \in 1 .. Len(body) + 1 /\ b \in a - 1 .. Len(body)
  /\ lines = SubSeq(body, a, b)
  /\ ~ Inside(body, a)

\* The lines of a cut are lines of the body.
LEMMA LinesOfCut ==
  ASSUME NEW body \in Seq(Lines), NEW lines, NEW a, NEW b, IsCut(body, lines, a, b)
  PROVE  /\ lines \in Seq(Lines)
         /\ Len(lines) \in Nat /\ Len(lines) = b - a + 1
         /\ \A k \in 1 .. Len(lines) : lines[k] = body[a + k - 1] /\ a + k - 1 \in 1 .. Len(body)
<1>1. a \in Int /\ b \in Int /\ a >= 1 /\ b >= a - 1 /\ b <= Len(body) /\ Len(body) \in Nat
  BY DEF IsCut
<1>2. \A i \in a .. b : body[i] \in Lines
  <2>1. ASSUME NEW i \in a .. b PROVE body[i] \in Lines
    <3>1. i \in 1 .. Len(body)
      BY <1>1
    <3> QED
      BY <3>1, ElementOfSeq
  <2> QED
    BY <2>1
<1>3. /\ SubSeq(body, a, b) \in Seq(Lines)
      /\ Len(SubSeq(body, a, b)) = IF a <= b THEN b - a + 1 ELSE 0
      /\ \A i \in 1 .. b - a + 1 : SubSeq(body, a, b)[i] = body[a + i - 1]
  BY <1>1, <1>2, SubSeqProperties
<1>4. Len(lines) = b - a + 1
  BY <1>1, <1>3 DEF IsCut
<1> QED
  BY <1>1, <1>3, <1>4 DEF IsCut

\* Listings in a cut are those of the body.
LEMMA InsideOfCut ==
  ASSUME NEW body \in Seq(Lines), NEW lines, NEW a, NEW b, IsCut(body, lines, a, b),
         NEW k \in 0 .. Len(lines)
  PROVE  Inside(lines, k + 1) = Inside(body, a + k)
<1> DEFINE n == Len(lines)
           T == {m \in 0 .. n : Inside(lines, m + 1) = Inside(body, a + m)}
<1>1. n \in Nat /\ a \in Nat \ {0} /\ ~ Inside(body, a)
  BY LinesOfCut DEF IsCut
<1>2. 0 \in T
  <2>1. 0 + 1 = 1 /\ a + 0 = a /\ 0 \in 0 .. n
    BY <1>1
  <2>2. Inside(lines, 1) = FALSE
    BY InsideStarts
  <2>3. Inside(body, a) = FALSE
    BY <1>1 DEF Inside
  <2> QED
    BY <2>1, <2>2, <2>3
<1>3. ASSUME NEW m \in 0 .. n - 1, m \in T PROVE m + 1 \in T
  <2>1. /\ m + 1 \in Nat \ {0} /\ m + 1 \in 1 .. n /\ m + 1 \in 0 .. n
        /\ a + (m + 1) = (a + m) + 1 /\ a + m \in Nat \ {0} /\ a + (m + 1) - 1 = a + m
    BY <1>1
  <2>2. lines[m + 1] = body[a + m]
    BY <2>1, LinesOfCut
  <2>3. Inside(lines, (m + 1) + 1) = IF lines[m + 1].kind = "fence"
                                     THEN ~ Inside(lines, m + 1) ELSE Inside(lines, m + 1)
    BY <2>1, InsideNext
  <2>4. Inside(body, (a + m) + 1) = IF body[a + m].kind = "fence"
                                    THEN ~ Inside(body, a + m) ELSE Inside(body, a + m)
    BY <2>1, InsideNext
  <2>5. Inside(lines, m + 1) = Inside(body, a + m)
    BY <1>3
  <2>6. Inside(lines, (m + 1) + 1) = Inside(body, a + (m + 1))
    BY <2>1, <2>2, <2>3, <2>4, <2>5
  <2> QED
    BY <2>1, <2>6
<1>4. \A m \in 0 .. n : m \in T
  <2> HIDE DEF n, T
  <2> QED
    BY <1>1, <1>2, <1>3, Climb
<1> QED
  BY <1>4

\* The listing opened at i is still open after line k.
IsOpen(body, i, k) ==
  /\ body[i].kind = "fence" /\ ~ Inside(body, i)
  /\ \A j \in i + 1 .. k : body[j].kind # "fence"

\* After an open fence a line is inside,
LEMMA OpenIsInside ==
  ASSUME NEW body, NEW n \in Nat, NEW i \in 1 .. n, IsOpen(body, i, n)
  PROVE  Inside(body, n + 1) = TRUE
<1> DEFINE T == {k \in 0 .. n - i : Inside(body, i + k + 1) = TRUE}
<1>1. Inside(body, i + 1) = TRUE
  <2>1. i \in Nat \ {0}
    OBVIOUS
  <2> QED
    BY <2>1, InsideNext DEF IsOpen, Inside
<1>2. 0 \in T
  <2>1. i + 0 + 1 = i + 1 /\ 0 \in 0 .. n - i
    OBVIOUS
  <2> QED
    BY <1>1, <2>1
<1>3. ASSUME NEW k \in 0 .. n - i - 1, k \in T PROVE k + 1 \in T
  <2>1. /\ i + k + 1 \in Nat \ {0} /\ i + k + 1 \in i + 1 .. n /\ k + 1 \in 0 .. n - i
        /\ i + (k + 1) + 1 = (i + k + 1) + 1
    OBVIOUS
  <2>2. body[i + k + 1].kind # "fence"
    BY <2>1 DEF IsOpen
  <2>3. Inside(body, (i + k + 1) + 1) = Inside(body, i + k + 1)
    BY <2>1, <2>2, InsideNext
  <2> QED
    BY <1>3, <2>1, <2>3
<1>4. \A k \in 0 .. n - i : k \in T
  <2>1. n - i \in Nat
    OBVIOUS
  <2> HIDE DEF T
  <2> QED
    BY <2>1, <1>2, <1>3, Climb
<1>5. n - i \in 0 .. n - i /\ i + (n - i) + 1 = n + 1
  OBVIOUS
<1> QED
  BY <1>4, <1>5

\* ... and a line inside is after an open fence.
LEMMA InsideIsOpen ==
  ASSUME NEW body, NEW n \in Nat, Inside(body, n + 1)
  PROVE  \E i \in 1 .. n : IsOpen(body, i, n)
<1> DEFINE Opened(k) == \E i \in 1 .. k : IsOpen(body, i, k)
           T == {k \in 0 .. n : Inside(body, k + 1) => Opened(k)}
<1>1. 0 \in T
  <2>1. 0 + 1 = 1 /\ 0 \in 0 .. n
    OBVIOUS
  <2>2. ~ Inside(body, 0 + 1)
    BY <2>1, InsideStarts
  <2> QED
    BY <2>1, <2>2
<1>2. ASSUME NEW k \in 0 .. n - 1, k \in T PROVE k + 1 \in T
  <2>1. k + 1 \in Nat \ {0} /\ k + 1 \in 0 .. n
    OBVIOUS
  <2>2. Inside(body, (k + 1) + 1) = IF body[k + 1].kind = "fence"
                                    THEN ~ Inside(body, k + 1) ELSE Inside(body, k + 1)
    BY <2>1, InsideNext
  <2>3. ASSUME Inside(body, (k + 1) + 1) PROVE Opened(k + 1)
    <3>1. CASE body[k + 1].kind = "fence"
      <4>0. ~ Inside(body, k + 1)
        BY <2>2, <2>3, <3>1
      <4>1. IsOpen(body, k + 1, k + 1) /\ k + 1 \in 1 .. k + 1
        BY <3>1, <4>0 DEF IsOpen
      <4> QED
        BY <4>1
    <3>2. CASE body[k + 1].kind # "fence"
      <4>1. PICK i \in 1 .. k : IsOpen(body, i, k)
        BY <1>2, <2>2, <2>3, <3>2
      <4>2. IsOpen(body, i, k + 1) /\ i \in 1 .. k + 1
        BY <3>2, <4>1 DEF IsOpen
      <4> QED
        BY <4>2
    <3> QED
      BY <3>1, <3>2
  <2> QED
    BY <2>1, <2>3
<1>3. \A k \in 0 .. n : k \in T
  <2> HIDE DEF T
  <2> QED
    BY <1>1, <1>2, Climb
<1> QED
  BY <1>3

\* A listing is open until its second fence.
LEMMA ListingIsOpen ==
  ASSUME NEW body, NEW i \in Nat, NEW j \in Nat, IsListing(body, i, j + 1)
  PROVE  IsOpen(body, i, j)
<1>1. (j + 1) - 1 = j
  OBVIOUS
<1> QED
  BY <1>1 DEF IsListing, IsOpen

\* What is open was open a line before.
LEMMA OpenBefore ==
  ASSUME NEW body, NEW k \in Nat, NEW i \in 1 .. k, IsOpen(body, i, k + 1)
  PROVE  IsOpen(body, i, k)
BY DEF IsOpen
------------------------------------------------------------------------------
(* Packing. *)

\* Within the limit, or one of the texts that are whole.
Small(text, whole) == Len(text) <= MaxChunkTokens \/ text \in whole

Neat(acc, whole) ==
  /\ \A k \in 1 .. Len(acc.done) : Small(acc.done[k].words, whole)
  /\ Small(acc.current, whole)

Held(part, acc) ==
  \/ \E k \in 1 .. Len(acc.done) : Within(part, acc.done[k].words)
  \/ Within(part, acc.current)

TextOf(acc) == WordsOf(acc.done) \o acc.current

\* Part of one text is part of it and another joined.
LEMMA WithinEither ==
  ASSUME NEW p \in Texts, NEW x \in Texts, NEW y \in Texts
  PROVE  /\ Within(p, x) => Within(p, x \o y)
         /\ Within(p, y) => Within(p, x \o y)
<1>1. << >> \in Texts
  BY JoinType
<1>2. ASSUME Within(p, x) PROVE Within(p, x \o y)
  <2>1. Within(p, (<< >> \o x) \o y)
    BY <1>1, <1>2, WithinJoin
  <2>2. << >> \o x = x
    BY JoinNone
  <2> QED
    BY <2>1, <2>2
<1>3. ASSUME Within(p, y) PROVE Within(p, x \o y)
  <2>1. Within(p, (x \o y) \o << >>)
    BY <1>1, <1>3, WithinJoin
  <2>2. (x \o y) \o << >> = x \o y
    BY JoinNone, JoinType
  <2> QED
    BY <2>1, <2>2
<1> QED
  BY <1>2, <1>3

\* A piece goes into a chunk, and what was there stays.
LEMMA PutStep ==
  ASSUME NEW whole, NEW acc \in Packed, NEW piece \in Pieces,
         Neat(acc, whole), Small(piece.words, whole)
  PROVE  LET new == Put(acc, piece)
         IN /\ new \in Packed
            /\ TextOf(new) = TextOf(acc) \o piece.words
            /\ Neat(new, whole)
            /\ Held(piece.words, new)
            /\ \A p \in Texts : Held(p, acc) => Held(p, new)
<1> DEFINE new == Put(acc, piece)
           w == piece.words
           c == acc.current
           d == acc.done
           full == c # << >> /\ Len(c) + Len(w) > MaxChunkTokens
<1>1. new \in Packed
  BY PutType
<1>2. w \in Texts /\ c \in Texts /\ d \in Seq(Pieces)
  BY DEF Pieces, Packed
<1>3. WordsOf(d) \in Texts
  BY <1>2, AllWorded, WordsLadderOf
<1>4. CASE full
  <2> DEFINE last == [words |-> c]
  <2>1. new.done = Append(d, last) /\ new.current = w
    BY <1>4 DEF Put
  <2>2. last \in Pieces /\ last.words = c
    BY <1>2 DEF Pieces
  <2> HIDE DEF last, new
  <2>3. WordsOf(new.done) = WordsOf(d) \o c
    BY <1>2, <2>1, <2>2, AllWorded, WordsAppend
  <2>4. TextOf(new) = TextOf(acc) \o w
    BY <2>1, <2>3 DEF TextOf
  <2>5. /\ Len(new.done) = Len(d) + 1 /\ Len(d) \in Nat
        /\ \A k \in 1 .. Len(d) : new.done[k] = d[k]
        /\ new.done[Len(d) + 1] = last
    BY <1>2, <2>1, <2>2, AppendProperties
  <2>6. Neat(new, whole)
    <3>1. ASSUME NEW k \in 1 .. Len(new.done) PROVE Small(new.done[k].words, whole)
      <4>1. CASE k = Len(d) + 1
        BY <2>2, <2>5, <4>1 DEF Neat
      <4>2. CASE k # Len(d) + 1
        <5>1. k \in 1 .. Len(d)
          BY <2>5, <4>2
        <5> QED
          BY <2>5, <5>1 DEF Neat
      <4> QED
        BY <4>1, <4>2
    <3> QED
      BY <2>1, <3>1 DEF Neat
  <2>7. Held(w, new)
    BY <1>2, <2>1, WithinSelf DEF Held
  <2>8. ASSUME NEW p \in Texts, Held(p, acc) PROVE Held(p, new)
    <3>1. Len(d) + 1 \in 1 .. Len(new.done)
      BY <2>5
    <3>2. ASSUME NEW k \in 1 .. Len(d), Within(p, d[k].words) PROVE Held(p, new)
      <4>1. k \in 1 .. Len(new.done)
        BY <2>5
      <4> QED
        BY <2>5, <3>2, <4>1 DEF Held
    <3>3. ASSUME Within(p, c) PROVE Held(p, new)
      BY <2>2, <2>5, <3>1, <3>3 DEF Held
    <3> QED
      BY <2>8, <3>2, <3>3 DEF Held
  <2> QED
    BY <1>1, <2>4, <2>6, <2>7, <2>8 DEF new
<1>5. CASE ~ full
  <2>1. new.done = d /\ new.current = c \o w
    BY <1>5 DEF Put, Packed
  <2> HIDE DEF new
  <2>2. TextOf(new) = TextOf(acc) \o w
    <3>1. WordsOf(d) \o (c \o w) = (WordsOf(d) \o c) \o w
      <4> HIDE DEF c, d, w
      <4> QED
        BY <1>2, <1>3, JoinAssociates
    <3> QED
      BY <2>1, <3>1 DEF TextOf
  <2>3. Neat(new, whole)
    <3>1. CASE c = << >>
      <4>1. c \o w = w
        BY <1>2, <3>1, JoinNone
      <4> QED
        BY <2>1, <4>1 DEF Neat
    <3>2. CASE c # << >>
      <4>1. Len(c \o w) = Len(c) + Len(w) /\ Len(c) \in Nat /\ Len(w) \in Nat
        BY <1>2, JoinLength
      <4>2. Len(c \o w) <= MaxChunkTokens
        <5>1. ~ (Len(c) + Len(w) > MaxChunkTokens)
          BY <1>5, <3>2
        <5> HIDE DEF c, w
        <5> QED
          BY <4>1, <5>1, LimitIsPositive
      <4>3. Small(new.current, whole)
        BY <2>1, <4>2 DEF Small
      <4> QED
        BY <2>1, <4>3 DEF Neat
    <3> QED
      BY <3>1, <3>2
  <2>4. Held(w, new)
    BY <1>2, <2>1, WithinSelf, WithinEither DEF Held
  <2>5. ASSUME NEW p \in Texts, Held(p, acc) PROVE Held(p, new)
    <3>1. Within(p, c) => Within(p, c \o w)
      BY <1>2, WithinEither
    <3> QED
      BY <2>1, <2>5, <3>1 DEF Held
  <2> QED
    BY <1>1, <2>2, <2>3, <2>4, <2>5 DEF new
<1> QED
  BY <1>4, <1>5

\* The same of any number of pieces.
LEMMA PutMany ==
  ASSUME NEW whole, NEW acc \in Packed, NEW pieces \in Seq(Pieces), Neat(acc, whole),
         \A k \in 1 .. Len(pieces) : Small(pieces[k].words, whole)
  PROVE  LET new == FoldLeft(Put, acc, pieces)
         IN /\ new \in Packed
            /\ TextOf(new) = TextOf(acc) \o WordsOf(pieces)
            /\ Neat(new, whole)
            /\ \A k \in 1 .. Len(pieces) : Held(pieces[k].words, new)
            /\ \A p \in Texts : Held(p, acc) => Held(p, new)
<1> DEFINE n == Len(pieces)
           new == FoldLeft(Put, acc, pieces)
<1>1. n \in Nat /\ pieces \in [1 .. n -> Pieces]
  OBVIOUS
<1> HIDE DEF n
<1>2. PICK g : /\ \A k \in 0 .. n : g[k] \in Packed
               /\ g[0] = acc
               /\ \A k \in 1 .. n : g[k] = Put(g[k - 1], pieces[k])
               /\ new = g[n]
  BY <1>1, PutLadder
<1>3. PICK t : /\ \A k \in 0 .. n : t[k] \in Texts
               /\ t[0] = << >>
               /\ \A k \in 1 .. n : t[k] = t[k - 1] \o pieces[k].words
               /\ WordsOf(pieces) = t[n]
  BY AllWorded, WordsLadderOf DEF n
<1> HIDE DEF new
<1>4. TextOf(acc) \in Texts
  <2>1. acc.done \in Seq(Pieces) /\ acc.current \in Texts
    BY DEF Packed
  <2>2. WordsOf(acc.done) \in Texts
    BY <2>1, AllWorded, WordsLadderOf
  <2> QED
    BY <2>1, <2>2, JoinType DEF TextOf
<1> DEFINE Goes(k) ==
             /\ TextOf(g[k]) = TextOf(acc) \o t[k]
             /\ Neat(g[k], whole)
             /\ \A m \in 1 .. k : Held(pieces[m].words, g[k])
             /\ \A p \in Texts : Held(p, acc) => Held(p, g[k])
           T == {k \in 0 .. n : Goes(k)}
<1>5. 0 \in T
  <2>1. TextOf(acc) \o << >> = TextOf(acc)
    BY <1>4, JoinNone
  <2>2. 0 \in 0 .. n
    BY <1>1
  <2>3. Goes(0)
    <3>1. TextOf(g[0]) = TextOf(acc) \o t[0]
      BY <1>2, <1>3, <2>1
    <3> QED
      BY <1>2, <3>1
  <2> QED
    BY <2>2, <2>3
<1>6. ASSUME NEW k \in 0 .. n - 1, k \in T PROVE k + 1 \in T
  <2>1. k + 1 \in 1 .. n /\ k + 1 \in 0 .. n /\ k \in 0 .. n /\ (k + 1) - 1 = k
    BY <1>1
  <2>2. Goes(k)
    BY <1>6
  <2> DEFINE piece == pieces[k + 1]
  <2>3. piece \in Pieces /\ g[k] \in Packed /\ Small(piece.words, whole)
    BY <1>1, <1>2, <2>1 DEF n
  <2>4. g[k + 1] = Put(g[k], piece)
    BY <1>2, <2>1
  <2>5. t[k + 1] = t[k] \o piece.words /\ t[k] \in Texts
    BY <1>3, <2>1
  <2>6. piece.words \in Texts /\ \A m \in 1 .. k : pieces[m].words \in Texts
    <3>1. \A m \in 1 .. k : pieces[m] \in Pieces
      BY <1>1, <2>1
    <3> QED
      BY <2>3, <3>1 DEF Pieces
  <2> HIDE DEF piece
  <2>7. /\ TextOf(g[k + 1]) = TextOf(g[k]) \o piece.words
        /\ Neat(g[k + 1], whole)
        /\ Held(piece.words, g[k + 1])
        /\ \A p \in Texts : Held(p, g[k]) => Held(p, g[k + 1])
    BY <2>2, <2>3, <2>4, PutStep
  <2>8. TextOf(g[k + 1]) = TextOf(acc) \o t[k + 1]
    <3>1. (TextOf(acc) \o t[k]) \o piece.words = TextOf(acc) \o (t[k] \o piece.words)
      BY <1>4, <2>5, <2>6, JoinAssociates
    <3> QED
      BY <2>2, <2>5, <2>7, <3>1
  <2>9. \A m \in 1 .. k + 1 : Held(pieces[m].words, g[k + 1])
    <3>1. ASSUME NEW m \in 1 .. k + 1 PROVE Held(pieces[m].words, g[k + 1])
      <4>1. CASE m = k + 1
        BY <2>7, <4>1 DEF piece
      <4>2. CASE m # k + 1
        <5>1. m \in 1 .. k
          BY <4>2
        <5> QED
          BY <2>2, <2>6, <2>7, <5>1
      <4> QED
        BY <4>1, <4>2
    <3> QED
      BY <3>1
  <2>10. \A p \in Texts : Held(p, acc) => Held(p, g[k + 1])
    BY <2>2, <2>7
  <2> QED
    BY <2>1, <2>7, <2>8, <2>9, <2>10
<1>7. \A k \in 0 .. n : k \in T
  <2> HIDE DEF T
  <2> QED
    BY <1>1, <1>5, <1>6, Climb
<1>8. Goes(n) /\ new \in Packed
  BY <1>1, <1>2, <1>7
<1> QED
  BY <1>2, <1>3, <1>8 DEF n, new

\* Packing begins with nothing.
LEMMA NothingIsPacked ==
  /\ Nothing \in Packed /\ TextOf(Nothing) = << >>
  /\ \A whole : Neat(Nothing, whole)
<1>1. Nothing \in Packed
  BY JoinType DEF Nothing, Packed
<1>2. TextOf(Nothing) = << >>
  BY WordsOfNone, JoinNone, JoinType DEF TextOf, Nothing
<1>3. ASSUME NEW whole PROVE Neat(Nothing, whole)
  <2>1. Len(<< >>) = 0
    OBVIOUS
  <2> QED
    BY <2>1, LimitIsPositive DEF Neat, Nothing, Small
<1> QED
  BY <1>1, <1>2, <1>3

\* What is packed, when the last chunk is done.
LEMMA ClosedIs ==
  ASSUME NEW whole, NEW acc \in Packed, Neat(acc, whole)
  PROVE  LET chunks == Closed(acc)
         IN /\ chunks \in Seq(Pieces)
            /\ WordsOf(chunks) = TextOf(acc)
            /\ \A k \in 1 .. Len(chunks) : Small(chunks[k].words, whole)
            /\ \A p \in Texts : Held(p, acc) =>
                 p = << >> \/ \E k \in 1 .. Len(chunks) : Within(p, chunks[k].words)
<1> DEFINE chunks == Closed(acc)
           c == acc.current
           d == acc.done
<1>1. c \in Texts /\ d \in Seq(Pieces)
  BY DEF Packed
<1>2. WordsOf(d) \in Texts
  BY <1>1, AllWorded, WordsLadderOf
<1>3. CASE c = << >>
  <2>1. chunks = d
    BY <1>3 DEF Closed
  <2>2. TextOf(acc) = WordsOf(d)
    BY <1>2, <1>3, JoinNone DEF TextOf
  <2>3. ASSUME NEW p \in Texts, Within(p, c) PROVE p = << >>
    BY <1>1, <1>3, <2>3, NoneWithin
  <2> HIDE DEF chunks
  <2>4. \A k \in 1 .. Len(chunks) : Small(chunks[k].words, whole)
    BY <2>1 DEF Neat
  <2>5. \A p \in Texts : Held(p, acc) =>
          p = << >> \/ \E k \in 1 .. Len(chunks) : Within(p, chunks[k].words)
    BY <2>1, <2>3 DEF Held
  <2> QED
    BY <1>1, <2>1, <2>2, <2>4, <2>5 DEF chunks
<1>4. CASE c # << >>
  <2> DEFINE last == [words |-> c]
  <2>1. chunks = Append(d, last)
    BY <1>4 DEF Closed
  <2>2. last \in Pieces /\ last.words = c
    BY <1>1 DEF Pieces
  <2> HIDE DEF last, chunks
  <2>3. chunks \in Seq(Pieces) /\ WordsOf(chunks) = TextOf(acc)
    <3>1. WordsOf(Append(d, last)) = WordsOf(d) \o last.words
      BY <1>1, <2>2, AllWorded, WordsAppend
    <3>2. Append(d, last) \in Seq(Pieces)
      BY <1>1, <2>2, AppendProperties
    <3> QED
      BY <2>1, <2>2, <3>1, <3>2 DEF TextOf
  <2>4. /\ Len(chunks) = Len(d) + 1 /\ Len(d) \in Nat
        /\ \A k \in 1 .. Len(d) : chunks[k] = d[k]
        /\ chunks[Len(d) + 1] = last
    BY <1>1, <2>1, <2>2, AppendProperties
  <2>5. ASSUME NEW k \in 1 .. Len(chunks) PROVE Small(chunks[k].words, whole)
    <3>1. CASE k = Len(d) + 1
      BY <2>2, <2>4, <3>1 DEF Neat
    <3>2. CASE k # Len(d) + 1
      <4>1. k \in 1 .. Len(d)
        BY <2>4, <3>2
      <4> QED
        BY <2>4, <4>1 DEF Neat
    <3> QED
      BY <3>1, <3>2
  <2>6. ASSUME NEW p \in Texts, Held(p, acc)
        PROVE  \E k \in 1 .. Len(chunks) : Within(p, chunks[k].words)
    <3>1. Len(d) + 1 \in 1 .. Len(chunks)
      BY <2>4
    <3>2. ASSUME NEW k \in 1 .. Len(d), Within(p, d[k].words)
          PROVE  \E m \in 1 .. Len(chunks) : Within(p, chunks[m].words)
      <4>1. k \in 1 .. Len(chunks)
        BY <2>4
      <4> QED
        BY <2>4, <3>2, <4>1
    <3>3. ASSUME Within(p, c)
          PROVE  \E m \in 1 .. Len(chunks) : Within(p, chunks[m].words)
      BY <2>2, <2>4, <3>1, <3>3
    <3> QED
      BY <2>6, <3>2, <3>3 DEF Held
  <2> QED
    BY <2>3, <2>5, <2>6 DEF chunks
<1> QED
  BY <1>3, <1>4

------------------------------------------------------------------------------
(* Blocks and their pieces. *)

\* One piece for each word of a text.
LEMMA WordByWord ==
  ASSUME NEW w \in Texts
  PROVE  LET single == [k \in DOMAIN w |-> [words |-> <<w[k]>>]]
         IN /\ single \in Seq(Pieces)
            /\ WordsOf(single) = w
            /\ \A k \in 1 .. Len(single) : Len(single[k].words) = 1
<1> DEFINE n == Len(w)
           single == [k \in DOMAIN w |-> [words |-> <<w[k]>>]]
<1>1. n \in Nat /\ DOMAIN w = 1 .. n /\ \A k \in 1 .. n : w[k] \in Nat
  BY DEF Texts
<1>2. ASSUME NEW k \in 1 .. n
      PROVE  [words |-> <<w[k]>>] \in Pieces /\ Len([words |-> <<w[k]>>].words) = 1
  BY <1>1 DEF Pieces, Texts
<1>3. single \in [1 .. n -> Pieces]
  BY <1>1, <1>2
<1>4. single \in Seq(Pieces) /\ Len(single) = n
  <2> HIDE DEF single, n
  <2> QED
    BY <1>1, <1>3
<1>5. \A k \in 1 .. n : single[k].words = <<w[k]>>
  BY <1>1
<1> HIDE DEF single
<1>6. PICK g : /\ g[0] = << >>
               /\ \A k \in 1 .. n : g[k] = g[k - 1] \o single[k].words
               /\ WordsOf(single) = g[n]
  BY <1>4, AllWorded, WordsLadderOf
<1> DEFINE T == {k \in 0 .. n : g[k] = SubSeq(w, 1, k)}
<1>7. 0 \in T
  <2>1. SubSeq(w, 1, 0) = << >>
    BY SubSeqEmpty
  <2>2. 0 \in 0 .. n /\ g[0] = SubSeq(w, 1, 0)
    BY <1>1, <1>6, <2>1
  <2> QED
    BY <2>2
<1>8. ASSUME NEW k \in 0 .. n - 1, k \in T PROVE k + 1 \in T
  <2>1. k + 1 \in 1 .. n /\ k + 1 \in 0 .. n /\ (k + 1) - 1 = k
    BY <1>1
  <2>2. g[k + 1] = g[k] \o <<w[k + 1]>>
    BY <1>5, <1>6, <2>1
  <2>3. SubSeq(w, 1, k + 1) = SubSeq(w, 1, k) \o <<w[k + 1]>>
    <3>1. w \in Seq(Nat) /\ 1 \in 1 .. Len(w) /\ k + 1 \in 1 .. Len(w)
      BY <2>1 DEF Texts
    <3>2. SubSeq(w, 1, k + 1) = SubSeq(w, 1, (k + 1) - 1) \o <<w[k + 1]>>
      BY <3>1, SubSeqRecursiveSecond
    <3> QED
      BY <2>1, <3>2
  <2> QED
    BY <1>8, <2>1, <2>2, <2>3
<1>9. n \in T
  <2>1. \A k \in 0 .. n : k \in T
    <3> HIDE DEF T, n
    <3> QED
      BY <1>1, <1>7, <1>8, Climb
  <2> QED
    BY <1>1, <2>1
<1>10. SubSeq(w, 1, n) = w
  BY SubSeqFull DEF Texts
<1>11. \A k \in 1 .. n : Len(single[k].words) = 1
  BY <1>2, <1>5
<1> QED
  BY <1>4, <1>6, <1>9, <1>10, <1>11 DEF single

\* A block is cut into pieces within the limit, or it is one piece.
LEMMA SplitIs ==
  ASSUME NEW whole, NEW block \in Parts, block.atomic => block.words \in whole
  PROVE  LET pieces == SplitOversized(block)
         IN /\ pieces \in Seq(Pieces)
            /\ WordsOf(pieces) = block.words
            /\ \A k \in 1 .. Len(pieces) : Small(pieces[k].words, whole)
            /\ block.atomic => Len(pieces) = 1 /\ pieces[1].words = block.words
<1> DEFINE w == block.words
           pieces == SplitOversized(block)
           short == block.atomic \/ Len(w) <= MaxChunkTokens
<1>1. w \in Texts
  BY DEF Parts
<1>2. CASE short
  <2> DEFINE piece == [words |-> w]
  <2>1. pieces = <<piece>>
    BY <1>2 DEF SplitOversized
  <2>2. piece \in Pieces /\ piece.words = w
    BY <1>1 DEF Pieces
  <2>3. Small(w, whole)
    BY <1>2 DEF Small
  <2> HIDE DEF piece, pieces, w
  <2>4. WordsOf(pieces) = w
    BY <2>1, <2>2, AllWorded, WordsOfOne
  <2>5. pieces \in Seq(Pieces) /\ Len(pieces) = 1 /\ pieces[1] = piece
    BY <2>1, <2>2
  <2> QED
    BY <2>2, <2>3, <2>4, <2>5 DEF pieces, w
<1>3. CASE ~ short
  <2> DEFINE single == [k \in DOMAIN w |-> [words |-> <<w[k]>>]]
             new    == FoldLeft(Put, Nothing, single)
  <2>1. /\ single \in Seq(Pieces) /\ WordsOf(single) = w
        /\ \A k \in 1 .. Len(single) : Len(single[k].words) = 1
    BY <1>1, WordByWord
  <2>2. pieces = Closed(new)
    BY <1>3 DEF SplitOversized
  <2> HIDE DEF single
  <2>3. \A k \in 1 .. Len(single) : Small(single[k].words, whole)
    <3>1. 1 <= MaxChunkTokens
      BY LimitIsPositive
    <3> QED
      BY <2>1, <3>1 DEF Small
  <2>4. new \in Packed /\ TextOf(new) = TextOf(Nothing) \o WordsOf(single) /\ Neat(new, whole)
    BY <2>1, <2>3, NothingIsPacked, PutMany
  <2>5. TextOf(new) = w
    BY <1>1, <2>1, <2>4, NothingIsPacked, JoinNone
  <2> HIDE DEF new
  <2>6. /\ Closed(new) \in Seq(Pieces) /\ WordsOf(Closed(new)) = TextOf(new)
        /\ \A k \in 1 .. Len(Closed(new)) : Small(Closed(new)[k].words, whole)
    BY <2>4, ClosedIs
  <2> QED
    BY <1>3, <2>2, <2>5, <2>6
<1> QED
  BY <1>2, <1>3

\* Packing the pieces of a block.
LEMMA PutAllStep ==
  ASSUME NEW whole, NEW acc \in Packed, NEW block \in Parts, Neat(acc, whole),
         block.atomic => block.words \in whole
  PROVE  LET new == PutAll(acc, block)
         IN /\ new \in Packed
            /\ TextOf(new) = TextOf(acc) \o block.words
            /\ Neat(new, whole)
            /\ block.atomic => Held(block.words, new)
            /\ \A p \in Texts : Held(p, acc) => Held(p, new)
<1> DEFINE pieces == SplitOversized(block)
           new == FoldLeft(Put, acc, pieces)
<1>1. /\ pieces \in Seq(Pieces)
      /\ WordsOf(pieces) = block.words
      /\ \A k \in 1 .. Len(pieces) : Small(pieces[k].words, whole)
      /\ block.atomic => Len(pieces) = 1 /\ pieces[1].words = block.words
  BY SplitIs
<1> HIDE DEF pieces
<1>2. /\ new \in Packed
      /\ TextOf(new) = TextOf(acc) \o WordsOf(pieces)
      /\ Neat(new, whole)
      /\ \A k \in 1 .. Len(pieces) : Held(pieces[k].words, new)
      /\ \A p \in Texts : Held(p, acc) => Held(p, new)
  BY <1>1, PutMany
<1> HIDE DEF new
<1>3. block.atomic => Held(block.words, new)
  <2>1. Len(pieces) = 1 => 1 \in 1 .. Len(pieces)
    OBVIOUS
  <2> QED
    BY <1>1, <1>2, <2>1
<1>4. PutAll(acc, block) = new
  BY DEF PutAll, new, pieces
<1> QED
  BY <1>1, <1>2, <1>3, <1>4

\* Chunks stay chunks, block by block.
LEMMA PutAllType ==
  ASSUME NEW acc \in Packed, NEW block \in Parts
  PROVE  PutAll(acc, block) \in Packed
<1>1. block.words \in Texts
  BY DEF Parts
<1>2. Neat(acc, Texts)
  <2>1. acc.current \in Texts /\ acc.done \in Seq(Pieces)
    BY DEF Packed
  <2>2. \A k \in 1 .. Len(acc.done) : acc.done[k].words \in Texts
    <3>1. \A k \in 1 .. Len(acc.done) : acc.done[k] \in Pieces
      BY <2>1, ElementOfSeq
    <3> QED
      BY <3>1 DEF Pieces
  <2> QED
    BY <2>1, <2>2 DEF Neat, Small
<1> QED
  BY <1>1, <1>2, PutAllStep

\* Blocks, one after the other.
LEMMA PutAllLadder ==
  ASSUME NEW n \in Nat, NEW seq \in [1 .. n -> Parts]
  PROVE  \E g : /\ \A k \in 0 .. n : g[k] \in Packed
                /\ g[0] = Nothing
                /\ \A k \in 1 .. n : g[k] = PutAll(g[k - 1], seq[k])
                /\ FoldLeft(PutAll, Nothing, seq) = g[n]
<1> DEFINE F == [k \in 1 .. n |-> [x \in Packed |-> PutAll(x, seq[k])]]
           Is(h) == h = [s \in SUBSET (1 .. n) |->
                           IF s = {} THEN Nothing
                           ELSE PutAll(h[s \ {Max(s)}], seq[Max(s)])]
<1>1. Nothing \in Packed /\ F \in [1 .. n -> [Packed -> Packed]]
  BY NothingIsPacked, PutAllType
<1>2. PICK t \in [SUBSET (1 .. n) -> Packed] : IsTable(t, Nothing, F, n)
  <2> HIDE DEF F
  <2> QED
    BY <1>1, TableIs DEF HasTable
<1>3. Is(t)
  <2>1. ASSUME NEW s \in SUBSET (1 .. n), s # {}
        PROVE  F[Max(s)][t[s \ {Max(s)}]] = PutAll(t[s \ {Max(s)}], seq[Max(s)])
    BY <2>1, TopIn
  <2> HIDE DEF F
  <2> QED
    BY <1>2, <2>1 DEF IsTable
<1> DEFINE iter == CHOOSE h : Is(h)
<1>4. Is(iter)
  BY <1>3
<1>5. FoldLeft(PutAll, Nothing, seq) = iter[1 .. n]
  BY DEF FoldLeft, MapThenFoldSet
<1> HIDE DEF iter
<1> DEFINE g == [k \in 0 .. n |-> iter[1 .. k]]
<1>6. ASSUME NEW k \in 1 .. n PROVE iter[1 .. k] = PutAll(iter[1 .. k - 1], seq[k])
  <2>1. /\ 1 .. k \in SUBSET (1 .. n) /\ 1 .. k # {}
        /\ Max(1 .. k) = k /\ (1 .. k) \ {k} = 1 .. k - 1
    BY RunTo
  <2> QED
    BY <1>4, <2>1
<1>7. g[0] = Nothing
  BY <1>4
<1>8. ASSUME NEW k \in 1 .. n PROVE g[k] = PutAll(g[k - 1], seq[k])
  <2>1. g[k] = iter[1 .. k] /\ g[k - 1] = iter[1 .. k - 1]
    OBVIOUS
  <2> QED
    BY <1>6, <2>1
<1>9. FoldLeft(PutAll, Nothing, seq) = g[n]
  BY <1>5
<1>10. \A k \in 0 .. n : g[k] \in Packed
  <2> HIDE DEF g
  <2>1. ASSUME NEW k \in 1 .. n, g[k - 1] \in Packed PROVE g[k] \in Packed
    BY <1>8, <2>1, PutAllType
  <2> HIDE DEF F
  <2> QED
    BY <1>1, <1>7, <2>1, Stays
<1> HIDE DEF g
<1> QED
  BY <1>7, <1>8, <1>9, <1>10

\* Packing any number of blocks.
LEMMA PutAllMany ==
  ASSUME NEW whole, NEW blocks \in Seq(Parts),
         \A k \in 1 .. Len(blocks) : blocks[k].atomic => blocks[k].words \in whole
  PROVE  LET new == FoldLeft(PutAll, Nothing, blocks)
         IN /\ new \in Packed
            /\ TextOf(new) = WordsOf(blocks)
            /\ Neat(new, whole)
            /\ \A k \in 1 .. Len(blocks) : blocks[k].atomic => Held(blocks[k].words, new)
<1> DEFINE n == Len(blocks)
           new == FoldLeft(PutAll, Nothing, blocks)
<1>1. n \in Nat /\ blocks \in [1 .. n -> Parts]
  OBVIOUS
<1> HIDE DEF n
<1>2. PICK g : /\ \A k \in 0 .. n : g[k] \in Packed
               /\ g[0] = Nothing
               /\ \A k \in 1 .. n : g[k] = PutAll(g[k - 1], blocks[k])
               /\ new = g[n]
  BY <1>1, PutAllLadder
<1>3. PICK t : /\ \A k \in 0 .. n : t[k] \in Texts
               /\ t[0] = << >>
               /\ \A k \in 1 .. n : t[k] = t[k - 1] \o blocks[k].words
               /\ WordsOf(blocks) = t[n]
  BY AllWorded, WordsLadderOf DEF n
<1> HIDE DEF new
<1> DEFINE Goes(k) ==
             /\ TextOf(g[k]) = t[k]
             /\ Neat(g[k], whole)
             /\ \A m \in 1 .. k : blocks[m].atomic => Held(blocks[m].words, g[k])
           T == {k \in 0 .. n : Goes(k)}
<1>5. 0 \in T
  <2>2. 0 \in 0 .. n
    BY <1>1
  <2>3. Goes(0)
    BY <1>2, <1>3, NothingIsPacked
  <2> QED
    BY <2>2, <2>3
<1>6. ASSUME NEW k \in 0 .. n - 1, k \in T PROVE k + 1 \in T
  <2>1. k + 1 \in 1 .. n /\ k + 1 \in 0 .. n /\ k \in 0 .. n /\ (k + 1) - 1 = k
    BY <1>1
  <2>2. Goes(k)
    BY <1>6
  <2> DEFINE block == blocks[k + 1]
  <2>3. block \in Parts /\ g[k] \in Packed /\ (block.atomic => block.words \in whole)
    BY <1>1, <1>2, <2>1 DEF n
  <2>4. g[k + 1] = PutAll(g[k], block)
    BY <1>2, <2>1
  <2>5. t[k + 1] = t[k] \o block.words
    BY <1>3, <2>1
  <2>6. \A m \in 1 .. k : blocks[m].words \in Texts
    <3>1. \A m \in 1 .. k : blocks[m] \in Parts
      BY <1>1, <2>1
    <3> QED
      BY <3>1 DEF Parts
  <2> HIDE DEF block
  <2>7. /\ TextOf(g[k + 1]) = TextOf(g[k]) \o block.words
        /\ Neat(g[k + 1], whole)
        /\ block.atomic => Held(block.words, g[k + 1])
        /\ \A p \in Texts : Held(p, g[k]) => Held(p, g[k + 1])
    BY <2>2, <2>3, <2>4, PutAllStep
  <2>8. TextOf(g[k + 1]) = t[k + 1]
    BY <2>2, <2>5, <2>7
  <2>9. \A m \in 1 .. k + 1 : blocks[m].atomic => Held(blocks[m].words, g[k + 1])
    <3>1. ASSUME NEW m \in 1 .. k + 1, blocks[m].atomic PROVE Held(blocks[m].words, g[k + 1])
      <4>1. CASE m = k + 1
        BY <2>7, <3>1, <4>1 DEF block
      <4>2. CASE m # k + 1
        <5>1. m \in 1 .. k
          BY <4>2
        <5> QED
          BY <2>2, <2>6, <2>7, <3>1, <5>1
      <4> QED
        BY <4>1, <4>2
    <3> QED
      BY <3>1
  <2>10. Goes(k + 1)
    BY <2>7, <2>8, <2>9
  <2> QED
    BY <2>1, <2>10
<1>7. \A k \in 0 .. n : k \in T
  <2> HIDE DEF T
  <2> QED
    BY <1>1, <1>5, <1>6, Climb
<1>8. Goes(n) /\ new \in Packed
  BY <1>1, <1>2, <1>7
<1> QED
  BY <1>2, <1>3, <1>8 DEF n, new

\* The chunks of some blocks.
LEMMA BlocksArePacked ==
  ASSUME NEW whole, NEW blocks \in Seq(Parts),
         \A k \in 1 .. Len(blocks) : blocks[k].atomic => blocks[k].words \in whole
  PROVE  LET chunks == Closed(FoldLeft(PutAll, Nothing, blocks))
         IN /\ chunks \in Seq(Pieces)
            /\ WordsOf(chunks) = WordsOf(blocks)
            /\ \A k \in 1 .. Len(chunks) : Small(chunks[k].words, whole)
            /\ \A k \in 1 .. Len(blocks) : blocks[k].atomic =>
                 \/ blocks[k].words = << >>
                 \/ \E m \in 1 .. Len(chunks) : Within(blocks[k].words, chunks[m].words)
<1> DEFINE new == FoldLeft(PutAll, Nothing, blocks)
<1>1. /\ new \in Packed
      /\ TextOf(new) = WordsOf(blocks)
      /\ Neat(new, whole)
      /\ \A k \in 1 .. Len(blocks) : blocks[k].atomic => Held(blocks[k].words, new)
  BY PutAllMany
<1> HIDE DEF new
<1> DEFINE chunks == Closed(new)
<1>2. /\ chunks \in Seq(Pieces)
      /\ WordsOf(chunks) = TextOf(new)
      /\ \A k \in 1 .. Len(chunks) : Small(chunks[k].words, whole)
      /\ \A p \in Texts : Held(p, new) =>
           p = << >> \/ \E k \in 1 .. Len(chunks) : Within(p, chunks[k].words)
  BY <1>1, ClosedIs
<1>3. \A k \in 1 .. Len(blocks) : blocks[k].words \in Texts
  <2>1. \A k \in 1 .. Len(blocks) : blocks[k] \in Parts
    BY ElementOfSeq
  <2> QED
    BY <2>1 DEF Parts
<1> HIDE DEF chunks
<1>4. \A k \in 1 .. Len(blocks) : blocks[k].atomic =>
        \/ blocks[k].words = << >>
        \/ \E m \in 1 .. Len(chunks) : Within(blocks[k].words, chunks[m].words)
  BY <1>1, <1>2, <1>3
<1> QED
  BY <1>1, <1>2, <1>4 DEF chunks, new

------------------------------------------------------------------------------
(* Lines and their blocks. *)

\* One more line.
LEMMA WordsNext ==
  ASSUME NEW lines \in Seq(Lines), NEW k \in 0 .. Len(lines) - 1, NEW a \in 1 .. k + 1
  PROVE  /\ lines[k + 1] \in Lines /\ lines[k + 1].words \in Texts
         /\ SubSeq(lines, a, k) \in Seq(Lines) /\ SubSeq(lines, a, k + 1) \in Seq(Lines)
         /\ WordsOf(SubSeq(lines, a, k)) \in Texts
         /\ SubSeq(lines, a, k + 1) = Append(SubSeq(lines, a, k), lines[k + 1])
         /\ WordsOf(SubSeq(lines, a, k + 1)) = WordsOf(SubSeq(lines, a, k)) \o lines[k + 1].words
<1>1. /\ k + 1 \in 1 .. Len(lines) /\ a \in 1 .. Len(lines) /\ k + 1 \in a .. Len(lines)
      /\ (k + 1) - 1 = k
  OBVIOUS
<1>2. lines[k + 1] \in Lines
  BY <1>1, ElementOfSeq
<1>3. lines[k + 1].words \in Texts
  BY <1>2 DEF Lines
<1>4. SubSeq(lines, a, k) \in Seq(Lines)
  <2>1. \A i \in a .. k : lines[i] \in Lines
    BY ElementOfSeq
  <2>2. a \in Int /\ k \in Int
    OBVIOUS
  <2> QED
    BY <2>1, <2>2, SubSeqProperties
<1>5. SubSeq(lines, a, k + 1) = SubSeq(lines, a, (k + 1) - 1) \o <<lines[k + 1]>>
  BY <1>1, SubSeqRecursiveSecond
<1>6. SubSeq(lines, a, k + 1) = Append(SubSeq(lines, a, k), lines[k + 1])
  BY <1>1, <1>2, <1>4, <1>5, AppendIsConcat
<1>7. SubSeq(lines, a, k + 1) \in Seq(Lines)
  BY <1>2, <1>4, <1>6, AppendProperties
<1>8. WordsOf(SubSeq(lines, a, k)) \in Texts
  BY <1>4, LinesHaveWords
<1>9. WordsOf(SubSeq(lines, a, k + 1)) = WordsOf(SubSeq(lines, a, k)) \o lines[k + 1].words
  BY <1>2, <1>4, <1>6, AllWorded, WordsAppend
<1> QED
  BY <1>2, <1>3, <1>4, <1>6, <1>7, <1>8, <1>9

\* What is collected at line k are the lines from a; what is in the blocks is
\* the rest, and an atomic block is whole.
Collected(lines, a, k, acc) ==
  /\ k \in 0 .. Len(lines) /\ a \in 1 .. k + 1
  /\ acc.current = SubSeq(lines, a, k)
  /\ WordsOf(acc.blocks) \o WordsOf(acc.current) = WordsOf(SubSeq(lines, 1, k))
  /\ acc.table => \/ \E j \in a .. k : lines[j].kind = "fence"
                  \/ \A j \in a .. k : lines[j].kind = "row"
  /\ \A j \in a .. k : lines[j].kind = "blank" => Inside(lines, j)
  /\ \A b \in 1 .. Len(acc.blocks) :
       acc.blocks[b].atomic => IsWhole(lines, acc.blocks[b].words)

\* A text with words is part of an atomic block.
Boxed(p, blocks) ==
  \/ p = << >>
  \/ \E b \in 1 .. Len(blocks) : blocks[b].atomic /\ Within(p, blocks[b].words)

\* Part of some lines.
LEMMA WithinLines ==
  ASSUME NEW lines \in Seq(Lines), NEW a \in 1 .. Len(lines), NEW b \in a .. Len(lines),
         NEW i \in a .. b, NEW j \in i .. b
  PROVE  /\ WordsOf(SubSeq(lines, i, j)) \in Texts
         /\ WordsOf(SubSeq(lines, a, b)) \in Texts
         /\ Within(WordsOf(SubSeq(lines, i, j)), WordsOf(SubSeq(lines, a, b)))
<1> DEFINE before == SubSeq(lines, a, i - 1)
           part   == SubSeq(lines, i, j)
           after  == SubSeq(lines, j + 1, b)
           upto   == SubSeq(lines, a, j)
           all    == SubSeq(lines, a, b)
<1>1. /\ a \in 1 .. Len(lines) + 1 /\ i - 1 \in a - 1 .. Len(lines)
      /\ j \in i - 1 .. Len(lines) /\ j \in a - 1 .. Len(lines) /\ b \in j .. Len(lines)
      /\ (i - 1) + 1 = i
  OBVIOUS
<1>2. before \in Seq(Lines) /\ part \in Seq(Lines)
      /\ WordsOf(upto) = WordsOf(before) \o WordsOf(part)
  <2>1. /\ before \in Seq(Lines) /\ SubSeq(lines, (i - 1) + 1, j) \in Seq(Lines)
        /\ WordsOf(upto) = WordsOf(before) \o WordsOf(SubSeq(lines, (i - 1) + 1, j))
    BY <1>1, AllWorded, WordsSplit
  <2> QED
    BY <1>1, <2>1
<1>3. upto \in Seq(Lines) /\ after \in Seq(Lines)
      /\ WordsOf(all) = WordsOf(upto) \o WordsOf(after)
  BY <1>1, AllWorded, WordsSplit, SMTT(30)
<1> HIDE DEF before, part, after, upto, all
<1>4. WordsOf(before) \in Texts /\ WordsOf(part) \in Texts /\ WordsOf(after) \in Texts
  BY <1>2, <1>3, LinesHaveWords
<1>5. WordsOf(all) \in Texts
  BY <1>2, <1>3, <1>4, JoinType
<1>6. Within(WordsOf(part), WordsOf(all))
  BY <1>2, <1>3, <1>4 DEF Within
<1> QED
  BY <1>4, <1>5, <1>6 DEF part, all

\* Ending a block: a text collected in a listing is in it.
LEMMA Flushing ==
  ASSUME NEW lines \in Seq(Lines), NEW a, NEW k, NEW acc \in Scanned, Collected(lines, a, k, acc),
         acc.fence => \E j \in a .. k : lines[j].kind = "fence"
  PROVE  LET new == Flushed(acc)
         IN /\ new \in Scanned /\ new.fence = acc.fence /\ new.table = acc.table
            /\ new.current = << >>
            /\ Collected(lines, k + 1, k, new)
            /\ \A p : Boxed(p, acc.blocks) => Boxed(p, new.blocks)
            /\ acc.fence => \A i \in a .. k : \A j \in i .. k :
                              Boxed(WordsOf(SubSeq(lines, i, j)), new.blocks)
<1> DEFINE new   == Flushed(acc)
           words == WordsOf(acc.current)
           part  == [words |-> words, atomic |-> acc.fence \/ acc.table]
<1>0. /\ acc.blocks \in Seq(Parts) /\ acc.current \in Seq(Lines)
      /\ acc.fence \in BOOLEAN /\ acc.table \in BOOLEAN
      /\ k \in Nat /\ a \in Nat /\ a >= 1 /\ a <= k + 1 /\ k <= Len(lines)
  BY DEF Scanned, Collected
<1>1. words \in Texts /\ part \in Parts /\ WordsOf(acc.blocks) \in Texts
  <2>1. words \in Texts
    BY <1>0, LinesHaveWords
  <2>2. WordsOf(acc.blocks) \in Texts
    BY <1>0, AllWorded, WordsLadderOf
  <2> QED
    BY <1>0, <2>1, <2>2 DEF Parts
<1>2. new \in Scanned
  BY FlushedType
<1>3. /\ new.fence = acc.fence /\ new.table = acc.table /\ new.current = << >>
      /\ new.blocks = IF words = << >> THEN acc.blocks ELSE Append(acc.blocks, part)
  BY DEF Flushed, Scanned
<1>4. part.words = words /\ (part.atomic <=> acc.fence \/ acc.table)
  BY <1>0
<1>5. words # << >> /\ part.atomic => IsWhole(lines, words)
  <2> SUFFICES ASSUME words # << >>, part.atomic PROVE IsWhole(lines, words)
    OBVIOUS
  <2>1. words = WordsOf(SubSeq(lines, a, k))
    BY DEF Collected
  <2>2. a <= k
    <3>1. SUFFICES ASSUME ~ (a <= k) PROVE FALSE
      OBVIOUS
    <3>2. SubSeq(lines, a, k) = << >>
      BY <1>0, <3>1, SubSeqEmpty
    <3> QED
      BY <2>1, <3>2, WordsOfNone
  <2>3. a \in DOMAIN lines /\ k \in DOMAIN lines
    BY <1>0, <2>2
  <2>4. \A j \in a .. k : lines[j].kind = "blank" => Inside(lines, j)
    BY DEF Collected
  <2>5. \/ \E j \in a .. k : lines[j].kind = "fence"
        \/ \A j \in a .. k : lines[j].kind = "row"
    <3> HIDE DEF part
    <3> QED
      BY <1>4 DEF Collected
  <2> HIDE DEF words, part
  <2> QED
    BY <2>1, <2>3, <2>4, <2>5 DEF IsWhole
<1> HIDE DEF part, new, words
<1>6. CASE words = << >>
  <2>1. new.blocks = acc.blocks
    BY <1>3, <1>6
  <2>2. WordsOf(new.blocks) \o WordsOf(new.current) = WordsOf(SubSeq(lines, 1, k))
    BY <1>3, <1>6, <2>1, WordsOfNone DEF Collected, words
  <2>3. Collected(lines, k + 1, k, new)
    <3>1. SubSeq(lines, k + 1, k) = << >>
      BY <1>0, SubSeqEmpty
    <3>2. \A j \in k + 1 .. k : FALSE
      BY <1>0
    <3>3. k \in 0 .. Len(lines) /\ k + 1 \in 1 .. k + 1
      BY <1>0
    <3>4. \A b \in 1 .. Len(new.blocks) :
            new.blocks[b].atomic => IsWhole(lines, new.blocks[b].words)
      BY <2>1 DEF Collected
    <3> QED
      BY <1>3, <2>2, <3>1, <3>2, <3>3, <3>4 DEF Collected
  <2>4. ASSUME acc.fence, NEW i \in a .. k, NEW j \in i .. k
        PROVE  WordsOf(SubSeq(lines, i, j)) = << >>
    <3>1. a \in 1 .. Len(lines) /\ k \in a .. Len(lines)
      BY <1>0
    <3>2. /\ WordsOf(SubSeq(lines, i, j)) \in Texts
          /\ Within(WordsOf(SubSeq(lines, i, j)), WordsOf(SubSeq(lines, a, k)))
      BY <3>1, WithinLines
    <3>3. WordsOf(SubSeq(lines, a, k)) = << >>
      BY <1>6 DEF Collected, words
    <3> QED
      BY <3>2, <3>3, NoneWithin, JoinType
  <2> QED
    BY <1>2, <1>3, <2>1, <2>3, <2>4 DEF Boxed, new
<1>7. CASE words # << >>
  <2>1. new.blocks = Append(acc.blocks, part)
    BY <1>3, <1>7
  <2>2. /\ Len(new.blocks) = Len(acc.blocks) + 1 /\ Len(acc.blocks) \in Nat
        /\ \A b \in 1 .. Len(acc.blocks) : new.blocks[b] = acc.blocks[b]
        /\ new.blocks[Len(acc.blocks) + 1] = part
    BY <1>0, <1>1, <2>1, AppendProperties
  <2>3. WordsOf(new.blocks) \o WordsOf(new.current) = WordsOf(SubSeq(lines, 1, k))
    <3>1. WordsOf(new.blocks) = WordsOf(acc.blocks) \o words
      BY <1>0, <1>1, <1>4, <2>1, AllWorded, WordsAppend
    <3>2. WordsOf(acc.blocks) \o words = WordsOf(SubSeq(lines, 1, k))
      BY DEF Collected, words
    <3>3. WordsOf(acc.blocks) \o words \in Texts
      BY <1>1, JoinType
    <3> QED
      BY <1>3, <3>1, <3>2, <3>3, WordsOfNone, JoinNone
  <2>4. ASSUME NEW b \in 1 .. Len(new.blocks), new.blocks[b].atomic
        PROVE  IsWhole(lines, new.blocks[b].words)
    <3>1. CASE b = Len(acc.blocks) + 1
      BY <1>4, <1>5, <1>7, <2>2, <2>4, <3>1
    <3>2. CASE b # Len(acc.blocks) + 1
      <4>1. b \in 1 .. Len(acc.blocks)
        BY <2>2, <3>2
      <4> QED
        BY <2>2, <2>4, <4>1 DEF Collected
    <3> QED
      BY <3>1, <3>2
  <2>5. Collected(lines, k + 1, k, new)
    <3>1. SubSeq(lines, k + 1, k) = << >>
      BY <1>0, SubSeqEmpty
    <3>2. \A j \in k + 1 .. k : FALSE
      BY <1>0
    <3>3. k \in 0 .. Len(lines) /\ k + 1 \in 1 .. k + 1
      BY <1>0
    <3> QED
      BY <1>3, <2>3, <2>4, <3>1, <3>2, <3>3 DEF Collected
  <2>6. ASSUME NEW p, Boxed(p, acc.blocks) PROVE Boxed(p, new.blocks)
    <3>1. CASE p = << >>
      BY <3>1 DEF Boxed
    <3>2. CASE p # << >>
      <4>1. PICK b \in 1 .. Len(acc.blocks) : acc.blocks[b].atomic /\ Within(p, acc.blocks[b].words)
        BY <2>6, <3>2 DEF Boxed
      <4>2. b \in 1 .. Len(new.blocks) /\ new.blocks[b] = acc.blocks[b]
        BY <2>2
      <4> QED
        BY <4>1, <4>2 DEF Boxed
    <3> QED
      BY <3>1, <3>2
  <2>7. ASSUME acc.fence, NEW i \in a .. k, NEW j \in i .. k
        PROVE  Boxed(WordsOf(SubSeq(lines, i, j)), new.blocks)
    <3>1. a \in 1 .. Len(lines) /\ k \in a .. Len(lines)
      BY <1>0
    <3>2. Within(WordsOf(SubSeq(lines, i, j)), WordsOf(SubSeq(lines, a, k)))
      BY <3>1, WithinLines
    <3>3. WordsOf(SubSeq(lines, a, k)) = words
      BY DEF Collected, words
    <3>4. Len(acc.blocks) + 1 \in 1 .. Len(new.blocks)
      BY <2>2
    <3> QED
      BY <1>4, <2>2, <2>7, <3>2, <3>3, <3>4 DEF Boxed
  <2> QED
    BY <1>2, <1>3, <2>5, <2>6, <2>7 DEF new
<1> QED
  BY <1>6, <1>7

\* Collecting a line.
LEMMA Keeping ==
  ASSUME NEW lines \in Seq(Lines), NEW a, NEW k, NEW acc \in Scanned, Collected(lines, a, k, acc),
         k < Len(lines),
         lines[k + 1].kind = "blank" => Inside(lines, k + 1),
         acc.table /\ lines[k + 1].kind # "row" => \E j \in a .. k + 1 : lines[j].kind = "fence"
  PROVE  LET new == Kept(acc, lines[k + 1])
         IN /\ new \in Scanned /\ new.fence = acc.fence /\ new.table = acc.table
            /\ new.blocks = acc.blocks
            /\ Collected(lines, a, k + 1, new)
<1> DEFINE line == lines[k + 1]
           new == Kept(acc, line)
<1>0. /\ acc.blocks \in Seq(Parts) /\ acc.current \in Seq(Lines)
      /\ k \in 0 .. Len(lines) - 1 /\ a \in 1 .. k + 1 /\ k \in Nat /\ a \in Nat
      /\ k + 1 \in 0 .. Len(lines) /\ a \in 1 .. (k + 1) + 1 /\ 1 \in 1 .. k + 1
  BY SMTT(30) DEF Scanned, Collected
<1>1. /\ line \in Lines /\ line.words \in Texts
      /\ SubSeq(lines, a, k + 1) \in Seq(Lines)
      /\ SubSeq(lines, a, k + 1) = Append(SubSeq(lines, a, k), line)
      /\ WordsOf(SubSeq(lines, a, k)) \in Texts
      /\ WordsOf(SubSeq(lines, a, k + 1)) = WordsOf(SubSeq(lines, a, k)) \o line.words
  BY <1>0, WordsNext
<1>2. WordsOf(SubSeq(lines, 1, k + 1)) = WordsOf(SubSeq(lines, 1, k)) \o line.words
  BY <1>0, WordsNext
<1> HIDE DEF line
<1>3. acc.current = SubSeq(lines, a, k)
  BY DEF Collected
<1>4. /\ new.fence = acc.fence /\ new.table = acc.table /\ new.blocks = acc.blocks
      /\ new.current = SubSeq(lines, a, k + 1)
  BY <1>1, <1>3 DEF Kept, Scanned
<1>5. new \in Scanned
  BY <1>1, <1>3 DEF Kept, Scanned
<1> HIDE DEF new
<1>6. WordsOf(new.blocks) \o WordsOf(new.current) = WordsOf(SubSeq(lines, 1, k + 1))
  <2>1. WordsOf(acc.blocks) \in Texts
    BY <1>0, AllWorded, WordsLadderOf
  <2> DEFINE x == WordsOf(acc.blocks)
             y == WordsOf(SubSeq(lines, a, k))
  <2>2. x \o y = WordsOf(SubSeq(lines, 1, k))
    BY <1>3 DEF Collected
  <2>3. (x \o y) \o line.words = x \o (y \o line.words)
    <3>1. x \in Texts /\ y \in Texts /\ line.words \in Texts
      BY <1>1, <2>1
    <3> HIDE DEF x, y
    <3> QED
      BY <3>1, JoinAssociates
  <2> QED
    BY <1>1, <1>2, <1>4, <2>2, <2>3
<1>7. \A j \in a .. k + 1 : lines[j].kind = "blank" => Inside(lines, j)
  <2>1. ASSUME NEW j \in a .. k + 1, lines[j].kind = "blank" PROVE Inside(lines, j)
    <3>1. CASE j = k + 1
      BY <2>1, <3>1
    <3>2. CASE j # k + 1
      <4>1. j \in a .. k
        BY <1>0, <3>2
      <4> QED
        BY <2>1, <4>1 DEF Collected
    <3> QED
      BY <3>1, <3>2
  <2> QED
    BY <2>1
<1>8. new.table => \/ \E j \in a .. k + 1 : lines[j].kind = "fence"
                   \/ \A j \in a .. k + 1 : lines[j].kind = "row"
  <2> SUFFICES ASSUME acc.table, lines[k + 1].kind = "row",
                      ~ \E j \in a .. k + 1 : lines[j].kind = "fence"
               PROVE  \A j \in a .. k + 1 : lines[j].kind = "row"
    BY <1>4
  <2>1. ~ \E j \in a .. k : lines[j].kind = "fence"
    <3>1. \A j \in a .. k : j \in a .. k + 1
      BY <1>0
    <3> QED
      BY <3>1
  <2>2. \A j \in a .. k : lines[j].kind = "row"
    BY <2>1 DEF Collected
  <2>3. ASSUME NEW j \in a .. k + 1, j # k + 1 PROVE j \in a .. k
    BY <1>0, <2>3
  <2> QED
    BY <2>2, <2>3
<1>9. \A b \in 1 .. Len(new.blocks) :
        new.blocks[b].atomic => IsWhole(lines, new.blocks[b].words)
  BY <1>4 DEF Collected
<1>10. Collected(lines, a, k + 1, new)
  BY <1>0, <1>4, <1>6, <1>7, <1>8, <1>9 DEF Collected
<1> QED
  BY <1>4, <1>5, <1>10 DEF new, line

\* An empty line between blocks goes into none.
LEMMA Skipping ==
  ASSUME NEW lines \in Seq(Lines), NEW k, NEW acc \in Scanned, Collected(lines, k + 1, k, acc),
         k < Len(lines), lines[k + 1].kind = "blank"
  PROVE  Collected(lines, (k + 1) + 1, k + 1, acc)
<1>0. /\ k \in 0 .. Len(lines) - 1 /\ k \in Nat /\ 1 \in 1 .. k + 1
      /\ k + 1 \in 0 .. Len(lines) /\ (k + 1) + 1 \in 1 .. (k + 1) + 1
  BY DEF Collected
<1>1. /\ lines[k + 1] \in Lines /\ WordsOf(SubSeq(lines, 1, k)) \in Texts
      /\ WordsOf(SubSeq(lines, 1, k + 1)) = WordsOf(SubSeq(lines, 1, k)) \o lines[k + 1].words
  BY <1>0, WordsNext
<1>2. lines[k + 1].words = << >>
  BY <1>1 DEF Lines
<1>3. WordsOf(SubSeq(lines, 1, k + 1)) = WordsOf(SubSeq(lines, 1, k))
  BY <1>1, <1>2, JoinNone
<1>4. SubSeq(lines, k + 1, k) = << >> /\ SubSeq(lines, (k + 1) + 1, k + 1) = << >>
  BY <1>0, SubSeqEmpty
<1>5. \A j \in (k + 1) + 1 .. k + 1 : FALSE
  BY <1>0
<1> QED
  BY <1>0, <1>3, <1>4, <1>5 DEF Collected

\* Ending a table or starting one.
LEMMA Turning ==
  ASSUME NEW lines \in Seq(Lines), NEW a, NEW k, NEW acc \in Scanned, Collected(lines, a, k, acc),
         ~ acc.fence, NEW isRow \in BOOLEAN
  PROVE  LET new == Turned(acc, isRow)
         IN /\ new \in Scanned /\ new.fence = acc.fence /\ new.table = isRow
            /\ \E b : Collected(lines, b, k, new)
            /\ \A p : Boxed(p, acc.blocks) => Boxed(p, new.blocks)
<1> DEFINE new == Turned(acc, isRow)
           flushed == Flushed(acc)
<1>1. CASE isRow = acc.table
  BY <1>1 DEF Turned
<1>2. CASE isRow # acc.table
  <2>1. /\ flushed \in Scanned /\ flushed.fence = acc.fence
        /\ Collected(lines, k + 1, k, flushed)
        /\ \A p : Boxed(p, acc.blocks) => Boxed(p, flushed.blocks)
    BY Flushing
  <2> HIDE DEF flushed
  <2>2. new = [flushed EXCEPT !.table = isRow]
    BY <1>2 DEF Turned, flushed
  <2>3. /\ new.fence = acc.fence /\ new.table = isRow /\ new.blocks = flushed.blocks
        /\ new.current = flushed.current /\ new \in Scanned
    BY <2>1, <2>2 DEF Scanned
  <2> HIDE DEF new
  <2>4. \A j \in k + 1 .. k : FALSE
    BY <2>1 DEF Collected
  <2>5. Collected(lines, k + 1, k, new)
    BY <2>1, <2>3, <2>4 DEF Collected
  <2> QED
    BY <2>1, <2>3, <2>5 DEF new
<1> QED
  BY <1>1, <1>2

\* What is known of the scan at line k: the lines collected reach back to the
\* fence that is open, and a listing that is closed is in one block.
Scanning(lines, k, acc) ==
  /\ acc \in Scanned
  /\ acc.fence = Inside(lines, k + 1)
  /\ \E a : /\ Collected(lines, a, k, acc)
            /\ \A i \in 1 .. k : IsOpen(lines, i, k) => a <= i
  /\ \A i, j \in 1 .. k : IsListing(lines, i, j) => Boxed(WordsOf(SubSeq(lines, i, j)), acc.blocks)

\* The scan begins before the first line,
LEMMA ScanningStarts ==
  ASSUME NEW lines \in Seq(Lines)
  PROVE  Scanning(lines, 0, NoBlocks)
<1>1. Inside(lines, 0 + 1) = FALSE
  <2>1. 0 + 1 = 1
    OBVIOUS
  <2> QED
    BY <2>1, InsideStarts
<1>2. SubSeq(lines, 1, 0) = << >>
  BY SubSeqEmpty
<1>3. WordsOf(<< >>) \o WordsOf(<< >>) = << >> /\ WordsOf(<< >>) = << >>
  BY WordsOfNone, JoinNone, JoinType
<1>4. Collected(lines, 1, 0, NoBlocks)
  <2>1. 0 \in 0 .. Len(lines) /\ 1 \in 1 .. 0 + 1 /\ \A j \in 1 .. 0 : FALSE
    OBVIOUS
  <2>2. NoBlocks.blocks = << >> /\ NoBlocks.current = << >> /\ ~ NoBlocks.table
    BY DEF NoBlocks
  <2>3. \A b \in 1 .. Len(NoBlocks.blocks) : FALSE
    BY <2>2
  <2> QED
    BY <1>2, <1>3, <2>1, <2>2, <2>3 DEF Collected
<1>5. \A i \in 1 .. 0 : FALSE
  OBVIOUS
<1> QED
  BY <1>1, <1>4, <1>5, NoBlocksType DEF Scanning, NoBlocks

\* A line that closes no listing.
LEMMA ListingsStay ==
  ASSUME NEW lines, NEW k \in Nat, NEW old, NEW new,
         \A p : Boxed(p, old) => Boxed(p, new),
         \A i, j \in 1 .. k : IsListing(lines, i, j) => Boxed(WordsOf(SubSeq(lines, i, j)), old),
         \A i \in 1 .. k : IsListing(lines, i, k + 1) =>
           Boxed(WordsOf(SubSeq(lines, i, k + 1)), new)
  PROVE  \A i, j \in 1 .. k + 1 :
           IsListing(lines, i, j) => Boxed(WordsOf(SubSeq(lines, i, j)), new)
<1> SUFFICES ASSUME NEW i \in 1 .. k + 1, NEW j \in 1 .. k + 1, IsListing(lines, i, j)
             PROVE  Boxed(WordsOf(SubSeq(lines, i, j)), new)
  OBVIOUS
<1>1. i \in 1 .. k
  BY DEF IsListing
<1>2. CASE j = k + 1
  BY <1>1, <1>2
<1>3. CASE j # k + 1
  <2>1. j \in 1 .. k
    BY <1>3
  <2> QED
    BY <1>1, <2>1
<1> QED
  BY <1>2, <1>3

\* ... and goes on at every line.
LEMMA ScanningGoesOn ==
  ASSUME NEW lines \in Seq(Lines), NEW k \in 0 .. Len(lines) - 1, NEW acc, Scanning(lines, k, acc)
  PROVE  Scanning(lines, k + 1, Scan(acc, lines[k + 1]))
<1> DEFINE line == lines[k + 1]
           new  == Scan(acc, line)
<1>0. /\ k \in Nat /\ k + 1 \in Nat /\ k + 1 \in Nat \ {0} /\ k < Len(lines)
      /\ k + 1 \in 1 .. Len(lines) /\ Len(lines) \in Nat
  OBVIOUS
<1>1. acc \in Scanned /\ acc.fence = Inside(lines, k + 1) /\ acc.fence \in BOOLEAN
  BY DEF Scanning, Scanned
<1>2. PICK a : /\ Collected(lines, a, k, acc)
               /\ \A i \in 1 .. k : IsOpen(lines, i, k) => a <= i
  BY DEF Scanning
<1>3. \A i, j \in 1 .. k : IsListing(lines, i, j) => Boxed(WordsOf(SubSeq(lines, i, j)), acc.blocks)
  BY DEF Scanning
<1>4. Inside(lines, (k + 1) + 1) = IF line.kind = "fence" THEN ~ Inside(lines, k + 1)
                                   ELSE Inside(lines, k + 1)
  BY <1>0, InsideNext
<1>5. a \in 1 .. k + 1
  BY <1>2 DEF Collected
<1>6. acc.fence => \E j \in a .. k : lines[j].kind = "fence"
  <2> SUFFICES ASSUME acc.fence PROVE \E j \in a .. k : lines[j].kind = "fence"
    OBVIOUS
  <2>1. PICK i \in 1 .. k : IsOpen(lines, i, k)
    BY <1>0, <1>1, InsideIsOpen
  <2>2. a <= i
    BY <1>2, <2>1
  <2>3. i \in a .. k
    BY <1>5, <2>2
  <2> QED
    BY <2>1, <2>3 DEF IsOpen
<1>7. \A j \in a .. k : j \in a .. k + 1
  BY <1>0, <1>5
<1> HIDE DEF line, new
<1>8. ASSUME line.kind = "fence", acc.fence PROVE Scanning(lines, k + 1, new)
  <2> DEFINE kept == Kept(acc, line)
             flushed == Flushed(kept)
  <2>1. /\ kept \in Scanned /\ kept.fence = acc.fence /\ kept.table = acc.table
        /\ kept.blocks = acc.blocks
        /\ Collected(lines, a, k + 1, kept)
    <3>1. lines[k + 1].kind # "blank"
      BY <1>8 DEF line
    <3>2. k + 1 \in a .. k + 1 /\ lines[k + 1].kind = "fence"
      BY <1>5, <1>8 DEF line
    <3> QED
      BY <1>0, <1>1, <1>2, <3>1, <3>2, Keeping DEF line
  <2> HIDE DEF kept
  <2>2. kept.fence => \E j \in a .. k + 1 : lines[j].kind = "fence"
    BY <1>6, <1>7, <2>1
  <2>3. /\ flushed \in Scanned /\ flushed.fence = kept.fence /\ flushed.table = kept.table
        /\ flushed.current = << >>
        /\ Collected(lines, (k + 1) + 1, k + 1, flushed)
        /\ \A p : Boxed(p, kept.blocks) => Boxed(p, flushed.blocks)
        /\ kept.fence => \A i \in a .. k + 1 : \A j \in i .. k + 1 :
                           Boxed(WordsOf(SubSeq(lines, i, j)), flushed.blocks)
    BY <2>1, <2>2, Flushing
  <2> HIDE DEF flushed
  <2>4. new = Toggled(flushed)
    BY <1>8 DEF new, Scan, flushed, kept
  <2>5. /\ new.fence = ~ flushed.fence /\ new.blocks = flushed.blocks
        /\ new.current = flushed.current /\ new.table = flushed.table /\ new \in Scanned
    BY <2>3, <2>4 DEF Toggled, Scanned
  <2>6. Collected(lines, (k + 1) + 1, k + 1, new)
    BY <2>3, <2>5 DEF Collected
  <2>7. new.fence = Inside(lines, (k + 1) + 1) /\ ~ new.fence
    BY <1>1, <1>4, <1>8, <2>1, <2>3, <2>5
  <2>8. \A i \in 1 .. k + 1 : ~ IsOpen(lines, i, k + 1)
    BY <1>0, <2>7, OpenIsInside
  <2>9. ASSUME NEW i \in 1 .. k, IsListing(lines, i, k + 1)
        PROVE  Boxed(WordsOf(SubSeq(lines, i, k + 1)), new.blocks)
    <3>1. IsOpen(lines, i, k)
      BY <1>0, <2>9, ListingIsOpen
    <3>2. a <= i
      BY <1>2, <3>1
    <3>3. i \in a .. k + 1 /\ k + 1 \in i .. k + 1
      BY <1>5, <3>2
    <3> QED
      BY <1>8, <2>1, <2>3, <2>5, <3>3
  <2>10. \A i, j \in 1 .. k + 1 :
           IsListing(lines, i, j) => Boxed(WordsOf(SubSeq(lines, i, j)), new.blocks)
    <3>1. \A p : Boxed(p, acc.blocks) => Boxed(p, new.blocks)
      BY <2>1, <2>3, <2>5
    <3> QED
      BY <1>0, <1>3, <2>9, <3>1, ListingsStay
  <2> QED
    BY <2>5, <2>6, <2>7, <2>8, <2>10 DEF Scanning
<1>9. ASSUME line.kind = "fence", ~ acc.fence PROVE Scanning(lines, k + 1, new)
  <2> DEFINE kept == Kept(acc, line)
  <2>1. /\ kept \in Scanned /\ kept.fence = acc.fence /\ kept.table = acc.table
        /\ kept.blocks = acc.blocks
        /\ Collected(lines, a, k + 1, kept)
    <3>1. lines[k + 1].kind # "blank"
      BY <1>9 DEF line
    <3>2. k + 1 \in a .. k + 1 /\ lines[k + 1].kind = "fence"
      BY <1>5, <1>9 DEF line
    <3> QED
      BY <1>0, <1>1, <1>2, <3>1, <3>2, Keeping DEF line
  <2> HIDE DEF kept
  <2>2. new = Toggled(kept)
    BY <1>9 DEF new, Scan, kept
  <2>3. /\ new.fence = ~ kept.fence /\ new.blocks = kept.blocks
        /\ new.current = kept.current /\ new.table = kept.table /\ new \in Scanned
    BY <2>1, <2>2 DEF Toggled, Scanned
  <2>4. Collected(lines, a, k + 1, new)
    BY <2>1, <2>3 DEF Collected
  <2>5. new.fence = Inside(lines, (k + 1) + 1)
    BY <1>1, <1>4, <1>9, <2>1, <2>3
  <2>6. \A i \in 1 .. k + 1 : IsOpen(lines, i, k + 1) => a <= i
    <3>1. ASSUME NEW i \in 1 .. k + 1, IsOpen(lines, i, k + 1), i # k + 1 PROVE FALSE
      <4>1. k + 1 \in i + 1 .. k + 1
        BY <3>1
      <4> QED
        BY <1>9, <3>1, <4>1 DEF IsOpen, line
    <3> QED
      BY <1>5, <3>1
  <2>7. \A i \in 1 .. k : ~ IsListing(lines, i, k + 1)
    <3>1. ASSUME NEW i \in 1 .. k, IsListing(lines, i, k + 1) PROVE FALSE
      <4>1. IsOpen(lines, i, k)
        BY <1>0, <3>1, ListingIsOpen
      <4> QED
        BY <1>0, <1>1, <1>9, <4>1, OpenIsInside
    <3> QED
      BY <3>1
  <2>8. \A i, j \in 1 .. k + 1 :
          IsListing(lines, i, j) => Boxed(WordsOf(SubSeq(lines, i, j)), new.blocks)
    <3>1. \A p : Boxed(p, acc.blocks) => Boxed(p, new.blocks)
      BY <2>1, <2>3
    <3> QED
      BY <1>0, <1>3, <2>7, <3>1, ListingsStay
  <2> QED
    BY <2>3, <2>4, <2>5, <2>6, <2>8 DEF Scanning
<1>10. ASSUME line.kind # "fence" PROVE \A i \in 1 .. k : ~ IsListing(lines, i, k + 1)
  BY <1>10 DEF IsListing, line
<1>11. ASSUME line.kind # "fence", acc.fence PROVE Scanning(lines, k + 1, new)
  <2>1. new = Kept(acc, lines[k + 1])
    BY <1>11 DEF new, Scan, line
  <2>2. /\ new \in Scanned /\ new.fence = acc.fence /\ new.blocks = acc.blocks
        /\ Collected(lines, a, k + 1, new)
    <3>1. \E j \in a .. k + 1 : lines[j].kind = "fence"
      BY <1>6, <1>7, <1>11
    <3>2. Inside(lines, k + 1)
      BY <1>1, <1>11
    <3> QED
      BY <1>0, <1>1, <1>2, <2>1, <3>1, <3>2, Keeping
  <2>3. new.fence = Inside(lines, (k + 1) + 1)
    BY <1>1, <1>4, <1>11, <2>2
  <2>4. \A i \in 1 .. k + 1 : IsOpen(lines, i, k + 1) => a <= i
    <3>1. ASSUME NEW i \in 1 .. k + 1, IsOpen(lines, i, k + 1) PROVE a <= i
      <4>1. i # k + 1
        BY <1>11, <3>1 DEF IsOpen, line
      <4>2. i \in 1 .. k
        BY <1>0, <4>1
      <4> QED
        BY <1>0, <1>2, <3>1, <4>2, OpenBefore
    <3> QED
      BY <3>1
  <2>5. \A i, j \in 1 .. k + 1 :
          IsListing(lines, i, j) => Boxed(WordsOf(SubSeq(lines, i, j)), new.blocks)
    BY <1>0, <1>3, <1>10, <1>11, <2>2, ListingsStay
  <2> QED
    BY <2>2, <2>3, <2>4, <2>5 DEF Scanning
<1>12. ASSUME line.kind # "fence", ~ acc.fence PROVE Scanning(lines, k + 1, new)
  <2>1. \A i \in 1 .. k + 1 : ~ IsOpen(lines, i, k + 1)
    BY <1>0, <1>1, <1>4, <1>12, OpenIsInside
  <2>2. CASE line.kind = "blank"
    <3> DEFINE turned == Turned(acc, FALSE)
    <3>1. PICK b : /\ turned \in Scanned /\ turned.fence = acc.fence
                   /\ Collected(lines, b, k, turned)
                   /\ \A p : Boxed(p, acc.blocks) => Boxed(p, turned.blocks)
      BY <1>1, <1>2, <1>12, Turning
    <3> HIDE DEF turned
    <3>2. new = Flushed(turned)
      BY <1>12, <2>2 DEF new, Scan, turned
    <3>3. /\ new \in Scanned /\ new.fence = turned.fence
          /\ Collected(lines, k + 1, k, new)
          /\ \A p : Boxed(p, turned.blocks) => Boxed(p, new.blocks)
      BY <1>12, <3>1, <3>2, Flushing
    <3>4. Collected(lines, (k + 1) + 1, k + 1, new)
      BY <1>0, <2>2, <3>3, Skipping DEF line
    <3>5. \A i, j \in 1 .. k + 1 :
            IsListing(lines, i, j) => Boxed(WordsOf(SubSeq(lines, i, j)), new.blocks)
      BY <1>0, <1>3, <1>10, <1>12, <3>1, <3>3, ListingsStay
    <3>6. new.fence = Inside(lines, (k + 1) + 1)
      BY <1>1, <1>4, <1>12, <3>1, <3>3
    <3> QED
      BY <2>1, <3>3, <3>4, <3>5, <3>6 DEF Scanning
  <2>3. CASE line.kind # "blank"
    <3> DEFINE isRow == line.kind = "row"
               turned == Turned(acc, isRow)
    <3>1. PICK b : /\ turned \in Scanned /\ turned.fence = acc.fence /\ turned.table = isRow
                   /\ Collected(lines, b, k, turned)
                   /\ \A p : Boxed(p, acc.blocks) => Boxed(p, turned.blocks)
      <4>1. isRow \in BOOLEAN
        OBVIOUS
      <4> HIDE DEF isRow
      <4> QED
        BY <1>1, <1>2, <1>12, <4>1, Turning
    <3>2. turned.table => lines[k + 1].kind = "row"
      BY <3>1 DEF line
    <3> HIDE DEF turned
    <3>3. new = Kept(turned, lines[k + 1])
      BY <1>12, <2>3 DEF new, Scan, turned, line
    <3>4. /\ new \in Scanned /\ new.fence = turned.fence /\ new.blocks = turned.blocks
          /\ Collected(lines, b, k + 1, new)
      <4>1. lines[k + 1].kind # "blank"
        BY <2>3 DEF line
      <4> QED
        BY <1>0, <3>1, <3>2, <3>3, <4>1, Keeping
    <3>5. \A i, j \in 1 .. k + 1 :
            IsListing(lines, i, j) => Boxed(WordsOf(SubSeq(lines, i, j)), new.blocks)
      BY <1>0, <1>3, <1>10, <1>12, <3>1, <3>4, ListingsStay
    <3>6. new.fence = Inside(lines, (k + 1) + 1)
      BY <1>1, <1>4, <1>12, <3>1, <3>4
    <3> QED
      BY <2>1, <3>4, <3>5, <3>6 DEF Scanning
  <2> QED
    BY <2>2, <2>3
<1> QED
  BY <1>1, <1>8, <1>9, <1>11, <1>12 DEF new, line

\* The blocks of some lines: no word is lost, an atomic block is whole, and a
\* listing is part of one.
LEMMA BlocksAre ==
  ASSUME NEW lines \in Seq(Lines)
  PROVE  LET blocks == Blocks(lines)
         IN /\ blocks \in Seq(Parts)
            /\ WordsOf(blocks) = WordsOf(lines)
            /\ \A b \in 1 .. Len(blocks) : blocks[b].atomic => IsWhole(lines, blocks[b].words)
            /\ \A i, j \in 1 .. Len(lines) :
                 IsListing(lines, i, j) => Boxed(WordsOf(SubSeq(lines, i, j)), blocks)
<1> DEFINE n == Len(lines)
           end == FoldLeft(Scan, NoBlocks, lines)
           flushed == Flushed(end)
<1>1. n \in Nat /\ lines \in [1 .. n -> Lines]
  OBVIOUS
<1> HIDE DEF n
<1>2. PICK g : /\ g[0] = NoBlocks
               /\ \A k \in 1 .. n : g[k] = Scan(g[k - 1], lines[k])
               /\ end = g[n]
  BY <1>1, BlocksLadder
<1> DEFINE T == {k \in 0 .. n : Scanning(lines, k, g[k])}
<1>3. 0 \in T
  <2>1. Scanning(lines, 0, g[0])
    BY <1>2, ScanningStarts
  <2>2. 0 \in 0 .. n
    BY <1>1
  <2> QED
    BY <2>1, <2>2
<1>4. ASSUME NEW k \in 0 .. n - 1, k \in T PROVE k + 1 \in T
  <2>1. k + 1 \in 1 .. n /\ k + 1 \in 0 .. n /\ (k + 1) - 1 = k
    BY <1>1
  <2>2. g[k + 1] = Scan(g[k], lines[k + 1])
    BY <1>2, <2>1
  <2>3. k \in 0 .. Len(lines) - 1 /\ Scanning(lines, k, g[k])
    BY <1>4 DEF n
  <2>4. Scanning(lines, k + 1, g[k + 1])
    BY <2>2, <2>3, ScanningGoesOn
  <2> QED
    BY <2>1, <2>4
<1>5. Scanning(lines, n, end)
  <2>1. \A k \in 0 .. n : k \in T
    <3> HIDE DEF T
    <3> QED
      BY <1>1, <1>3, <1>4, Climb
  <2>2. n \in T
    BY <1>1, <2>1
  <2> HIDE DEF end
  <2> QED
    BY <1>2, <2>2
<1>6. Blocks(lines) = flushed.blocks
  BY DEF Blocks, NoBlocks
<1> HIDE DEF end
<1>7. end \in Scanned /\ end.fence = Inside(lines, n + 1)
  BY <1>5 DEF Scanning
<1>8. PICK a : /\ Collected(lines, a, n, end)
               /\ \A i \in 1 .. n : IsOpen(lines, i, n) => a <= i
  BY <1>5 DEF Scanning
<1>9. end.fence => \E j \in a .. n : lines[j].kind = "fence"
  <2> SUFFICES ASSUME end.fence PROVE \E j \in a .. n : lines[j].kind = "fence"
    OBVIOUS
  <2>1. PICK i \in 1 .. n : IsOpen(lines, i, n)
    BY <1>1, <1>7, InsideIsOpen
  <2>2. a <= i /\ a \in Nat
    BY <1>1, <1>8, <2>1 DEF Collected
  <2>3. i \in a .. n
    BY <1>1, <2>2
  <2> QED
    BY <2>1, <2>3 DEF IsOpen
<1>10. /\ flushed \in Scanned /\ flushed.current = << >>
       /\ Collected(lines, n + 1, n, flushed)
       /\ \A p : Boxed(p, end.blocks) => Boxed(p, flushed.blocks)
  BY <1>7, <1>8, <1>9, Flushing
<1> HIDE DEF flushed
<1>11. flushed.blocks \in Seq(Parts)
  BY <1>10 DEF Scanned
<1>12. WordsOf(flushed.blocks) = WordsOf(lines)
  <2>1. WordsOf(flushed.blocks) \o WordsOf(<< >>) = WordsOf(SubSeq(lines, 1, n))
    BY <1>10 DEF Collected
  <2>2. SubSeq(lines, 1, n) = lines
    BY SubSeqFull DEF n
  <2>3. WordsOf(flushed.blocks) \in Texts
    BY <1>11, AllWorded, WordsLadderOf
  <2> QED
    BY <2>1, <2>2, <2>3, WordsOfNone, JoinNone
<1>13. \A i, j \in 1 .. n :
         IsListing(lines, i, j) => Boxed(WordsOf(SubSeq(lines, i, j)), flushed.blocks)
  BY <1>5, <1>10 DEF Scanning
<1>14. \A b \in 1 .. Len(flushed.blocks) :
         flushed.blocks[b].atomic => IsWhole(lines, flushed.blocks[b].words)
  BY <1>10 DEF Collected
<1> QED
  BY <1>6, <1>11, <1>12, <1>13, <1>14 DEF n

\* The chunks of some lines.
LEMMA PackIs ==
  ASSUME NEW lines \in Seq(Lines)
  PROVE  LET chunks == Pack(lines)
         IN /\ chunks \in Seq(Pieces)
            /\ WordsOf(chunks) = WordsOf(lines)
            /\ \A k \in 1 .. Len(chunks) :
                 Len(chunks[k].words) > MaxChunkTokens => IsWhole(lines, chunks[k].words)
            /\ \A i, j \in 1 .. Len(lines) : IsListing(lines, i, j) =>
                 \/ WordsOf(SubSeq(lines, i, j)) = << >>
                 \/ \E k \in 1 .. Len(chunks) :
                      Within(WordsOf(SubSeq(lines, i, j)), chunks[k].words)
<1> DEFINE blocks == Blocks(lines)
           whole  == {w \in Texts : IsWhole(lines, w)}
           chunks == Closed(FoldLeft(PutAll, Nothing, blocks))
<1>1. /\ blocks \in Seq(Parts)
      /\ WordsOf(blocks) = WordsOf(lines)
      /\ \A b \in 1 .. Len(blocks) : blocks[b].atomic => IsWhole(lines, blocks[b].words)
      /\ \A i, j \in 1 .. Len(lines) :
           IsListing(lines, i, j) => Boxed(WordsOf(SubSeq(lines, i, j)), blocks)
  BY BlocksAre
<1> HIDE DEF blocks
<1>2. \A b \in 1 .. Len(blocks) : blocks[b].words \in Texts
  <2>1. \A b \in 1 .. Len(blocks) : blocks[b] \in Parts
    BY <1>1, ElementOfSeq
  <2> QED
    BY <2>1 DEF Parts
<1>3. \A b \in 1 .. Len(blocks) : blocks[b].atomic => blocks[b].words \in whole
  BY <1>1, <1>2
<1>4. \A w \in whole : IsWhole(lines, w)
  OBVIOUS
<1> HIDE DEF whole
<1>5. /\ chunks \in Seq(Pieces)
      /\ WordsOf(chunks) = WordsOf(blocks)
      /\ \A k \in 1 .. Len(chunks) : Small(chunks[k].words, whole)
      /\ \A k \in 1 .. Len(blocks) : blocks[k].atomic =>
           \/ blocks[k].words = << >>
           \/ \E m \in 1 .. Len(chunks) : Within(blocks[k].words, chunks[m].words)
  BY <1>1, <1>3, BlocksArePacked
<1>6. Pack(lines) = chunks
  BY DEF Pack, blocks
<1> HIDE DEF chunks
<1>7. \A k \in 1 .. Len(chunks) : chunks[k].words \in Texts
  <2>1. \A k \in 1 .. Len(chunks) : chunks[k] \in Pieces
    BY <1>5, ElementOfSeq
  <2> QED
    BY <2>1 DEF Pieces
<1>8. ASSUME NEW k \in 1 .. Len(chunks), Len(chunks[k].words) > MaxChunkTokens
      PROVE  IsWhole(lines, chunks[k].words)
  <2>1. Len(chunks[k].words) \in Nat /\ MaxChunkTokens \in Nat
    BY <1>7, JoinLength, LimitIsPositive
  <2> QED
    BY <1>4, <1>5, <1>8, <2>1 DEF Small
<1>9. ASSUME NEW i \in 1 .. Len(lines), NEW j \in 1 .. Len(lines), IsListing(lines, i, j)
      PROVE  \/ WordsOf(SubSeq(lines, i, j)) = << >>
             \/ \E k \in 1 .. Len(chunks) :
                  Within(WordsOf(SubSeq(lines, i, j)), chunks[k].words)
  <2> DEFINE p == WordsOf(SubSeq(lines, i, j))
  <2>1. p \in Texts
    <3>1. i \in 1 .. Len(lines) /\ j \in i .. Len(lines) /\ Len(lines) \in Nat
      BY <1>9 DEF IsListing
    <3>2. i \in i .. j /\ j \in i .. j
      BY <3>1
    <3> QED
      BY <3>1, <3>2, WithinLines
  <2>2. Boxed(p, blocks)
    BY <1>1, <1>9
  <2> HIDE DEF p
  <2>3. ASSUME NEW b \in 1 .. Len(blocks), blocks[b].atomic, Within(p, blocks[b].words)
        PROVE  p = << >> \/ \E k \in 1 .. Len(chunks) : Within(p, chunks[k].words)
    <3>1. CASE blocks[b].words = << >>
      BY <1>2, <2>1, <2>3, <3>1, NoneWithin
    <3>2. ASSUME NEW m \in 1 .. Len(chunks), Within(blocks[b].words, chunks[m].words)
          PROVE  Within(p, chunks[m].words)
      BY <1>2, <1>7, <2>1, <2>3, <3>2, WithinWithin
    <3> QED
      BY <1>5, <2>3, <3>1, <3>2
  <2>4. p = << >> \/ \E k \in 1 .. Len(chunks) : Within(p, chunks[k].words)
    BY <2>2, <2>3 DEF Boxed
  <2> QED
    BY <2>4 DEF p
<1> QED
  BY <1>1, <1>5, <1>6, <1>8, <1>9

------------------------------------------------------------------------------
(* Sections. *)

\* The sections, each as the text of its lines.
Texted(done) == [s \in DOMAIN done |-> [words |-> WordsOf(done[s].lines)]]

\* The texts of sections, one for each.
LEMMA TextedType ==
  ASSUME NEW done \in Seq(Cuts)
  PROVE  /\ Texted(done) \in Seq(Pieces) /\ Len(Texted(done)) = Len(done)
         /\ \A s \in 1 .. Len(done) :
              /\ done[s] \in Cuts /\ done[s].lines \in Seq(Lines)
              /\ WordsOf(done[s].lines) \in Texts
              /\ Texted(done)[s].words = WordsOf(done[s].lines)
<1> DEFINE n == Len(done)
<1>1. n \in Nat /\ DOMAIN done = 1 .. n
  OBVIOUS
<1>2. \A s \in 1 .. n : done[s] \in Cuts
  BY ElementOfSeq
<1>3. \A s \in 1 .. n : done[s].lines \in Seq(Lines)
  BY <1>2 DEF Cuts
<1>4. \A s \in 1 .. n : WordsOf(done[s].lines) \in Texts
  BY <1>3, LinesHaveWords
<1>5. \A s \in 1 .. n : [words |-> WordsOf(done[s].lines)] \in Pieces
  BY <1>4 DEF Pieces
<1>6. Texted(done) \in [1 .. n -> Pieces]
  BY <1>1, <1>5 DEF Texted
<1>7. \A s \in 1 .. n : Texted(done)[s].words = WordsOf(done[s].lines)
  BY <1>1 DEF Texted
<1>8. Texted(done) \in Seq(Pieces) /\ Len(Texted(done)) = n
  <2> HIDE DEF n
  <2> QED
    BY <1>1, <1>6
<1> QED
  BY <1>2, <1>3, <1>4, <1>7, <1>8

\* A section with other lines.
LEMMA CutIs ==
  ASSUME NEW section \in Cuts, NEW lines
  PROVE  [section EXCEPT !.lines = lines] = [path |-> section.path, lines |-> lines]
<1>1. section = [path |-> section.path, lines |-> section.lines]
  BY DEF Cuts
<1> DEFINE p == section.path
           old == section.lines
<1> HIDE DEF p, old
<1>2. [[path |-> p, lines |-> old] EXCEPT !.lines = lines] = [path |-> p, lines |-> lines]
  OBVIOUS
<1> QED
  BY <1>1, <1>2 DEF p, old

\* What a line does to the sections.
LEMMA AddLineIs ==
  ASSUME NEW acc \in Sectioned, NEW line \in Lines
  PROVE  LET new  == AddLine(acc, line)
             last == Len(acc.done)
         IN /\ new \in Sectioned
            /\ new.fence = IF line.kind = "fence" THEN ~ acc.fence ELSE acc.fence
            /\ Level(line) > 0 /\ ~ acc.fence =>
                 \E path \in Seq(Texts) :
                   new.done = Append(acc.done, [path |-> path, lines |-> << >>])
            /\ ~ (Level(line) > 0 /\ ~ acc.fence) =>
                 new.done = [acc.done EXCEPT ![last] =
                               [path  |-> acc.done[last].path,
                                lines |-> Append(acc.done[last].lines, line)]]
<1> DEFINE fence == IF line.kind = "fence" THEN ~ acc.fence ELSE acc.fence
           level == Level(line)
           above == IF level > 0 /\ level - 2 < Len(acc.stack)
                    THEN SubSeq(acc.stack, 1, level - 2) ELSE acc.stack
           stack == Append(above, line.words)
           last  == Len(acc.done)
           new   == AddLine(acc, line)
<1>1. new \in Sectioned
  BY AddLineType
<1>2. level > 0 => fence = acc.fence
  BY DEF Level
<1>3. acc.done \in Seq(Cuts) /\ last \in 1 .. Len(acc.done) /\ acc.fence \in BOOLEAN
  BY DEF Sectioned
<1>4. CASE ~ fence /\ level > 0
  <2>1. new = [fence |-> fence, stack |-> stack,
               done  |-> Append(acc.done, [path |-> stack, lines |-> << >>])]
    BY <1>4 DEF AddLine
  <2>2. new.stack \in Seq(Texts)
    BY <1>1 DEF Sectioned
  <2>3. new.stack = stack /\ new.fence = fence
        /\ new.done = Append(acc.done, [path |-> stack, lines |-> << >>])
    <3> HIDE DEF stack, fence
    <3> QED
      BY <2>1
  <2> HIDE DEF stack, new
  <2> QED
    BY <1>1, <1>2, <1>4, <2>2, <2>3 DEF new
<1>5. CASE ~ (~ fence /\ level > 0)
  <2>1. new = [acc EXCEPT !.fence = fence, !.done[last].lines = Append(@, line)]
    BY <1>5 DEF AddLine
  <2>2. new.fence = fence /\ new.done = [acc.done EXCEPT ![last].lines = Append(@, line)]
    <3> HIDE DEF fence, last
    <3> QED
      BY <2>1 DEF Sectioned
  <2>3. acc.done[last] \in Cuts
    <3> HIDE DEF last
    <3> QED
      BY <1>3, ElementOfSeq
  <2>4. [acc.done[last] EXCEPT !.lines = Append(@, line)]
        = [path |-> acc.done[last].path, lines |-> Append(acc.done[last].lines, line)]
    BY <2>3, CutIs
  <2>5. new.done = [acc.done EXCEPT ![last] =
                      [acc.done[last] EXCEPT !.lines = Append(@, line)]]
    BY <1>3, <2>2
  <2> HIDE DEF new
  <2> QED
    BY <1>1, <1>2, <1>5, <2>2, <2>4, <2>5 DEF new
<1> QED
  BY <1>4, <1>5

\* A title is an empty line without its words.
LEMMA UntitledIs ==
  ASSUME NEW body \in Seq(Lines)
  PROVE  /\ Untitled(body) \in Seq(Lines) /\ Len(Untitled(body)) = Len(body)
         /\ \A k \in 1 .. Len(body) :
              Untitled(body)[k].words = IF IsTitle(body, k) THEN << >> ELSE body[k].words
<1> DEFINE n == Len(body)
           blank == Line("blank", << >>)
<1>1. n \in Nat /\ DOMAIN body = 1 .. n
  OBVIOUS
<1>2. \A k \in 1 .. n : body[k] \in Lines
  BY ElementOfSeq
<1>3. blank \in Lines /\ blank.words = << >>
  BY JoinType DEF Line, Lines, LineKinds
<1> HIDE DEF blank
<1>4. Untitled(body) = [k \in 1 .. n |-> IF IsTitle(body, k) THEN blank ELSE body[k]]
  BY <1>1 DEF Untitled, blank
<1> HIDE DEF n
<1>5. Untitled(body) \in [1 .. n -> Lines]
  BY <1>2, <1>3, <1>4
<1>6. Untitled(body) \in Seq(Lines) /\ Len(Untitled(body)) = n
  BY <1>1, <1>5
<1>7. \A k \in 1 .. n :
        Untitled(body)[k].words = IF IsTitle(body, k) THEN << >> ELSE body[k].words
  BY <1>3, <1>4
<1> QED
  BY <1>6, <1>7 DEF n

\* One of the first m sections has the lines from i to j.
Gathered(body, done, m, i, j) ==
  \E s \in 1 .. m : \E a, b : IsCut(body, done[s].lines, a, b) /\ a <= i /\ j <= b

\* What is known of the sections at line k: the last one has the lines from the
\* title above, and a listing is in it or in one before it.
Sectioning(body, k, acc) ==
  /\ acc \in Sectioned
  /\ acc.fence = Inside(body, k + 1)
  /\ \E a : /\ IsCut(body, acc.done[Len(acc.done)].lines, a, k)
            /\ \A i \in 1 .. k : IsOpen(body, i, k) => a <= i
            /\ \A i, j \in 1 .. k : IsListing(body, i, j) =>
                 a <= i \/ Gathered(body, acc.done, Len(acc.done) - 1, i, j)
  /\ \A s \in 1 .. Len(acc.done) : \E a, b : IsCut(body, acc.done[s].lines, a, b)
  /\ WordsOf(Texted(acc.done)) = WordsOf(SubSeq(Untitled(body), 1, k))

\* Sections begin before the first line,
LEMMA SectioningStarts ==
  ASSUME NEW body \in Seq(Lines)
  PROVE  Sectioning(body, 0, NoSections)
<1> DEFINE first == [path |-> << >>, lines |-> << >>]
           done  == <<first>>
<1>1. NoSections.done = done /\ NoSections.fence = FALSE
  BY DEF NoSections
<1>2. first \in Cuts /\ first.lines = << >>
  BY DEF Cuts
<1> HIDE DEF first
<1>3. done \in Seq(Cuts) /\ Len(done) = 1 /\ done[1] = first
  BY <1>2
<1> HIDE DEF done
<1>4. IsCut(body, << >>, 1, 0)
  <2>1. SubSeq(body, 1, 0) = << >>
    BY SubSeqEmpty
  <2>2. ~ Inside(body, 1)
    BY InsideStarts
  <2>3. 1 \in 1 .. Len(body) + 1 /\ 0 \in 1 - 1 .. Len(body)
    OBVIOUS
  <2> QED
    BY <2>1, <2>2, <2>3 DEF IsCut
<1>5. WordsOf(Texted(done)) = << >>
  <2>1. /\ Texted(done) \in Seq(Pieces) /\ Len(Texted(done)) = 1
        /\ Texted(done)[1].words = << >>
    BY <1>2, <1>3, TextedType, WordsOfNone
  <2>2. PICK g : /\ g[0] = << >>
                 /\ \A k \in 1 .. 1 : g[k] = g[k - 1] \o Texted(done)[k].words
                 /\ WordsOf(Texted(done)) = g[1]
    BY <2>1, AllWorded, WordsLadderOf
  <2>3. g[1] = g[0] \o << >>
    <3>1. 1 \in 1 .. 1 /\ 1 - 1 = 0
      OBVIOUS
    <3>2. g[1] = g[1 - 1] \o Texted(done)[1].words
      BY <2>2, <3>1
    <3> QED
      BY <2>1, <3>1, <3>2
  <2> QED
    BY <2>2, <2>3, JoinNone, JoinType
<1>6. WordsOf(SubSeq(Untitled(body), 1, 0)) = << >>
  <2>1. SubSeq(Untitled(body), 1, 0) = << >>
    BY SubSeqEmpty
  <2> QED
    BY <2>1, WordsOfNone
<1>7. Inside(body, 0 + 1) = FALSE
  <2>1. 0 + 1 = 1
    OBVIOUS
  <2> QED
    BY <2>1, InsideStarts
<1>8. \A i \in 1 .. 0 : FALSE
  OBVIOUS
<1>9. \A s \in 1 .. Len(done) : s = 1
  BY <1>3
<1> QED
  BY <1>1, <1>2, <1>3, <1>4, <1>5, <1>6, <1>7, <1>8, <1>9, NoSectionsType DEF Sectioning

\* The words of the sections, when the last one has a line more.
LEMMA TextedMore ==
  ASSUME NEW done \in Seq(Cuts), done # << >>, NEW line \in Lines, NEW new \in Seq(Cuts),
         Len(new) = Len(done),
         \A s \in 1 .. Len(done) - 1 : new[s] = done[s],
         new[Len(done)].lines = Append(done[Len(done)].lines, line)
  PROVE  WordsOf(Texted(new)) = WordsOf(Texted(done)) \o line.words
<1> DEFINE n == Len(done)
<1>1. n \in Nat /\ n >= 1 /\ n \in 1 .. n /\ n - 1 \in 0 .. n
  OBVIOUS
<1>2. /\ Texted(done) \in Seq(Pieces) /\ Len(Texted(done)) = n
      /\ \A s \in 1 .. n : /\ done[s].lines \in Seq(Lines)
                           /\ WordsOf(done[s].lines) \in Texts
                           /\ Texted(done)[s].words = WordsOf(done[s].lines)
  BY TextedType
<1>3. /\ Texted(new) \in Seq(Pieces) /\ Len(Texted(new)) = n
      /\ \A s \in 1 .. n : Texted(new)[s].words = WordsOf(new[s].lines)
  BY TextedType
<1> HIDE DEF n
<1>4. PICK f : /\ \A s \in 0 .. n : f[s] \in Texts
               /\ f[0] = << >>
               /\ \A s \in 1 .. n : f[s] = f[s - 1] \o Texted(done)[s].words
               /\ WordsOf(Texted(done)) = f[n]
  BY <1>2, AllWorded, WordsLadderOf
<1>5. PICK g : /\ g[0] = << >>
               /\ \A s \in 1 .. n : g[s] = g[s - 1] \o Texted(new)[s].words
               /\ WordsOf(Texted(new)) = g[n]
  BY <1>3, AllWorded, WordsLadderOf
<1> DEFINE T == {s \in 0 .. n - 1 : g[s] = f[s]}
<1>6. 0 \in T
  <2>1. 0 \in 0 .. n - 1
    BY <1>1
  <2> QED
    BY <1>4, <1>5, <2>1
<1>7. ASSUME NEW s \in 0 .. (n - 1) - 1, s \in T PROVE s + 1 \in T
  <2>1. s + 1 \in 1 .. n /\ s + 1 \in 1 .. n - 1 /\ s + 1 \in 0 .. n - 1 /\ (s + 1) - 1 = s
    BY <1>1
  <2>2. Texted(new)[s + 1].words = Texted(done)[s + 1].words
    BY <1>2, <1>3, <2>1 DEF n
  <2>3. f[s + 1] = f[s] \o Texted(done)[s + 1].words
    BY <1>4, <2>1
  <2>4. g[s + 1] = g[s] \o Texted(new)[s + 1].words
    BY <1>5, <2>1
  <2>5. g[s] = f[s]
    BY <1>7
  <2> QED
    BY <2>1, <2>2, <2>3, <2>4, <2>5
<1>8. g[n - 1] = f[n - 1]
  <2>1. n - 1 \in Nat
    BY <1>1
  <2>2. \A s \in 0 .. n - 1 : s \in T
    <3> HIDE DEF T
    <3> QED
      BY <2>1, <1>6, <1>7, Climb
  <2>3. n - 1 \in T
    BY <2>1, <2>2
  <2> QED
    BY <2>3
<1> DEFINE w == WordsOf(done[n].lines)
<1>9. Texted(new)[n].words = w \o line.words
  <2>1. WordsOf(Append(done[n].lines, line)) = WordsOf(done[n].lines) \o line.words
    BY <1>1, <1>2, AllWorded, WordsAppend
  <2> QED
    BY <1>1, <1>3, <2>1 DEF n
<1>10. /\ f[n] = f[n - 1] \o w /\ g[n] = f[n - 1] \o (w \o line.words)
       /\ f[n - 1] \in Texts /\ w \in Texts /\ line.words \in Texts
  BY <1>1, <1>2, <1>4, <1>5, <1>8, <1>9 DEF Lines
<1> HIDE DEF w
<1>11. (f[n - 1] \o w) \o line.words = f[n - 1] \o (w \o line.words)
  BY <1>10, JoinAssociates
<1> QED
  BY <1>4, <1>5, <1>10, <1>11

\* ... and go on at every line.
LEMMA SectioningGoesOn ==
  ASSUME NEW body \in Seq(Lines), NEW k \in 0 .. Len(body) - 1, NEW acc, Sectioning(body, k, acc)
  PROVE  Sectioning(body, k + 1, AddLine(acc, body[k + 1]))
<1> DEFINE line == body[k + 1]
           new  == AddLine(acc, line)
           last == Len(acc.done)
<1>0. /\ k \in Nat /\ k + 1 \in Nat /\ k + 1 \in Nat \ {0} /\ k + 1 \in 1 .. Len(body)
      /\ Len(body) \in Nat /\ k < Len(body)
  OBVIOUS
<1>1. /\ acc \in Sectioned /\ acc.fence = Inside(body, k + 1) /\ acc.fence \in BOOLEAN
      /\ acc.done \in Seq(Cuts) /\ acc.done # << >> /\ last \in Nat \ {0} /\ last \in 1 .. last
  BY DEF Sectioning, Sectioned
<1>2. PICK a : /\ IsCut(body, acc.done[last].lines, a, k)
               /\ \A i \in 1 .. k : IsOpen(body, i, k) => a <= i
               /\ \A i, j \in 1 .. k : IsListing(body, i, j) =>
                    a <= i \/ Gathered(body, acc.done, last - 1, i, j)
  BY DEF Sectioning
<1>3. \A s \in 1 .. last : \E b, c : IsCut(body, acc.done[s].lines, b, c)
  BY DEF Sectioning
<1>4. WordsOf(Texted(acc.done)) = WordsOf(SubSeq(Untitled(body), 1, k))
  BY DEF Sectioning
<1>5. line \in Lines
  BY <1>0, ElementOfSeq
<1>6. /\ new \in Sectioned
      /\ new.fence = IF line.kind = "fence" THEN ~ acc.fence ELSE acc.fence
      /\ Level(line) > 0 /\ ~ acc.fence =>
           \E path \in Seq(Texts) :
             new.done = Append(acc.done, [path |-> path, lines |-> << >>])
      /\ ~ (Level(line) > 0 /\ ~ acc.fence) =>
           new.done = [acc.done EXCEPT ![last] =
                         [path  |-> acc.done[last].path,
                          lines |-> Append(acc.done[last].lines, line)]]
  <2> HIDE DEF line
  <2> QED
    BY <1>1, <1>5, AddLineIs
<1>7. Inside(body, (k + 1) + 1) = IF line.kind = "fence" THEN ~ Inside(body, k + 1)
                                  ELSE Inside(body, k + 1)
  BY <1>0, InsideNext
<1>8. new.fence = Inside(body, (k + 1) + 1)
  BY <1>1, <1>6, <1>7
<1>9. WordsOf(SubSeq(Untitled(body), 1, k + 1))
      = WordsOf(SubSeq(Untitled(body), 1, k)) \o
          (IF IsTitle(body, k + 1) THEN << >> ELSE line.words)
  <2>1. k \in 0 .. Len(Untitled(body)) - 1 /\ Untitled(body) \in Seq(Lines) /\ 1 \in 1 .. k + 1
    BY <1>0, UntitledIs
  <2>2. WordsOf(SubSeq(Untitled(body), 1, k + 1))
        = WordsOf(SubSeq(Untitled(body), 1, k)) \o Untitled(body)[k + 1].words
    BY <2>1, WordsNext
  <2> QED
    BY <1>0, <2>2, UntitledIs
<1>10. IsTitle(body, k + 1) <=> Level(line) > 0 /\ ~ acc.fence
  BY <1>1 DEF IsTitle
<1>11. /\ a \in 1 .. Len(body) + 1 /\ a \in 1 .. k + 1 /\ a \in Nat
       /\ acc.done[last].lines = SubSeq(body, a, k) /\ ~ Inside(body, a)
  BY <1>0, <1>2 DEF IsCut
<1>12. WordsOf(Texted(acc.done)) \in Texts
  BY <1>1, TextedType, AllWorded, WordsLadderOf
<1> HIDE DEF line, new, last
<1>13. ASSUME IsTitle(body, k + 1) PROVE Sectioning(body, k + 1, new)
  <2>1. PICK path \in Seq(Texts) : new.done = Append(acc.done, [path |-> path, lines |-> << >>])
    BY <1>6, <1>10, <1>13
  <2> DEFINE section == [path |-> path, lines |-> << >>]
  <2>2. section \in Cuts /\ section.lines = << >>
    BY DEF Cuts
  <2> HIDE DEF section
  <2>3. /\ new.done \in Seq(Cuts) /\ Len(new.done) = last + 1
        /\ \A s \in 1 .. last : new.done[s] = acc.done[s]
        /\ new.done[last + 1] = section
    <3>1. new.done = Append(acc.done, section)
      BY <2>1 DEF section
    <3> QED
      BY <1>1, <2>2, <3>1, AppendProperties DEF last
  <2>4. line.kind # "fence"
    BY <1>10, <1>13 DEF Level
  <2>5. ~ Inside(body, (k + 1) + 1)
    BY <1>1, <1>7, <1>10, <1>13, <2>4
  <2>6. IsCut(body, << >>, (k + 1) + 1, k + 1)
    <3>1. SubSeq(body, (k + 1) + 1, k + 1) = << >>
      BY <1>0, SubSeqEmpty
    <3>2. /\ (k + 1) + 1 \in 1 .. Len(body) + 1
          /\ k + 1 \in ((k + 1) + 1) - 1 .. Len(body)
      BY <1>0
    <3> QED
      BY <2>5, <3>1, <3>2 DEF IsCut
  <2>7. IsCut(body, new.done[Len(new.done)].lines, (k + 1) + 1, k + 1)
    BY <2>2, <2>3, <2>6
  <2>8. \A i \in 1 .. k + 1 : ~ IsOpen(body, i, k + 1)
    BY <1>0, <2>5, OpenIsInside
  <2>9. ASSUME NEW i \in 1 .. k + 1, NEW j \in 1 .. k + 1, IsListing(body, i, j)
        PROVE  Gathered(body, new.done, Len(new.done) - 1, i, j)
    <3>1. j # k + 1
      BY <2>4, <2>9 DEF IsListing, line
    <3>2. i \in 1 .. k /\ j \in 1 .. k
      BY <1>0, <2>9, <3>1 DEF IsListing
    <3>3. Len(new.done) - 1 = last
      BY <1>1, <2>3
    <3>4. CASE a <= i
      <4>1. last \in 1 .. last /\ IsCut(body, new.done[last].lines, a, k) /\ a <= i /\ j <= k
        BY <1>1, <1>2, <2>3, <3>2, <3>4
      <4> QED
        BY <3>3, <4>1 DEF Gathered
    <3>5. CASE ~ (a <= i)
      <4>1. PICK s \in 1 .. last - 1 :
              \E b, c : IsCut(body, acc.done[s].lines, b, c) /\ b <= i /\ j <= c
        BY <1>2, <2>9, <3>2, <3>5 DEF Gathered
      <4>2. s \in 1 .. last
        BY <1>1
      <4>3. new.done[s] = acc.done[s]
        BY <2>3, <4>2
      <4> QED
        BY <3>3, <4>1, <4>2, <4>3 DEF Gathered
    <3> QED
      BY <3>4, <3>5
  <2>10. ASSUME NEW s \in 1 .. Len(new.done)
         PROVE  \E b, c : IsCut(body, new.done[s].lines, b, c)
    <3>1. CASE s = last + 1
      BY <2>3, <2>7, <3>1
    <3>2. CASE s # last + 1
      <4>1. s \in 1 .. last
        BY <1>1, <2>3, <3>2
      <4> QED
        BY <1>3, <2>3, <4>1
    <3> QED
      BY <3>1, <3>2
  <2>11. WordsOf(Texted(new.done)) = WordsOf(SubSeq(Untitled(body), 1, k + 1))
    <3> DEFINE piece == [words |-> << >>]
    <3>1. piece \in Pieces /\ piece.words = << >>
      BY JoinType DEF Pieces
    <3> HIDE DEF piece
    <3>2. Texted(new.done) = Append(Texted(acc.done), piece)
      <4>1. /\ Texted(new.done) \in Seq(Pieces) /\ Len(Texted(new.done)) = last + 1
            /\ \A s \in 1 .. last + 1 : Texted(new.done)[s] = [words |-> WordsOf(new.done[s].lines)]
        <5>1. DOMAIN new.done = 1 .. last + 1
          BY <2>3
        <5> QED
          BY <2>3, <5>1, TextedType DEF Texted
      <4>2. /\ Texted(acc.done) \in Seq(Pieces) /\ Len(Texted(acc.done)) = last
            /\ \A s \in 1 .. last : Texted(acc.done)[s] = [words |-> WordsOf(acc.done[s].lines)]
        <5>1. DOMAIN acc.done = 1 .. last
          BY <1>1 DEF last
        <5> QED
          BY <1>1, <5>1, TextedType DEF Texted, last
      <4>3. /\ Append(Texted(acc.done), piece) \in Seq(Pieces)
            /\ Len(Append(Texted(acc.done), piece)) = last + 1
            /\ \A s \in 1 .. last : Append(Texted(acc.done), piece)[s] = Texted(acc.done)[s]
            /\ Append(Texted(acc.done), piece)[last + 1] = piece
        BY <3>1, <4>2, AppendProperties
      <4>4. ASSUME NEW s \in 1 .. last + 1
            PROVE  Texted(new.done)[s] = Append(Texted(acc.done), piece)[s]
        <5>1. CASE s = last + 1
          <6>1. Texted(new.done)[last + 1] = [words |-> WordsOf(<< >>)]
            BY <1>1, <2>2, <2>3, <4>1, <5>1
          <6> QED
            BY <4>3, <5>1, <6>1, WordsOfNone DEF piece
        <5>2. CASE s # last + 1
          <6>1. s \in 1 .. last
            BY <1>1, <5>2
          <6> QED
            BY <2>3, <4>1, <4>2, <4>3, <6>1
        <5> QED
          BY <5>1, <5>2
      <4> QED
        BY <4>1, <4>3, <4>4, SeqEqual
    <3>3. WordsOf(Append(Texted(acc.done), piece)) = WordsOf(Texted(acc.done)) \o piece.words
      <4>1. Texted(acc.done) \in Seq(Pieces)
        BY <1>1, TextedType
      <4> QED
        BY <3>1, <4>1, AllWorded, WordsAppend
    <3> QED
      BY <1>4, <1>9, <1>13, <3>1, <3>2, <3>3
  <2> QED
    BY <1>6, <1>8, <2>7, <2>8, <2>9, <2>10, <2>11 DEF Sectioning
<1>14. ASSUME ~ IsTitle(body, k + 1) PROVE Sectioning(body, k + 1, new)
  <2> DEFINE section == [path  |-> acc.done[last].path,
                         lines |-> Append(acc.done[last].lines, line)]
  <2>1. new.done = [acc.done EXCEPT ![last] = section]
    BY <1>6, <1>10, <1>14
  <2>2. acc.done[last] \in Cuts
    BY <1>1, ElementOfSeq DEF last
  <2>3. section \in Cuts /\ section.lines = Append(acc.done[last].lines, line)
    BY <1>5, <2>2, AppendProperties DEF Cuts
  <2> HIDE DEF section
  <2>4. /\ new.done \in Seq(Cuts) /\ Len(new.done) = last
        /\ \A s \in 1 .. last : new.done[s] = IF s = last THEN section ELSE acc.done[s]
    BY <1>1, <2>1, <2>3, ExceptSeq DEF last
  <2>5. IsCut(body, new.done[Len(new.done)].lines, a, k + 1)
    <3>1. SubSeq(body, a, k + 1) = Append(SubSeq(body, a, k), line)
      BY <1>0, <1>11, WordsNext DEF line
    <3>2. new.done[last].lines = SubSeq(body, a, k + 1)
      BY <1>1, <1>11, <2>3, <2>4, <3>1
    <3>3. k + 1 \in a - 1 .. Len(body)
      BY <1>0, <1>11
    <3> QED
      BY <1>11, <2>4, <3>2, <3>3 DEF IsCut
  <2>6. ASSUME NEW i \in 1 .. k + 1, IsOpen(body, i, k + 1) PROVE a <= i
    <3>1. CASE i = k + 1
      BY <1>11, <3>1
    <3>2. CASE i # k + 1
      <4>1. i \in 1 .. k
        BY <1>0, <3>2
      <4> QED
        BY <1>0, <1>2, <2>6, <4>1, OpenBefore
    <3> QED
      BY <3>1, <3>2
  <2>7. ASSUME NEW i \in 1 .. k + 1, NEW j \in 1 .. k + 1, IsListing(body, i, j), ~ (a <= i)
        PROVE  Gathered(body, new.done, Len(new.done) - 1, i, j)
    <3>1. i \in 1 .. k
      BY <1>0, <2>7 DEF IsListing
    <3>2. j # k + 1
      <4>1. IsListing(body, i, k + 1) => IsOpen(body, i, k)
        BY <1>0, <3>1, ListingIsOpen
      <4> QED
        BY <1>2, <2>7, <3>1, <4>1
    <3>3. j \in 1 .. k
      BY <1>0, <3>2
    <3>4. PICK s \in 1 .. last - 1 :
            \E b, c : IsCut(body, acc.done[s].lines, b, c) /\ b <= i /\ j <= c
      BY <1>2, <2>7, <3>1, <3>3 DEF Gathered
    <3>5. s \in 1 .. last /\ s # last
      BY <1>1
    <3>6. new.done[s] = acc.done[s]
      BY <2>4, <3>5
    <3> QED
      BY <2>4, <3>4, <3>6 DEF Gathered
  <2>8. ASSUME NEW s \in 1 .. Len(new.done)
        PROVE  \E b, c : IsCut(body, new.done[s].lines, b, c)
    <3>1. CASE s = last
      BY <2>4, <2>5, <3>1
    <3>2. CASE s # last
      BY <1>3, <2>4, <3>2
    <3> QED
      BY <3>1, <3>2
  <2>9. WordsOf(Texted(new.done)) = WordsOf(Texted(acc.done)) \o line.words
    <3>1. \A s \in 1 .. last - 1 : new.done[s] = acc.done[s]
      BY <1>1, <2>4
    <3>2. new.done[last].lines = Append(acc.done[last].lines, line)
      BY <1>1, <2>3, <2>4
    <3> QED
      BY <1>1, <1>5, <2>4, <3>1, <3>2, TextedMore DEF last
  <2>10. WordsOf(Texted(new.done)) = WordsOf(SubSeq(Untitled(body), 1, k + 1))
    BY <1>4, <1>9, <1>14, <2>9
  <2> QED
    BY <1>6, <1>8, <2>5, <2>6, <2>7, <2>8, <2>10 DEF Sectioning
<1> QED
  BY <1>13, <1>14 DEF new, line

\* The sections of a body: no word is lost but the titles', and a listing is in
\* one section.
LEMMA SectionsAre ==
  ASSUME NEW body \in Seq(Lines)
  PROVE  LET done == Sections(body)
         IN /\ done \in Seq(Cuts)
            /\ \A s \in 1 .. Len(done) : \E a, b : IsCut(body, done[s].lines, a, b)
            /\ \A i, j \in 1 .. Len(body) :
                 IsListing(body, i, j) => Gathered(body, done, Len(done), i, j)
            /\ WordsOf(Texted(done)) = WordsOf(Untitled(body))
<1> DEFINE n == Len(body)
           end == FoldLeft(AddLine, NoSections, body)
<1>1. n \in Nat /\ body \in [1 .. n -> Lines]
  OBVIOUS
<1> HIDE DEF n
<1>2. PICK g : /\ g[0] = NoSections
               /\ \A k \in 1 .. n : g[k] = AddLine(g[k - 1], body[k])
               /\ end = g[n]
  BY <1>1, SectionsLadder
<1> DEFINE T == {k \in 0 .. n : Sectioning(body, k, g[k])}
<1>3. 0 \in T
  <2>1. Sectioning(body, 0, g[0])
    BY <1>2, SectioningStarts
  <2>2. 0 \in 0 .. n
    BY <1>1
  <2> QED
    BY <2>1, <2>2
<1>4. ASSUME NEW k \in 0 .. n - 1, k \in T PROVE k + 1 \in T
  <2>1. k + 1 \in 1 .. n /\ k + 1 \in 0 .. n /\ (k + 1) - 1 = k
    BY <1>1
  <2>2. g[k + 1] = AddLine(g[k], body[k + 1])
    BY <1>2, <2>1
  <2>3. k \in 0 .. Len(body) - 1 /\ Sectioning(body, k, g[k])
    BY <1>4 DEF n
  <2>4. Sectioning(body, k + 1, g[k + 1])
    BY <2>2, <2>3, SectioningGoesOn
  <2> QED
    BY <2>1, <2>4
<1>5. Sectioning(body, n, end)
  <2>1. \A k \in 0 .. n : k \in T
    <3> HIDE DEF T
    <3> QED
      BY <1>1, <1>3, <1>4, Climb
  <2>2. n \in T
    BY <1>1, <2>1
  <2> HIDE DEF end
  <2> QED
    BY <1>2, <2>2
<1>6. Sections(body) = end.done
  BY DEF Sections, NoSections
<1> HIDE DEF end
<1> DEFINE done == end.done
           last == Len(done)
<1>7. done \in Seq(Cuts) /\ last \in Nat \ {0} /\ last \in 1 .. last
  BY <1>5 DEF Sectioning, Sectioned
<1>8. PICK a : /\ IsCut(body, done[last].lines, a, n)
               /\ \A i, j \in 1 .. n : IsListing(body, i, j) =>
                    a <= i \/ Gathered(body, done, last - 1, i, j)
  BY <1>5 DEF Sectioning
<1>9. ASSUME NEW i \in 1 .. n, NEW j \in 1 .. n, IsListing(body, i, j)
      PROVE  Gathered(body, done, last, i, j)
  <2>1. CASE a <= i
    <3>1. IsCut(body, done[last].lines, a, n) /\ a <= i /\ j <= n
      BY <1>1, <1>8, <2>1
    <3> QED
      BY <1>7, <3>1 DEF Gathered
  <2>2. CASE ~ (a <= i)
    <3>1. Gathered(body, done, last - 1, i, j)
      BY <1>8, <1>9, <2>2
    <3>2. \A s \in 1 .. last - 1 : s \in 1 .. last
      BY <1>7
    <3> QED
      BY <3>1, <3>2 DEF Gathered
  <2> QED
    BY <2>1, <2>2
<1>10. WordsOf(Texted(done)) = WordsOf(Untitled(body))
  <2>1. SubSeq(Untitled(body), 1, n) = Untitled(body)
    BY UntitledIs, SubSeqFull DEF n
  <2> QED
    BY <1>5, <2>1 DEF Sectioning
<1>11. \A s \in 1 .. last : \E b, c : IsCut(body, done[s].lines, b, c)
  BY <1>5 DEF Sectioning
<1> QED
  BY <1>6, <1>7, <1>9, <1>10, <1>11 DEF n

------------------------------------------------------------------------------
(* Chunks. *)

\* Lines of a cut, as lines of the body.
LEMMA PartOfCut ==
  ASSUME NEW body \in Seq(Lines), NEW a \in 1 .. Len(body), NEW b \in 1 .. Len(body),
         NEW i \in 1 .. b - a + 1, NEW j \in 1 .. b - a + 1
  PROVE  SubSeq(SubSeq(body, a, b), i, j) = SubSeq(body, a + i - 1, a + j - 1)
BY SubSeqOfSubSeq

\* What is whole in a cut is whole in the body.
LEMMA WholeOfCut ==
  ASSUME NEW body \in Seq(Lines), NEW lines, NEW a, NEW b, IsCut(body, lines, a, b),
         NEW w, IsWhole(lines, w)
  PROVE  IsWhole(body, w)
<1>1. /\ lines \in Seq(Lines) /\ Len(lines) \in Nat /\ Len(lines) = b - a + 1
      /\ \A k \in 1 .. Len(lines) : lines[k] = body[a + k - 1] /\ a + k - 1 \in 1 .. Len(body)
  BY LinesOfCut
<1>2. /\ a \in Nat /\ a >= 1 /\ b \in Int /\ b <= Len(body) /\ Len(body) \in Nat
      /\ lines = SubSeq(body, a, b)
  BY DEF IsCut
<1>3. PICK i, j \in DOMAIN lines :
        /\ w = WordsOf(SubSeq(lines, i, j))
        /\ \A k \in i .. j : lines[k].kind = "blank" => Inside(lines, k)
        /\ \/ \E k \in i .. j : lines[k].kind = "fence"
           \/ \A k \in i .. j : lines[k].kind = "row"
  BY DEF IsWhole
<1> DEFINE x == a + i - 1
           y == a + j - 1
<1>4. i \in 1 .. Len(lines) /\ j \in 1 .. Len(lines)
  BY <1>1, <1>3
<1>5. x \in 1 .. Len(body) /\ y \in 1 .. Len(body)
  BY <1>1, <1>4
<1>6. SubSeq(lines, i, j) = SubSeq(body, x, y)
  <2>1. i \in 1 .. b - a + 1 /\ j \in 1 .. b - a + 1
    BY <1>1, <1>4
  <2>2. a \in 1 .. Len(body) /\ b \in 1 .. Len(body)
    BY <1>2, <2>1
  <2>3. SubSeq(SubSeq(body, a, b), i, j) = SubSeq(body, a + i - 1, a + j - 1)
    BY <2>1, <2>2, PartOfCut
  <2> QED
    BY <1>2, <2>3
<1>7. ASSUME NEW k \in x .. y
      PROVE  /\ (k - a) + 1 \in i .. j
             /\ lines[(k - a) + 1] = body[k]
             /\ Inside(lines, (k - a) + 1) = Inside(body, k)
  <2>1. /\ (k - a) + 1 \in i .. j /\ (k - a) + 1 \in 1 .. Len(lines)
        /\ k - a \in 0 .. Len(lines) /\ a + ((k - a) + 1) - 1 = k /\ a + (k - a) = k
    BY <1>1, <1>2, <1>4
  <2>2. lines[(k - a) + 1] = body[k]
    BY <1>1, <2>1
  <2>3. Inside(lines, (k - a) + 1) = Inside(body, a + (k - a))
    BY <2>1, InsideOfCut
  <2> QED
    BY <2>1, <2>2, <2>3
<1>8. ASSUME NEW k \in i .. j PROVE a + k - 1 \in x .. y /\ lines[k] = body[a + k - 1]
  <2>1. k \in 1 .. Len(lines)
    BY <1>1, <1>4
  <2>2. lines[k] = body[a + k - 1]
    BY <1>1, <2>1
  <2>3. a + k - 1 \in x .. y
    <3>1. i \in Int /\ j \in Int /\ k \in Int /\ i <= k /\ k <= j
      BY <1>4
    <3> QED
      BY <1>2, <3>1
  <2> QED
    BY <2>2, <2>3
<1> HIDE DEF x, y
<1>9. \A k \in x .. y : body[k].kind = "blank" => Inside(body, k)
  <2>1. ASSUME NEW k \in x .. y, body[k].kind = "blank" PROVE Inside(body, k)
    <3>1. Inside(lines, (k - a) + 1)
      BY <1>3, <1>7, <2>1
    <3>2. Inside(lines, (k - a) + 1) = Inside(body, k)
      BY <1>7
    <3> QED
      BY <3>1, <3>2
  <2> QED
    BY <2>1
<1>10. \/ \E k \in x .. y : body[k].kind = "fence"
       \/ \A k \in x .. y : body[k].kind = "row"
  <2>1. CASE \E k \in i .. j : lines[k].kind = "fence"
    BY <1>8, <2>1
  <2>2. CASE \A k \in i .. j : lines[k].kind = "row"
    BY <1>7, <2>2
  <2> QED
    BY <1>3, <2>1, <2>2
<1>11. x \in DOMAIN body /\ y \in DOMAIN body
  BY <1>5
<1> QED
  BY <1>3, <1>6, <1>9, <1>10, <1>11 DEF IsWhole

\* A listing in a cut is one there.
LEMMA ListingOfCut ==
  ASSUME NEW body \in Seq(Lines), NEW lines, NEW a, NEW b, IsCut(body, lines, a, b),
         NEW i \in 1 .. Len(body), NEW j \in 1 .. Len(body), IsListing(body, i, j),
         a <= i, j <= b
  PROVE  \E x, y \in 1 .. Len(lines) :
           IsListing(lines, x, y) /\ SubSeq(lines, x, y) = SubSeq(body, i, j)
<1>1. /\ lines \in Seq(Lines) /\ Len(lines) \in Nat /\ Len(lines) = b - a + 1
      /\ \A k \in 1 .. Len(lines) : lines[k] = body[a + k - 1] /\ a + k - 1 \in 1 .. Len(body)
  BY LinesOfCut
<1>2. /\ a \in Nat /\ a >= 1 /\ b \in Int /\ b <= Len(body) /\ Len(body) \in Nat
      /\ lines = SubSeq(body, a, b)
  BY DEF IsCut
<1>3. /\ i < j /\ ~ Inside(body, i) /\ body[i].kind = "fence" /\ body[j].kind = "fence"
      /\ \A k \in i + 1 .. j - 1 : body[k].kind # "fence"
  BY DEF IsListing
<1> DEFINE x == (i - a) + 1
           y == (j - a) + 1
<1>4. /\ x \in 1 .. Len(lines) /\ y \in 1 .. Len(lines) /\ x < y
      /\ a + x - 1 = i /\ a + y - 1 = j /\ i - a \in 0 .. Len(lines) /\ a + (i - a) = i
  BY <1>1, <1>2, <1>3
<1>5. lines[x] = body[i] /\ lines[y] = body[j]
  BY <1>1, <1>4
<1>6. ~ Inside(lines, x)
  <2>1. Inside(lines, (i - a) + 1) = Inside(body, a + (i - a))
    BY <1>4, InsideOfCut
  <2> QED
    BY <1>3, <1>4, <2>1
<1>7. ASSUME NEW k \in x + 1 .. y - 1 PROVE lines[k].kind # "fence"
  <2>1. k \in 1 .. Len(lines) /\ a + k - 1 \in i + 1 .. j - 1
    BY <1>1, <1>2, <1>4
  <2> QED
    BY <1>1, <1>3, <2>1
<1>8. SubSeq(lines, x, y) = SubSeq(body, i, j)
  <2>1. x \in 1 .. b - a + 1 /\ y \in 1 .. b - a + 1
    BY <1>1, <1>4
  <2>2. a \in 1 .. Len(body) /\ b \in 1 .. Len(body)
    BY <1>2, <2>1
  <2>3. SubSeq(SubSeq(body, a, b), x, y) = SubSeq(body, a + x - 1, a + y - 1)
    <3> HIDE DEF x, y
    <3> QED
      BY <2>1, <2>2, PartOfCut
  <2> QED
    BY <1>2, <1>4, <2>3
<1> HIDE DEF x, y
<1>9. IsListing(lines, x, y)
  BY <1>3, <1>4, <1>5, <1>6, <1>7 DEF IsListing
<1> QED
  BY <1>4, <1>8, <1>9

\* The same words, part by part.
LEMMA SameWords ==
  ASSUME NEW S, Worded(S), NEW R, Worded(R), NEW s \in Seq(S), NEW t \in Seq(R),
         Len(s) = Len(t), \A k \in 1 .. Len(s) : s[k].words = t[k].words
  PROVE  WordsOf(s) = WordsOf(t)
<1> DEFINE n == Len(s)
<1>1. n \in Nat /\ Len(t) = n
  OBVIOUS
<1>2. PICK f : /\ f[0] = << >>
               /\ \A k \in 1 .. n : f[k] = f[k - 1] \o s[k].words
               /\ WordsOf(s) = f[n]
  BY WordsLadderOf
<1>3. PICK g : /\ g[0] = << >>
               /\ \A k \in 1 .. n : g[k] = g[k - 1] \o t[k].words
               /\ WordsOf(t) = g[n]
  <2>1. \E g : /\ g[0] = << >>
               /\ \A k \in 1 .. Len(t) : g[k] = g[k - 1] \o t[k].words
               /\ WordsOf(t) = g[Len(t)]
    BY WordsLadderOf
  <2> QED
    BY <1>1, <2>1
<1>4. \A k \in 1 .. n : s[k].words = t[k].words
  OBVIOUS
<1> HIDE DEF n
<1> DEFINE T == {k \in 0 .. n : f[k] = g[k]}
<1>5. 0 \in T
  BY <1>1, <1>2, <1>3
<1>6. ASSUME NEW k \in 0 .. n - 1, k \in T PROVE k + 1 \in T
  <2>1. k + 1 \in 1 .. n /\ k + 1 \in 0 .. n /\ (k + 1) - 1 = k
    BY <1>1
  <2>2. f[k + 1] = f[k] \o s[k + 1].words
    BY <1>2, <2>1
  <2>3. g[k + 1] = g[k] \o t[k + 1].words
    BY <1>3, <2>1
  <2>4. f[k] = g[k] /\ s[k + 1].words = t[k + 1].words
    BY <1>4, <1>6, <2>1
  <2> QED
    BY <2>1, <2>2, <2>3, <2>4
<1>7. n \in T
  <2>1. \A k \in 0 .. n : k \in T
    <3> HIDE DEF T
    <3> QED
      BY <1>1, <1>5, <1>6, Climb
  <2> QED
    BY <1>1, <2>1
<1> QED
  BY <1>2, <1>3, <1>7

Headed == [heading : Seq(Texts), words : Texts]

Chunked == Seq(Headed)

HeadedIsWorded == Worded(Headed)

\* Where the chunks of a body begin.
LEMMA NoneIsChunked == << >> \in Chunked /\ HeadedIsWorded
BY DEF Chunked, HeadedIsWorded, Worded, Headed

\* A text that one of some parts has.
Among(p, parts) == \E m \in 1 .. Len(parts) : Within(p, parts[m].words)

\* The chunks of a section join those before it.
LEMMA AddSectionIs ==
  ASSUME NEW chunks \in Chunked, NEW section \in Cuts
  PROVE  LET new    == AddSection(chunks, section)
             pieces == Pack(section.lines)
         IN /\ new \in Chunked
            /\ WordsOf(new) = WordsOf(chunks) \o WordsOf(section.lines)
            /\ \A m \in 1 .. Len(new) :
                 \/ \E k \in 1 .. Len(chunks) : new[m].words = chunks[k].words
                 \/ \E k \in 1 .. Len(pieces) : new[m].words = pieces[k].words
            /\ \A p : Among(p, chunks) \/ Among(p, pieces) => Among(p, new)
<1> DEFINE pieces == Pack(section.lines)
           headed == [k \in DOMAIN pieces |-> [heading |-> section.path, words |-> pieces[k].words]]
           new    == AddSection(chunks, section)
           c      == Len(chunks)
           d      == Len(pieces)
<1>1. section.lines \in Seq(Lines) /\ section.path \in Seq(Texts)
  BY DEF Cuts
<1>2. pieces \in Seq(Pieces) /\ WordsOf(pieces) = WordsOf(section.lines)
  BY <1>1, PackIs
<1>3. new = chunks \o headed
  BY DEF AddSection
<1> HIDE DEF pieces
<1>4. d \in Nat /\ DOMAIN pieces = 1 .. d /\ \A k \in 1 .. d : pieces[k].words \in Texts
  <2>1. \A k \in 1 .. d : pieces[k] \in Pieces
    BY <1>2, ElementOfSeq
  <2> QED
    BY <1>2, <2>1 DEF Pieces
<1> HIDE DEF d, new
<1>5. \A k \in 1 .. d : [heading |-> section.path, words |-> pieces[k].words] \in Headed
  BY <1>1, <1>4 DEF Headed
<1>6. headed \in [1 .. d -> Headed] /\ \A k \in 1 .. d : headed[k].words = pieces[k].words
  BY <1>4, <1>5
<1> HIDE DEF headed
<1>7. headed \in Seq(Headed) /\ Len(headed) = d
  BY <1>4, <1>6
<1>8. WordsOf(headed) = WordsOf(pieces)
  BY <1>2, <1>6, <1>7, SameWords, AllWorded, NoneIsChunked DEF HeadedIsWorded, d
<1>9. chunks \in Seq(Headed) /\ c \in Nat
  BY DEF Chunked
<1>10. new \in Chunked /\ WordsOf(new) = WordsOf(chunks) \o WordsOf(section.lines)
  <2>1. new \in Chunked
    BY <1>3, <1>7, <1>9, ConcatProperties DEF Chunked
  <2>2. WordsOf(chunks \o headed) = WordsOf(chunks) \o WordsOf(headed)
    BY <1>7, <1>9, NoneIsChunked, WordsJoin DEF HeadedIsWorded
  <2> QED
    BY <1>2, <1>3, <1>8, <2>1, <2>2
<1>11. /\ Len(new) = c + d
       /\ \A m \in 1 .. c + d : new[m] = IF m <= c THEN chunks[m] ELSE headed[m - c]
  <2>1. /\ Len(chunks \o headed) = Len(chunks) + Len(headed)
        /\ \A m \in 1 .. Len(chunks) + Len(headed) : (chunks \o headed)[m] =
             IF m <= Len(chunks) THEN chunks[m] ELSE headed[m - Len(chunks)]
    BY <1>7, <1>9, ConcatProperties
  <2> QED
    BY <1>3, <1>7, <2>1
<1> HIDE DEF c
<1>12. ASSUME NEW m \in 1 .. Len(new)
       PROVE  \/ \E k \in 1 .. c : new[m].words = chunks[k].words
              \/ \E k \in 1 .. d : new[m].words = pieces[k].words
  <2>1. CASE m <= c
    <3>1. m \in 1 .. c /\ new[m] = chunks[m]
      BY <1>4, <1>9, <1>11, <2>1
    <3> QED
      BY <3>1
  <2>2. CASE ~ (m <= c)
    <3>1. m - c \in 1 .. d /\ new[m] = headed[m - c]
      BY <1>4, <1>9, <1>11, <2>2
    <3>2. new[m].words = pieces[m - c].words
      BY <1>6, <3>1
    <3> QED
      BY <3>1, <3>2
  <2> QED
    BY <2>1, <2>2
<1>13. ASSUME NEW p, Among(p, chunks) PROVE Among(p, new)
  <2>1. PICK k \in 1 .. c : Within(p, chunks[k].words)
    BY <1>13 DEF Among, c
  <2>2. k \in 1 .. Len(new) /\ new[k] = chunks[k]
    BY <1>4, <1>9, <1>11
  <2> QED
    BY <2>1, <2>2 DEF Among
<1>14. ASSUME NEW p, Among(p, pieces) PROVE Among(p, new)
  <2>1. PICK k \in 1 .. d : Within(p, pieces[k].words)
    BY <1>14 DEF Among, d
  <2>2. c + k \in 1 .. Len(new) /\ new[c + k] = headed[k]
    <3>1. c + k \in 1 .. c + d /\ ~ (c + k <= c) /\ (c + k) - c = k
      BY <1>4, <1>9
    <3> QED
      BY <1>11, <3>1
  <2>3. new[c + k].words = pieces[k].words
    BY <1>6, <2>2
  <2> QED
    BY <2>1, <2>2, <2>3 DEF Among
<1> QED
  BY <1>10, <1>12, <1>13, <1>14 DEF new, pieces, c, d

\* Chunks stay chunks, section by section.
LEMMA AddSectionType ==
  ASSUME NEW chunks \in Chunked, NEW section \in Cuts
  PROVE  AddSection(chunks, section) \in Chunked
BY AddSectionIs

\* Sections, one after the other.
LEMMA AddSectionLadder ==
  ASSUME NEW n \in Nat, NEW seq \in [1 .. n -> Cuts]
  PROVE  \E g : /\ \A k \in 0 .. n : g[k] \in Chunked
                /\ g[0] = << >>
                /\ \A k \in 1 .. n : g[k] = AddSection(g[k - 1], seq[k])
                /\ FoldLeft(AddSection, << >>, seq) = g[n]
<1> DEFINE F == [k \in 1 .. n |-> [x \in Chunked |-> AddSection(x, seq[k])]]
           Is(h) == h = [s \in SUBSET (1 .. n) |->
                           IF s = {} THEN << >>
                           ELSE AddSection(h[s \ {Max(s)}], seq[Max(s)])]
<1>1. << >> \in Chunked /\ F \in [1 .. n -> [Chunked -> Chunked]]
  BY NoneIsChunked, AddSectionType
<1>2. PICK t \in [SUBSET (1 .. n) -> Chunked] : IsTable(t, << >>, F, n)
  <2> HIDE DEF F
  <2> QED
    BY <1>1, TableIs DEF HasTable
<1>3. Is(t)
  <2>1. ASSUME NEW s \in SUBSET (1 .. n), s # {}
        PROVE  F[Max(s)][t[s \ {Max(s)}]] = AddSection(t[s \ {Max(s)}], seq[Max(s)])
    BY <2>1, TopIn
  <2> HIDE DEF F
  <2> QED
    BY <1>2, <2>1 DEF IsTable
<1> DEFINE iter == CHOOSE h : Is(h)
<1>4. Is(iter)
  BY <1>3
<1>5. FoldLeft(AddSection, << >>, seq) = iter[1 .. n]
  BY DEF FoldLeft, MapThenFoldSet
<1> HIDE DEF iter
<1> DEFINE g == [k \in 0 .. n |-> iter[1 .. k]]
<1>6. ASSUME NEW k \in 1 .. n PROVE iter[1 .. k] = AddSection(iter[1 .. k - 1], seq[k])
  <2>1. /\ 1 .. k \in SUBSET (1 .. n) /\ 1 .. k # {}
        /\ Max(1 .. k) = k /\ (1 .. k) \ {k} = 1 .. k - 1
    BY RunTo
  <2> QED
    BY <1>4, <2>1
<1>7. g[0] = << >>
  BY <1>4
<1>8. ASSUME NEW k \in 1 .. n PROVE g[k] = AddSection(g[k - 1], seq[k])
  <2>1. g[k] = iter[1 .. k] /\ g[k - 1] = iter[1 .. k - 1]
    OBVIOUS
  <2> QED
    BY <1>6, <2>1
<1>9. FoldLeft(AddSection, << >>, seq) = g[n]
  BY <1>5
<1>10. \A k \in 0 .. n : g[k] \in Chunked
  <2> HIDE DEF g
  <2>1. ASSUME NEW k \in 1 .. n, g[k - 1] \in Chunked PROVE g[k] \in Chunked
    BY <1>8, <2>1, AddSectionType
  <2> HIDE DEF F
  <2> QED
    BY <1>1, <1>7, <2>1, Stays
<1> HIDE DEF g
<1> QED
  BY <1>7, <1>8, <1>9, <1>10

\* The chunks of the sections of a body.
LEMMA SectionsHold ==
  ASSUME NEW body \in Seq(Lines), NEW done \in Seq(Cuts),
         \A s \in 1 .. Len(done) : \E a, b : IsCut(body, done[s].lines, a, b)
  PROVE  LET chunks == FoldLeft(AddSection, << >>, done)
         IN /\ chunks \in Chunked
            /\ WordsOf(chunks) = WordsOf(Texted(done))
            /\ \A m \in 1 .. Len(chunks) :
                 Len(chunks[m].words) > MaxChunkTokens => IsWhole(body, chunks[m].words)
            /\ \A s \in 1 .. Len(done) : \A p : Among(p, Pack(done[s].lines)) => Among(p, chunks)
<1> DEFINE n == Len(done)
           chunks == FoldLeft(AddSection, << >>, done)
<1>1. n \in Nat /\ done \in [1 .. n -> Cuts]
  OBVIOUS
<1>2. /\ Texted(done) \in Seq(Pieces) /\ Len(Texted(done)) = n
      /\ \A s \in 1 .. n : /\ done[s] \in Cuts /\ done[s].lines \in Seq(Lines)
                           /\ Texted(done)[s].words = WordsOf(done[s].lines)
  BY TextedType
<1>3. \A s \in 1 .. n : \E a, b : IsCut(body, done[s].lines, a, b)
  OBVIOUS
<1> HIDE DEF n
<1>4. PICK g : /\ \A k \in 0 .. n : g[k] \in Chunked
               /\ g[0] = << >>
               /\ \A k \in 1 .. n : g[k] = AddSection(g[k - 1], done[k])
               /\ chunks = g[n]
  BY <1>1, AddSectionLadder
<1>5. PICK t : /\ t[0] = << >>
               /\ \A k \in 1 .. n : t[k] = t[k - 1] \o Texted(done)[k].words
               /\ WordsOf(Texted(done)) = t[n]
  BY <1>2, AllWorded, WordsLadderOf
<1> HIDE DEF chunks
<1> DEFINE Goes(k) ==
             /\ WordsOf(g[k]) = t[k]
             /\ \A m \in 1 .. Len(g[k]) :
                  Len(g[k][m].words) > MaxChunkTokens => IsWhole(body, g[k][m].words)
             /\ \A s \in 1 .. k : \A p : Among(p, Pack(done[s].lines)) => Among(p, g[k])
           T == {k \in 0 .. n : Goes(k)}
<1>6. 0 \in T
  <2>1. 0 \in 0 .. n /\ \A s \in 1 .. 0 : FALSE
    BY <1>1
  <2>2. \A m \in 1 .. Len(g[0]) : FALSE
    BY <1>4
  <2>3. Goes(0)
    BY <1>4, <1>5, <2>1, <2>2, WordsOfNone
  <2> QED
    BY <2>1, <2>3
<1>7. ASSUME NEW k \in 0 .. n - 1, k \in T PROVE k + 1 \in T
  <2>1. k + 1 \in 1 .. n /\ k + 1 \in 0 .. n /\ k \in 0 .. n /\ (k + 1) - 1 = k
    BY <1>1
  <2>2. Goes(k)
    BY <1>7
  <2> DEFINE section == done[k + 1]
             new     == g[k + 1]
             pieces  == Pack(section.lines)
  <2>3. section \in Cuts /\ section.lines \in Seq(Lines) /\ g[k] \in Chunked
    BY <1>2, <1>4, <2>1
  <2>4. new = AddSection(g[k], section)
    BY <1>4, <2>1
  <2>5. t[k + 1] = t[k] \o WordsOf(section.lines)
    BY <1>2, <1>5, <2>1
  <2>6. PICK a, b : IsCut(body, section.lines, a, b)
    BY <1>3, <2>1
  <2> HIDE DEF section, new
  <2>7. /\ new \in Chunked
        /\ WordsOf(new) = WordsOf(g[k]) \o WordsOf(section.lines)
        /\ \A m \in 1 .. Len(new) :
             \/ \E x \in 1 .. Len(g[k]) : new[m].words = g[k][x].words
             \/ \E x \in 1 .. Len(pieces) : new[m].words = pieces[x].words
        /\ \A p : Among(p, g[k]) \/ Among(p, pieces) => Among(p, new)
    BY <2>3, <2>4, AddSectionIs
  <2>8. \A x \in 1 .. Len(pieces) :
          Len(pieces[x].words) > MaxChunkTokens => IsWhole(section.lines, pieces[x].words)
    BY <2>3, PackIs
  <2> HIDE DEF pieces
  <2>9. ASSUME NEW m \in 1 .. Len(new), Len(new[m].words) > MaxChunkTokens
        PROVE  IsWhole(body, new[m].words)
    <3>1. ASSUME NEW x \in 1 .. Len(g[k]), new[m].words = g[k][x].words
          PROVE  IsWhole(body, new[m].words)
      BY <2>2, <2>9, <3>1
    <3>2. ASSUME NEW x \in 1 .. Len(pieces), new[m].words = pieces[x].words
          PROVE  IsWhole(body, new[m].words)
      <4>1. IsWhole(section.lines, pieces[x].words)
        BY <2>8, <2>9, <3>2
      <4> QED
        BY <2>6, <3>2, <4>1, WholeOfCut
    <3> QED
      BY <2>7, <3>1, <3>2
  <2>10. ASSUME NEW s \in 1 .. k + 1, NEW p, Among(p, Pack(done[s].lines))
         PROVE  Among(p, new)
    <3>1. CASE s = k + 1
      BY <2>7, <2>10, <3>1 DEF pieces, section
    <3>2. CASE s # k + 1
      <4>1. s \in 1 .. k
        BY <3>2
      <4> QED
        BY <2>2, <2>7, <2>10, <4>1
    <3> QED
      BY <3>1, <3>2
  <2>11. WordsOf(new) = t[k + 1]
    BY <2>2, <2>5, <2>7
  <2>12. Goes(k + 1)
    BY <2>9, <2>10, <2>11 DEF new
  <2> QED
    BY <2>1, <2>12
<1>8. \A k \in 0 .. n : k \in T
  <2> HIDE DEF T
  <2> QED
    BY <1>1, <1>6, <1>7, Climb
<1>9. Goes(n) /\ chunks \in Chunked
  <2>1. n \in 0 .. n
    BY <1>1
  <2>2. n \in T
    BY <1>8, <2>1
  <2>3. Goes(n)
    BY <2>2
  <2> HIDE DEF Goes
  <2> QED
    BY <1>4, <2>1, <2>3
<1> QED
  BY <1>4, <1>5, <1>9 DEF n, chunks

\* A body with words outside its titles is cut into chunks that hold them all,
\* in order; a listing is in one chunk, and a chunk over the limit is whole.
THEOREM ChunksHold ==
  ASSUME NEW body \in Seq(Lines), WordsOf(Untitled(body)) # << >>
  PROVE  Hold(ChunkBody(body), body)
<1> DEFINE done   == Sections(body)
           chunks == FoldLeft(AddSection, << >>, done)
<1>1. /\ done \in Seq(Cuts)
      /\ \A s \in 1 .. Len(done) : \E a, b : IsCut(body, done[s].lines, a, b)
      /\ \A i, j \in 1 .. Len(body) :
           IsListing(body, i, j) => Gathered(body, done, Len(done), i, j)
      /\ WordsOf(Texted(done)) = WordsOf(Untitled(body))
  BY SectionsAre
<1>2. ChunkBody(body) = IF chunks = << >>
                        THEN <<[heading |-> << >>, words |-> WordsOf(body)]>> ELSE chunks
  BY DEF ChunkBody
<1> HIDE DEF done
<1>3. /\ chunks \in Chunked
      /\ WordsOf(chunks) = WordsOf(Texted(done))
      /\ \A m \in 1 .. Len(chunks) :
           Len(chunks[m].words) > MaxChunkTokens => IsWhole(body, chunks[m].words)
      /\ \A s \in 1 .. Len(done) : \A p : Among(p, Pack(done[s].lines)) => Among(p, chunks)
  BY <1>1, SectionsHold
<1> HIDE DEF chunks
<1>4. chunks # << >>
  BY <1>1, <1>3, WordsOfNone
<1>5. ChunkBody(body) = chunks
  BY <1>2, <1>4
<1>6. /\ Len(chunks) \in Nat \ {0} /\ DOMAIN chunks = 1 .. Len(chunks)
      /\ \A m \in 1 .. Len(chunks) : chunks[m].words \in Texts
  <2>1. chunks \in Seq(Headed)
    BY <1>3 DEF Chunked
  <2>2. \A m \in 1 .. Len(chunks) : chunks[m] \in Headed
    BY <2>1, ElementOfSeq
  <2> QED
    BY <1>4, <2>1, <2>2 DEF Headed
<1>7. DOMAIN body = 1 .. Len(body) /\ Len(body) \in Nat
  OBVIOUS
<1>8. ASSUME NEW i \in 1 .. Len(body), NEW j \in 1 .. Len(body), IsListing(body, i, j)
      PROVE  \E k \in 1 .. Len(chunks) : IsFound(WordsOf(SubSeq(body, i, j)), chunks[k].words)
  <2> DEFINE p == WordsOf(SubSeq(body, i, j))
  <2>1. PICK s \in 1 .. Len(done) :
          \E a, b : IsCut(body, done[s].lines, a, b) /\ a <= i /\ j <= b
    BY <1>1, <1>8 DEF Gathered
  <2> DEFINE lines == done[s].lines
  <2>2. PICK a, b : IsCut(body, lines, a, b) /\ a <= i /\ j <= b
    BY <2>1
  <2> HIDE DEF lines
  <2>3. PICK x, y \in 1 .. Len(lines) :
          IsListing(lines, x, y) /\ SubSeq(lines, x, y) = SubSeq(body, i, j)
    BY <1>8, <2>2, ListingOfCut
  <2>4. lines \in Seq(Lines)
    BY <2>2, LinesOfCut
  <2>5. p \in Texts
    <3>1. i \in i .. j /\ j \in i .. j /\ j \in i .. Len(body)
      BY <1>8 DEF IsListing
    <3> QED
      BY <3>1, WithinLines
  <2>6. p = << >> \/ Among(p, Pack(lines))
    <3>1. \/ WordsOf(SubSeq(lines, x, y)) = << >>
          \/ \E k \in 1 .. Len(Pack(lines)) :
               Within(WordsOf(SubSeq(lines, x, y)), Pack(lines)[k].words)
      BY <2>3, <2>4, PackIs
    <3> QED
      BY <2>3, <3>1 DEF Among
  <2>7. ASSUME Among(p, chunks) PROVE \E k \in 1 .. Len(chunks) : IsFound(p, chunks[k].words)
    <3>1. PICK k \in 1 .. Len(chunks) : Within(p, chunks[k].words)
      BY <2>7 DEF Among
    <3> HIDE DEF p
    <3> QED
      BY <1>6, <2>5, <3>1, WithinIsFound
  <2>8. ASSUME p = << >> PROVE \E k \in 1 .. Len(chunks) : IsFound(p, chunks[k].words)
    <3>1. 1 \in 1 .. Len(chunks)
      BY <1>6
    <3> DEFINE w == chunks[1].words
    <3>2. w \in Texts
      BY <1>6, <3>1
    <3> HIDE DEF w, p
    <3>3. Within(p, w)
      <4>1. << >> \in Texts /\ w = (<< >> \o << >>) \o w
        BY <3>2, JoinNone, JoinType
      <4> QED
        BY <2>8, <3>2, <4>1 DEF Within
    <3>4. IsFound(p, w)
      BY <2>5, <3>2, <3>3, WithinIsFound
    <3> QED
      BY <3>1, <3>4 DEF w
  <2>9. Among(p, Pack(lines)) => Among(p, chunks)
    <3> HIDE DEF p
    <3> QED
      BY <1>3 DEF lines
  <2> HIDE DEF p
  <2> QED
    BY <2>6, <2>7, <2>8, <2>9 DEF p
<1> QED
  BY <1>1, <1>3, <1>5, <1>6, <1>7, <1>8 DEF Hold

===============================================================================
