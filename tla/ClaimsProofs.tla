----------------------------- MODULE ClaimsProofs -----------------------------
(* Lemmas about the claims rules, on lists of any length: minted ids are      *)
(* fresh, ApplyClaims keeps what is there, edits rewrite texts only.          *)
EXTENDS Claims, SequenceTheorems, WellFoundedInduction, TLAPS

(* The library states well-foundedness with an operator parameter; the sets   *)
(* below restate what is used of it.                                          *)
Below == {p \in Nat \X Nat : p[1] < p[2]}

(* The order of the naturals is well founded.                                 *)
LEMMA BelowWF == IsWellFoundedOn(Below, Nat)
  <1>1. Below = OpToRel(<, Nat)
    BY DEF Below, OpToRel
  <1> QED BY <1>1, NatLessThanWellFounded

(* A nonempty set of naturals has a least element.                            *)
LEMMA LeastElement ==
  ASSUME NEW T \in SUBSET Nat, T # {}
  PROVE \E m \in T : \A k \in T : m <= k
  <1>1. PICK m \in T : \A k \in T : ~ (<<k, m>> \in Below)
    BY BelowWF, WFMin
  <1>2. \A k \in T : m <= k
    <2> SUFFICES ASSUME NEW k \in T PROVE m <= k
      OBVIOUS
    <2>1. <<k, m>> \in Nat \X Nat /\ ~ (<<k, m>> \in Below)
      BY <1>1
    <2>2. ~ (k < m)
      BY <2>1 DEF Below
    <2> QED BY <2>2
  <1> QED BY <1>2

(* A nonempty bounded set of naturals has a greatest element.                 *)
LEMMA BoundedHasMax ==
  ASSUME NEW S \in SUBSET Nat, NEW b \in Nat, S # {}, \A s \in S : s <= b
  PROVE  \E m \in S : \A s \in S : s <= m
  <1> DEFINE U == {u \in Nat : \A s \in S : s <= u}
  <1>1. U \in SUBSET Nat /\ U # {}
    OBVIOUS
  <1>2. PICK m \in U : \A u \in U : m <= u
    BY <1>1, LeastElement
  <1>3. m \in S
    <2> SUFFICES ASSUME m \notin S PROVE FALSE
      OBVIOUS
    <2>1. \A s \in S : s < m
      OBVIOUS
    <2>2. m - 1 \in Nat
      <3>1. PICK s \in S : s \in Nat
        OBVIOUS
      <3>2. s < m /\ m \in Nat
        BY <2>1, <3>1
      <3> QED BY <3>1, <3>2
    <2>3. \A s \in S : s <= m - 1
      BY <2>1
    <2>4. m <= m - 1
      BY <1>2, <2>2, <2>3
    <2> QED BY <2>4
  <1> QED BY <1>3

(* The values of a finite sequence of naturals are bounded.                   *)
LEMMA SeqBounded ==
  ASSUME NEW n \in Nat, NEW f \in [1 .. n -> Nat]
  PROVE  \E b \in Nat : \A k \in 1 .. n : f[k] <= b
  <1> DEFINE Bounded(j) == \E b \in Nat : \A k \in 1 .. j : f[k] <= b
             Bad == {j \in 0 .. n : ~ Bounded(j)}
  <1>1. Bounded(0)
    OBVIOUS
  <1>2. \A j \in 1 .. n : Bounded(j - 1) => Bounded(j)
    <2> SUFFICES ASSUME NEW j \in 1 .. n, Bounded(j - 1) PROVE Bounded(j)
      OBVIOUS
    <2>1. PICK b \in Nat : \A k \in 1 .. j - 1 : f[k] <= b
      OBVIOUS
    <2>2. f[j] \in Nat
      OBVIOUS
    <2>3. PICK c \in Nat : b <= c /\ f[j] <= c
      <3>1. CASE b <= f[j]
        BY <2>2, <3>1
      <3>2. CASE f[j] <= b
        BY <2>2, <3>2
      <3> QED BY <2>2, <3>1, <3>2
    <2>4. \A k \in 1 .. j : f[k] <= c
      <3> SUFFICES ASSUME NEW k \in 1 .. j PROVE f[k] <= c
        OBVIOUS
      <3>1. f[k] \in Nat
        OBVIOUS
      <3>2. CASE k = j
        BY <2>3, <3>2
      <3>3. CASE k # j
        BY <2>1, <2>3, <3>1, <3>3
      <3> QED BY <3>2, <3>3
    <2> QED BY <2>4
  <1>3. Bad = {}
    <2> SUFFICES ASSUME Bad # {} PROVE FALSE
      OBVIOUS
    <2> HIDE DEF Bounded
    <2>1. Bad \in SUBSET Nat
      OBVIOUS
    <2>2. PICK j \in Bad : \A i \in Bad : j <= i
      BY <2>1, LeastElement
    <2>3. j \in 1 .. n
      BY <1>1
    <2>4. j - 1 \notin Bad
      BY <2>2, <2>3
    <2> QED BY <1>2, <2>3, <2>4
  <1>4. Bounded(n)
    <2> HIDE DEF Bounded
    <2> QED BY <1>3
  <1> QED BY <1>4

------------------------------------------------------------------------------
(* Numbering continues above every id on the page (nextClaimIDs), so the ids  *)
(* an add mints are on none of its claims and differ from one another.        *)
LEMMA MintedIDsAreFresh ==
  ASSUME NEW existing \in Seq(Claim), NEW n \in Nat \ {0}
  PROVE  /\ NextClaimID(existing, n) \in Nat \ {NoId}
         /\ NextClaimID(existing, n) \notin Ids(existing)
         /\ \A m \in Nat \ {0} :
              NextClaimID(existing, m) = NextClaimID(existing, n) => m = n
  <1> DEFINE S == Ids(existing) \cup {NoId}
             f == [k \in 1 .. Len(existing) |-> existing[k].id]
  <1>0. /\ Len(existing) \in Nat
        /\ DOMAIN existing = 1 .. Len(existing)
        /\ \A k \in 1 .. Len(existing) : existing[k].id \in Nat
    <2>1. \A c \in Claim : c.id \in Nat
      BY DEF Claim
    <2>2. \A k \in 1 .. Len(existing) : existing[k] \in Claim
      OBVIOUS
    <2> QED BY <2>1, <2>2
  <1>1. PICK b \in Nat : \A k \in 1 .. Len(existing) : f[k] <= b
    <2>1. f \in [1 .. Len(existing) -> Nat] /\ Len(existing) \in Nat
      BY <1>0
    <2> HIDE DEF f
    <2> QED BY <2>1, SeqBounded
  <1>2. S \in SUBSET Nat /\ S # {} /\ NoId \in S
    BY <1>0 DEF Ids, NoId
  <1>3. \A s \in S : s <= b
    BY <1>0, <1>1 DEF Ids, NoId
  <1>4. Max(S) \in S /\ \A s \in S : Max(S) >= s
    <2>1. PICK m \in S : \A s \in S : s <= m
      BY <1>2, <1>3, BoundedHasMax
    <2>2. m \in S /\ \A s \in S : m >= s
      BY <1>2, <2>1
    <2> HIDE DEF S
    <2> QED BY <2>2 DEF Max
  <1>5. Max(S) \in Nat /\ Max(S) >= 0
    BY <1>2, <1>4
  <1>6. \A m \in Nat : NextClaimID(existing, m) = Max(S) + m
    BY DEF NextClaimID
  <1> HIDE DEF S
  <1>7. NextClaimID(existing, n) \in Nat \ {NoId}
    BY <1>5, <1>6 DEF NoId
  <1>8. NextClaimID(existing, n) \notin S
    BY <1>2, <1>4, <1>5, <1>6
  <1>9. NextClaimID(existing, n) \notin Ids(existing)
    BY <1>8 DEF S
  <1> QED BY <1>5, <1>6, <1>7, <1>9

(* ApplyClaims keeps every claim at its place and its id, never revives a     *)
(* superseded one, and puts the additions after them under minted ids.        *)
LEMMA ApplyClaimsShape ==
  ASSUME NEW existing \in Seq(Claim), NEW change, IsChange(change)
  PROVE  LET applied == ApplyClaims(existing, change)
             len     == Len(existing) + Len(change.add)
         IN /\ len \in Nat /\ Len(existing) <= len
            /\ applied \in [1 .. len -> [claim : Claim, mark : Marks]]
            /\ \A k \in 1 .. Len(existing) :
                 /\ applied[k].claim.id = existing[k].id
                 /\ existing[k].status = "superseded" =>
                      applied[k].claim.status = "superseded"
            /\ \A k \in Len(existing) + 1 .. len :
                 applied[k].claim.id = NextClaimID(existing, k - Len(existing))
  <1> DEFINE applied == ApplyClaims(existing, change)
             len     == Len(existing) + Len(change.add)
  <1>1. /\ Len(existing) \in Nat /\ Len(change.add) \in Nat
        /\ change.add \in Seq(Addition)
    BY DEF IsChange
  <1>2. len \in Nat /\ Len(existing) <= len
    BY <1>1
  <1>3. /\ DOMAIN applied = 1 .. len
        /\ applied = [k \in 1 .. len |-> applied[k]]
    BY DEF ApplyClaims
  <1>4. ASSUME NEW k \in 1 .. Len(existing)
        PROVE  /\ applied[k] \in [claim : Claim, mark : Marks]
               /\ applied[k].claim.id = existing[k].id
               /\ existing[k].status = "superseded" =>
                    applied[k].claim.status = "superseded"
    <2>1. applied[k] = ApplyToClaim(existing[k], change)
      BY <1>1, <1>2 DEF ApplyClaims
    <2>2. existing[k] \in Claim
      BY <1>1
    <2>3. CASE existing[k].id \in change.retire
      <3> DEFINE retired == [existing[k] EXCEPT !.status = "superseded"]
      <3>1. retired \in Claim /\ retired.id = existing[k].id
        BY <2>2 DEF Claim, Statuses
      <3>2. retired.status = "superseded"
        BY <2>2 DEF Claim
      <3>3. applied[k] = [claim |-> retired, mark |-> "retired"]
        BY <2>1, <2>3 DEF ApplyToClaim
      <3> HIDE DEF applied, retired
      <3> QED BY <3>1, <3>2, <3>3 DEF Marks
    <2>4. CASE existing[k].id \in (DOMAIN change.reword) \ change.retire
      <3>1. change.reword[existing[k].id] \in Texts
        BY <2>4 DEF IsChange
      <3> QED BY <2>1, <2>2, <2>4, <3>1 DEF ApplyToClaim, Claim, Marks
    <2>5. CASE /\ existing[k].id \notin change.retire
               /\ existing[k].id \notin DOMAIN change.reword
      BY <2>1, <2>2, <2>5 DEF ApplyToClaim, Marks
    <2> QED BY <2>3, <2>4, <2>5
  <1>5. ASSUME NEW k \in Len(existing) + 1 .. len
        PROVE  /\ applied[k] \in [claim : Claim, mark : Marks]
               /\ applied[k].claim.id = NextClaimID(existing, k - Len(existing))
    <2> DEFINE n == k - Len(existing)
    <2>1. n \in 1 .. Len(change.add) /\ n \in Nat \ {0} /\ k \in 1 .. len
      BY <1>1
    <2>2. applied[k] = [claim |-> [id     |-> NextClaimID(existing, n),
                                   text   |-> change.add[n].text,
                                   status |-> change.add[n].status],
                        mark  |-> "added"]
      BY <1>1, <2>1 DEF ApplyClaims
    <2>3. NextClaimID(existing, n) \in Nat
      BY <2>1, MintedIDsAreFresh
    <2>4. change.add[n] \in Addition
      BY <1>1, <2>1
    <2>5. change.add[n].text \in Texts /\ change.add[n].status \in Statuses
      BY <2>4 DEF Addition
    <2> QED BY <2>2, <2>3, <2>5 DEF Claim, Marks
  <1>6. applied \in [1 .. len -> [claim : Claim, mark : Marks]]
    <2> HIDE DEF applied
    <2>1. \A k \in 1 .. len : applied[k] \in [claim : Claim, mark : Marks]
      <3> SUFFICES ASSUME NEW k \in 1 .. len
                   PROVE  applied[k] \in [claim : Claim, mark : Marks]
        OBVIOUS
      <3>1. k \in 1 .. Len(existing) \/ k \in Len(existing) + 1 .. len
        BY <1>1
      <3> QED BY <1>4, <1>5, <3>1
    <2> QED BY <1>3, <2>1
  <1> HIDE DEF applied
  <1> QED BY <1>2, <1>4, <1>5, <1>6 DEF applied

(* A reviewer's edits rewrite texts only.                                     *)
LEMMA ApplyClaimEditsShape ==
  ASSUME NEW n \in Nat, NEW applied \in [1 .. n -> [claim : Claim, mark : Marks]],
         NEW edits, \A id \in DOMAIN edits : edits[id] \in Texts
  PROVE  LET edited == ApplyClaimEdits(applied, edits)
         IN /\ edited \in [1 .. n -> [claim : Claim, mark : Marks]]
            /\ \A k \in 1 .. n :
                 /\ edited[k].claim.id = applied[k].claim.id
                 /\ edited[k].claim.status = applied[k].claim.status
  <1> DEFINE edited == ApplyClaimEdits(applied, edits)
  <1>1. ASSUME NEW k \in 1 .. n
        PROVE  /\ edited[k] \in [claim : Claim, mark : Marks]
               /\ edited[k].claim.id = applied[k].claim.id
               /\ edited[k].claim.status = applied[k].claim.status
    <2> DEFINE id == applied[k].claim.id
    <2>1. applied[k] \in [claim : Claim, mark : Marks]
      OBVIOUS
    <2>2. CASE id \in DOMAIN edits /\ k = Position(applied, id)
      <3>1. edited[k] = [applied[k] EXCEPT !.claim.text = edits[id]]
        BY <2>2 DEF ApplyClaimEdits
      <3>2. edits[id] \in Texts
        BY <2>2
      <3> QED BY <2>1, <3>1, <3>2 DEF Claim
    <2>3. CASE ~ (id \in DOMAIN edits /\ k = Position(applied, id))
      <3>1. edited[k] = applied[k]
        BY <2>3 DEF ApplyClaimEdits
      <3> QED BY <2>1, <3>1
    <2> QED BY <2>2, <2>3
  <1>2. DOMAIN edited = 1 .. n /\ edited = [k \in 1 .. n |-> edited[k]]
    BY DEF ApplyClaimEdits
  <1> HIDE DEF edited
  <1>3. edited \in [1 .. n -> [claim : Claim, mark : Marks]]
    BY <1>1, <1>2
  <1> QED BY <1>1, <1>3 DEF edited

------------------------------------------------------------------------------
(* Where the texts of an accepted list come from.                             *)

\* The texts a change brings to a page.
Brings(change) ==
  {change.reword[id] : id \in DOMAIN change.reword}
    \cup {change.add[k].text : k \in DOMAIN change.add}

(* Every claim written has the text it had in its place, or one of the change *)
(* or of the reviewer's edits.                                                *)
LEMMA AcceptedTexts ==
  ASSUME NEW existing \in Seq(Claim), NEW change, IsChange(change), NEW edits
  PROVE  LET applied == ApplyClaims(existing, change)
             written == ClaimsOf(ApplyClaimEdits(applied, edits))
         IN /\ DOMAIN written = 1 .. Len(existing) + Len(change.add)
            /\ \A k \in DOMAIN written :
                 \/ k \in 1 .. Len(existing) /\ written[k].text = existing[k].text
                 \/ written[k].text \in
                      Brings(change) \cup {edits[id] : id \in DOMAIN edits}
  <1> DEFINE applied == ApplyClaims(existing, change)
             edited  == ApplyClaimEdits(applied, edits)
             written == ClaimsOf(edited)
             n       == Len(existing) + Len(change.add)
  <1>1. /\ Len(existing) \in Nat /\ Len(change.add) \in Nat
        /\ DOMAIN change.add = 1 .. Len(change.add)
    BY DEF IsChange
  <1>2. /\ applied \in [1 .. n -> [claim : Claim, mark : Marks]] /\ DOMAIN applied = 1 .. n
        /\ DOMAIN edited = 1 .. n /\ DOMAIN written = 1 .. n
    BY ApplyClaimsShape DEF ApplyClaims, ApplyClaimEdits, ClaimsOf
  <1>3. ASSUME NEW k \in 1 .. n
        PROVE  \/ written[k].text = applied[k].claim.text
               \/ written[k].text \in {edits[id] : id \in DOMAIN edits}
    <2> DEFINE id == applied[k].claim.id
    <2>1. written[k] = edited[k].claim
      BY <1>2 DEF ClaimsOf
    <2>2. applied[k] \in [claim : Claim, mark : Marks]
      BY <1>2
    <2>3. CASE id \in DOMAIN edits /\ k = Position(applied, id)
      <3>1. edited[k] = [applied[k] EXCEPT !.claim.text = edits[id]]
        BY <1>2, <2>3 DEF ApplyClaimEdits
      <3>2. edited[k].claim.text = edits[id]
        BY <2>2, <3>1 DEF Claim
      <3> QED BY <2>1, <2>3, <3>2
    <2>4. CASE ~ (id \in DOMAIN edits /\ k = Position(applied, id))
      <3>1. edited[k] = applied[k]
        BY <1>2, <2>4 DEF ApplyClaimEdits
      <3> QED BY <2>1, <3>1
    <2> QED BY <2>3, <2>4
  <1>4. ASSUME NEW k \in 1 .. n
        PROVE  \/ k \in 1 .. Len(existing) /\ applied[k].claim.text = existing[k].text
               \/ applied[k].claim.text \in Brings(change)
    <2>1. CASE k \in 1 .. Len(existing)
      <3>1. applied[k] = ApplyToClaim(existing[k], change)
        BY <1>1, <1>2, <2>1 DEF ApplyClaims
      <3>2. existing[k] \in Claim
        BY <2>1
      <3>3. CASE existing[k].id \in change.retire
        <4> DEFINE retired == [existing[k] EXCEPT !.status = "superseded"]
        <4>1. applied[k] = [claim |-> retired, mark |-> "retired"]
          BY <3>1, <3>3 DEF ApplyToClaim
        <4>2. retired.text = existing[k].text
          BY <3>2 DEF Claim
        <4> HIDE DEF retired, applied
        <4> QED BY <2>1, <4>1, <4>2
      <3>4. CASE existing[k].id \in (DOMAIN change.reword) \ change.retire
        <4> DEFINE reworded == [existing[k] EXCEPT !.text = change.reword[existing[k].id]]
        <4>1. applied[k] = [claim |-> reworded, mark |-> "reworded"]
          BY <3>1, <3>4 DEF ApplyToClaim
        <4>2. reworded.text = change.reword[existing[k].id]
          BY <3>2 DEF Claim
        <4>3. change.reword[existing[k].id] \in Brings(change)
          BY <3>4 DEF Brings
        <4> HIDE DEF reworded, applied
        <4> QED BY <4>1, <4>2, <4>3
      <3>5. CASE /\ existing[k].id \notin change.retire
                 /\ existing[k].id \notin DOMAIN change.reword
        BY <2>1, <3>1, <3>5 DEF ApplyToClaim
      <3> QED BY <3>3, <3>4, <3>5
    <2>2. CASE k \notin 1 .. Len(existing)
      <3> DEFINE m == k - Len(existing)
      <3>1. m \in 1 .. Len(change.add) /\ ~ (k <= Len(existing))
        BY <1>1, <2>2
      <3>2. applied[k].claim.text = change.add[m].text
        BY <1>1, <3>1 DEF ApplyClaims
      <3> QED BY <1>1, <3>1, <3>2 DEF Brings
    <2> QED BY <2>1, <2>2
  <1> HIDE DEF written, applied, edited
  <1> QED BY <1>2, <1>3, <1>4 DEF written, applied, edited

(* A change that rewords nothing leaves every text of the page, whatever of   *)
(* its additions the reviewer rewords: a claim it retires no edit may name.   *)
LEMMA AddingKeepsTheTexts ==
  ASSUME NEW existing \in Seq(Claim), NEW change, IsChange(change),
         change.reword = << >>, NEW edits,
         EditsAllowed(ApplyClaims(existing, change), edits)
  PROVE  LET written == ClaimsOf(ApplyClaimEdits(ApplyClaims(existing, change), edits))
         IN \A k \in 1 .. Len(existing) :
              /\ written[k].text = existing[k].text
              /\ existing[k].id \notin change.retire => written[k] = existing[k]
  <1> DEFINE applied == ApplyClaims(existing, change)
             edited  == ApplyClaimEdits(applied, edits)
             n       == Len(existing) + Len(change.add)
  <1>1. Len(existing) \in Nat /\ Len(change.add) \in Nat
    BY DEF IsChange
  <1> SUFFICES ASSUME NEW k \in 1 .. Len(existing)
               PROVE  /\ ClaimsOf(edited)[k].text = existing[k].text
                      /\ existing[k].id \notin change.retire =>
                           ClaimsOf(edited)[k] = existing[k]
    OBVIOUS
  <1>2. k \in 1 .. n /\ DOMAIN applied = 1 .. n /\ DOMAIN edited = 1 .. n
    BY <1>1 DEF ApplyClaims, ApplyClaimEdits
  <1>3. applied[k] = ApplyToClaim(existing[k], change)
    BY <1>1, <1>2 DEF ApplyClaims
  <1>4. /\ applied[k].mark \notin {"added", "reworded"}
        /\ applied[k].claim.text = existing[k].text
        /\ existing[k].id \notin change.retire => applied[k].claim = existing[k]
    <2> DEFINE retired == [existing[k] EXCEPT !.status = "superseded"]
    <2>1. DOMAIN change.reword = {} /\ retired.text = existing[k].text
      BY DEF Claim
    <2>2. applied[k] = IF existing[k].id \in change.retire
                       THEN [claim |-> retired, mark |-> "retired"]
                       ELSE [claim |-> existing[k], mark |-> "unchanged"]
      <3> HIDE DEF applied
      <3> QED BY <1>3, <2>1 DEF ApplyToClaim
    <2> HIDE DEF applied, retired
    <2> QED BY <2>1, <2>2
  <1>5. edited[k] = applied[k]
    <2> DEFINE id == applied[k].claim.id
    <2>1. ~ (id \in DOMAIN edits /\ k = Position(applied, id))
      <3> SUFFICES ASSUME id \in DOMAIN edits, k = Position(applied, id) PROVE FALSE
        OBVIOUS
      <3>1. applied[k].mark \in {"added", "reworded"}
        BY DEF EditsAllowed
      <3> HIDE DEF applied
      <3> QED BY <1>4, <3>1
    <2> QED BY <1>2, <2>1 DEF ApplyClaimEdits
  <1>6. ClaimsOf(edited)[k] = edited[k].claim
    BY <1>2 DEF ClaimsOf
  <1> HIDE DEF applied, edited
  <1> QED BY <1>4, <1>5, <1>6

(* A change that only adds leaves every claim of the page as it is, whatever  *)
(* of its additions the reviewer rewords.                                     *)
LEMMA AddingKeepsThePage ==
  ASSUME NEW existing \in Seq(Claim), NEW change, IsChange(change),
         change.reword = << >>, change.retire = {}, NEW edits,
         EditsAllowed(ApplyClaims(existing, change), edits)
  PROVE  LET written == ClaimsOf(ApplyClaimEdits(ApplyClaims(existing, change), edits))
         IN \A k \in 1 .. Len(existing) : written[k] = existing[k]
  BY AddingKeepsTheTexts

===============================================================================
