--------------------------- MODULE PageClaimsProofs ---------------------------
(* Machine-checked proofs about module PageClaims: ids stay unique for the    *)
(* page's whole life, and no accept loses a claim or revives a superseded     *)
(* one.                                                                       *)
EXTENDS PageClaims, ClaimsProofs, FiniteSetTheorems

(* What one accept, with or without edits, does to the list: it grows it, and *)
(* leaves ids and superseded marks where they are.                            *)
LEMMA AcceptStep ==
  ASSUME claims \in Seq(Claim), NEW change, IsChange(change), Accept(change)
  PROVE  /\ claims' \in Seq(Claim)
         /\ Len(claims) <= Len(claims')
         /\ \A k \in 1 .. Len(claims) :
              /\ claims'[k].id = claims[k].id
              /\ claims[k].status = "superseded" =>
                   claims'[k].status = "superseded"
         /\ \A k \in Len(claims) + 1 .. Len(claims') :
              claims'[k].id = NextClaimID(claims, k - Len(claims))
  <1> DEFINE applied == ApplyClaims(claims, change)
             n       == Len(claims) + Len(change.add)
  <1>1. PICK edits \in Edits :
          claims' = ClaimsOf(ApplyClaimEdits(applied, edits))
    BY DEF Accept
  <1>2. /\ n \in Nat /\ Len(claims) \in Nat /\ Len(claims) <= n
        /\ applied \in [1 .. n -> [claim : Claim, mark : Marks]]
        /\ \A k \in 1 .. Len(claims) :
             /\ applied[k].claim.id = claims[k].id
             /\ claims[k].status = "superseded" =>
                  applied[k].claim.status = "superseded"
        /\ \A k \in Len(claims) + 1 .. n :
             applied[k].claim.id = NextClaimID(claims, k - Len(claims))
    BY ApplyClaimsShape
  <1> HIDE DEF applied, n
  <1> DEFINE edited == ApplyClaimEdits(applied, edits)
  <1>3. /\ edited \in [1 .. n -> [claim : Claim, mark : Marks]]
        /\ \A k \in 1 .. n :
             /\ edited[k].claim.id = applied[k].claim.id
             /\ edited[k].claim.status = applied[k].claim.status
    BY <1>2, EditsAreTexts, ApplyClaimEditsShape
  <1> HIDE DEF edited
  <1>4. claims' = [k \in 1 .. n |-> edited[k].claim]
    BY <1>1, <1>3 DEF ClaimsOf, edited
  <1>5. claims' \in [1 .. n -> Claim] /\ claims' \in Seq(Claim)
    <2>1. \A k \in 1 .. n : edited[k].claim \in Claim
      BY <1>3
    <2>2. claims' \in [1 .. n -> Claim]
      BY <1>4, <2>1
    <2> QED BY <1>2, <2>2, SeqDef, ZenonT(30)
  <1>6. Len(claims') = n
    BY <1>2, <1>5
  <1>7. \A k \in 1 .. n : /\ claims'[k].id = applied[k].claim.id
                          /\ claims'[k].status = applied[k].claim.status
    BY <1>3, <1>4
  <1>8. \A k \in 1 .. Len(claims) : k \in 1 .. n
    BY <1>2
  <1>9. \A k \in Len(claims) + 1 .. n : k \in 1 .. n
    BY <1>2
  <1> QED BY <1>2, <1>5, <1>6, <1>7, <1>8, <1>9

(* What the propose tool files is a change that only adds.                    *)
LEMMA AgentChangeIsChange ==
  ASSUME NEW additions \in Seq(Addition)
  PROVE  IsChange(AgentChange(additions))
  BY DEF IsChange, AgentChange

(* An accept keeps ids unique: old ids stay, and the minted ones are fresh.   *)
LEMMA AcceptKeepsIDsUnique ==
  ASSUME claims \in Seq(Claim), UniqueIDs,
         NEW change, IsChange(change), Accept(change)
  PROVE  UniqueIDs'
  <1> DEFINE len == Len(claims)
  <1>1. /\ len \in Nat /\ DOMAIN claims = 1 .. len
        /\ Len(claims') \in Nat /\ DOMAIN claims' = 1 .. Len(claims')
    BY AcceptStep
  <1>2. /\ \A k \in 1 .. len : claims'[k].id = claims[k].id
        /\ \A k \in len + 1 .. Len(claims') :
             claims'[k].id = NextClaimID(claims, k - len)
    BY AcceptStep
  <1> HIDE DEF len
  <1>3. ASSUME NEW k \in 1 .. Len(claims'), k > len
        PROVE  /\ claims'[k].id \notin Ids(claims)
               /\ \A j \in 1 .. Len(claims') :
                    j > len /\ claims'[j].id = claims'[k].id => j = k
    <2>1. k - len \in Nat \ {0} /\ k \in len + 1 .. Len(claims')
      BY <1>1, <1>3
    <2>2. claims'[k].id = NextClaimID(claims, k - len)
      BY <1>2, <2>1
    <2>3. /\ NextClaimID(claims, k - len) \notin Ids(claims)
          /\ \A m \in Nat \ {0} :
               NextClaimID(claims, m) = NextClaimID(claims, k - len) => m = k - len
      BY <2>1, MintedIDsAreFresh
    <2>4. ASSUME NEW j \in 1 .. Len(claims'), j > len, claims'[j].id = claims'[k].id
          PROVE  j = k
      <3>1. j - len \in Nat \ {0} /\ j \in len + 1 .. Len(claims')
        BY <1>1, <2>4
      <3>2. claims'[j].id = NextClaimID(claims, j - len)
        BY <1>2, <3>1
      <3>3. j - len = k - len
        BY <2>2, <2>3, <2>4, <3>1, <3>2
      <3> QED BY <1>1, <3>3
    <2> QED BY <2>2, <2>3, <2>4
  <1>4. \A k \in 1 .. Len(claims') : k <= len => claims'[k].id \in Ids(claims)
    BY <1>1, <1>2 DEF Ids
  <1>5. ASSUME NEW j \in 1 .. Len(claims'), NEW k \in 1 .. Len(claims'),
               claims'[j].id = claims'[k].id
        PROVE  j = k \/ claims'[j].id = NoId
    <2>1. CASE j > len /\ k > len
      BY <1>3, <1>5, <2>1
    <2>2. CASE j <= len /\ k <= len
      BY <1>1, <1>2, <1>5, <2>2 DEF UniqueIDs
    <2>3. CASE j > len /\ k <= len
      BY <1>3, <1>4, <1>5, <2>3
    <2>4. CASE j <= len /\ k > len
      BY <1>3, <1>4, <1>5, <2>4
    <2> QED BY <1>1, <2>1, <2>2, <2>3, <2>4
  <1> QED BY <1>1, <1>5 DEF UniqueIDs

------------------------------------------------------------------------------
(* Every step of the page keeps a well-formed claims list.                    *)
THEOREM TypeCorrect == Spec => []TypeOK
  <1>1. Init => TypeOK
    BY DEF Init, TypeOK
  <1>2. TypeOK /\ [Next]_claims => TypeOK'
    <2> SUFFICES ASSUME TypeOK, [Next]_claims PROVE claims' \in Seq(Claim)
      BY DEF TypeOK
    <2>0. claims \in Seq(Claim)
      BY DEF TypeOK
    <2>1. CASE AcceptExtraction
      BY <2>0, <2>1, AcceptStep DEF AcceptExtraction
    <2>2. CASE AcceptAgentProposal
      BY <2>0, <2>2, AcceptStep, AgentChangeIsChange DEF AcceptAgentProposal
    <2>3. CASE OwnerWrites
      <3>1. PICK text \in Texts, id \in 0 .. MaxID :
              claims' = Append(claims, [id |-> id, text |-> text, status |-> "active"])
        BY <2>3 DEF OwnerWrites
      <3>2. [id |-> id, text |-> text, status |-> "active"] \in Claim
        BY LimitsAreNaturals DEF Claim, Statuses
      <3> QED BY <2>0, <3>1, <3>2, AppendProperties
    <2>4. CASE OwnerRemoves
      <3>1. PICK gone \in DOMAIN claims :
              claims' = [k \in 1 .. Len(claims) - 1 |->
                           IF k < gone THEN claims[k] ELSE claims[k + 1]]
        BY <2>4 DEF OwnerRemoves
      <3>2. Len(claims) - 1 \in Nat /\ Len(claims) \in Nat
        BY <2>0, <3>1
      <3>3. \A k \in 1 .. Len(claims) - 1 : claims[k] \in Claim /\ claims[k + 1] \in Claim
        BY <2>0, <3>2
      <3>4. claims' \in [1 .. Len(claims) - 1 -> Claim]
        BY <3>1, <3>3
      <3> QED BY <3>2, <3>4, SMTT(30)
    <2>5. CASE UNCHANGED claims
      BY <2>0, <2>5
    <2> QED BY <2>1, <2>2, <2>3, <2>4, <2>5 DEF Next
  <1> QED BY <1>1, <1>2, PTL DEF Spec

(* Claim ids stay unique for the whole life of a page, whatever the model     *)
(* answers, the agents propose and the owner types or deletes.                *)
THEOREM IDsStayUnique == Spec => []UniqueIDs
  <1>1. Init => UniqueIDs
    BY DEF Init, UniqueIDs
  <1>2. TypeOK /\ UniqueIDs /\ [Next]_claims => UniqueIDs'
    <2> SUFFICES ASSUME TypeOK, UniqueIDs, [Next]_claims PROVE UniqueIDs'
      OBVIOUS
    <2>0. claims \in Seq(Claim)
      BY DEF TypeOK
    <2>1. ASSUME NEW change, IsChange(change), Accept(change)
          PROVE  UniqueIDs'
      BY <2>0, <2>1, AcceptKeepsIDsUnique
    <2>2. CASE AcceptExtraction
      BY <2>1, <2>2 DEF AcceptExtraction
    <2>3. CASE AcceptAgentProposal
      BY <2>1, <2>3, AgentChangeIsChange DEF AcceptAgentProposal
    <2>4. CASE OwnerWrites
      <3>1. PICK text \in Texts, id \in 0 .. MaxID :
              /\ id \notin Ids(claims) \ {NoId}
              /\ claims' = Append(claims, [id |-> id, text |-> text, status |-> "active"])
        BY <2>4 DEF OwnerWrites
      <3>2. /\ DOMAIN claims = 1 .. Len(claims) /\ Len(claims) \in Nat
            /\ DOMAIN claims' = 1 .. Len(claims) + 1
            /\ \A k \in 1 .. Len(claims) : claims'[k] = claims[k]
            /\ claims'[Len(claims) + 1].id = id
        BY <2>0, <3>1
      <3>3. \A k \in 1 .. Len(claims) : claims[k].id = id => id = NoId
        BY <3>1, <3>2 DEF Ids
      <3> QED BY <3>2, <3>3 DEF UniqueIDs
    <2>5. CASE OwnerRemoves
      <3>1. PICK gone \in DOMAIN claims :
              claims' = [k \in 1 .. Len(claims) - 1 |->
                           IF k < gone THEN claims[k] ELSE claims[k + 1]]
        BY <2>5 DEF OwnerRemoves
      <3>2. gone \in 1 .. Len(claims) /\ Len(claims) \in Nat /\ DOMAIN claims = 1 .. Len(claims)
        BY <2>0, <3>1
      <3> DEFINE old(k) == IF k < gone THEN k ELSE k + 1
      <3>3. \A k \in 1 .. Len(claims) - 1 :
              old(k) \in DOMAIN claims /\ claims'[k] = claims[old(k)]
        <4> SUFFICES ASSUME NEW k \in 1 .. Len(claims) - 1
                     PROVE  old(k) \in DOMAIN claims /\ claims'[k] = claims[old(k)]
          OBVIOUS
        <4>1. k \in Nat /\ k \in 1 .. Len(claims) /\ k + 1 \in 1 .. Len(claims)
          BY <3>2
        <4>2. claims'[k] = IF k < gone THEN claims[k] ELSE claims[k + 1]
          BY <3>1
        <4> QED BY <3>2, <4>1, <4>2
      <3>4. \A j, k \in 1 .. Len(claims) - 1 : old(j) = old(k) => j = k
        BY <3>2
      <3>5. DOMAIN claims' = 1 .. Len(claims) - 1
        BY <3>1
      <3> HIDE DEF old
      <3> QED BY <3>3, <3>4, <3>5 DEF UniqueIDs
    <2>6. CASE UNCHANGED claims
      BY <2>6 DEF UniqueIDs
    <2> QED BY <2>2, <2>3, <2>4, <2>5, <2>6 DEF Next
  <1> QED BY <1>1, <1>2, TypeCorrect, PTL DEF Spec

(* Only the owner's own edit takes a claim off the page, and nothing revives  *)
(* a superseded claim: accepts are append-only (ApplyClaims never deletes).   *)
THEOREM AcceptsLoseNothing == Spec => NothingVanishes
  <1> DEFINE Kept == \/ OwnerRemoves
                     \/ \A c \in Range(claims) : \E d \in Range(claims') :
                          /\ d.id = c.id
                          /\ c.status = "superseded" => d.status = "superseded"
  <1>1. TypeOK /\ [Next]_claims => [Kept]_claims
    <2> SUFFICES ASSUME TypeOK, Next, ~ OwnerRemoves
                 PROVE  \A k \in DOMAIN claims : \E j \in DOMAIN claims' :
                          /\ claims'[j].id = claims[k].id
                          /\ claims[k].status = "superseded" =>
                               claims'[j].status = "superseded"
      BY DEF Range
    <2>0. claims \in Seq(Claim) /\ Len(claims) \in Nat /\ DOMAIN claims = 1 .. Len(claims)
      BY DEF TypeOK
    <2>1. ASSUME NEW change, IsChange(change), Accept(change)
          PROVE  \A k \in DOMAIN claims :
                   /\ k \in DOMAIN claims'
                   /\ claims'[k].id = claims[k].id
                   /\ claims[k].status = "superseded" =>
                        claims'[k].status = "superseded"
      <3>1. /\ claims' \in Seq(Claim) /\ Len(claims) <= Len(claims')
            /\ \A k \in 1 .. Len(claims) :
                 /\ claims'[k].id = claims[k].id
                 /\ claims[k].status = "superseded" =>
                      claims'[k].status = "superseded"
        BY <2>0, <2>1, AcceptStep
      <3>2. Len(claims') \in Nat /\ DOMAIN claims' = 1 .. Len(claims')
        BY <3>1
      <3>3. \A k \in 1 .. Len(claims) : k \in 1 .. Len(claims')
        BY <2>0, <3>1, <3>2
      <3> QED BY <2>0, <3>1, <3>2, <3>3
    <2>2. CASE AcceptExtraction
      BY <2>1, <2>2 DEF AcceptExtraction
    <2>3. CASE AcceptAgentProposal
      BY <2>1, <2>3, AgentChangeIsChange DEF AcceptAgentProposal
    <2>4. CASE OwnerWrites
      <3>1. PICK c : claims' = Append(claims, c)
        BY <2>4 DEF OwnerWrites
      <3>2. \A k \in 1 .. Len(claims) : k \in DOMAIN claims' /\ claims'[k] = claims[k]
        BY <2>0, <3>1
      <3> QED BY <2>0, <3>2
    <2> QED BY <2>2, <2>3, <2>4 DEF Next
  <1>2. NothingVanishes <=> [][Kept]_claims
    BY DEF NothingVanishes
  <1> HIDE DEF Kept
  <1> QED BY <1>1, <1>2, TypeCorrect, PTL DEF Spec

------------------------------------------------------------------------------
(* A list whose ids are all there and differ has as many ids as claims.       *)
LEMMA IdsCountClaims ==
  ASSUME NEW list \in Seq(Claim),
         \A j, k \in DOMAIN list : list[j].id = list[k].id => j = k
  PROVE  IsFiniteSet(Ids(list)) /\ Cardinality(Ids(list)) = Len(list)
  <1> DEFINE f == [k \in 1 .. Len(list) |-> list[k].id]
  <1>1. Len(list) \in Nat /\ DOMAIN list = 1 .. Len(list)
    OBVIOUS
  <1>2. IsFiniteSet(1 .. Len(list)) /\ Cardinality(1 .. Len(list)) = Len(list)
    BY <1>1, FS_Interval, SMTT(30)
  <1>3. f \in [1 .. Len(list) -> Ids(list)]
    BY <1>1 DEF Ids
  <1>4. \A j, k \in 1 .. Len(list) : f[j] = f[k] => j = k
    BY <1>1
  <1>5. \A id \in Ids(list) : \E k \in 1 .. Len(list) : f[k] = id
    BY <1>1 DEF Ids
  <1> HIDE DEF f
  <1>6. ExistsBijection(1 .. Len(list), Ids(list))
    <2>1. f \in Injection(1 .. Len(list), Ids(list))
      BY <1>3, <1>4 DEF Injection, IsInjective
    <2>2. f \in Surjection(1 .. Len(list), Ids(list))
      BY <1>3, <1>5 DEF Surjection
    <2> QED BY <2>1, <2>2 DEF ExistsBijection, Bijection
  <1> QED BY <1>2, <1>6, FS_Bijection

(* The buckets of an answer that classifies every claim once are as many      *)
(* claims as the page has ids.                                                *)
LEMMA BucketsCountIds ==
  ASSUME NEW list, IsFiniteSet(Ids(list)), NEW change,
         ExhaustiveClassification(change, list)
  PROVE  Cardinality(change.keep) + Cardinality(DOMAIN change.reword)
           + Cardinality(change.retire) = Cardinality(Ids(list))
  <1> DEFINE keep == change.keep
             reword == DOMAIN change.reword
             retire == change.retire
  <1>1. /\ keep \in SUBSET Ids(list) /\ reword \in SUBSET Ids(list)
        /\ retire \in SUBSET Ids(list) /\ (keep \cup reword) \cup retire = Ids(list)
        /\ keep \cap reword = {} /\ (keep \cup reword) \cap retire = {}
    BY DEF ExhaustiveClassification, Classified
  <1> HIDE DEF keep, reword, retire
  <1>2. IsFiniteSet(keep) /\ IsFiniteSet(reword) /\ IsFiniteSet(retire)
    BY <1>1, FS_Subset
  <1>3. /\ IsFiniteSet(keep \cup reword)
        /\ Cardinality(keep \cup reword) =
             Cardinality(keep) + Cardinality(reword) - Cardinality(keep \cap reword)
    BY <1>2, FS_Union
  <1>4. Cardinality((keep \cup reword) \cup retire) =
          Cardinality(keep \cup reword) + Cardinality(retire)
            - Cardinality((keep \cup reword) \cap retire)
    BY <1>2, <1>3, FS_Union
  <1>5. Cardinality(keep \cap reword) = 0 /\ Cardinality((keep \cup reword) \cap retire) = 0
    BY <1>1, FS_EmptySet
  <1>6. /\ Cardinality(keep) \in Nat /\ Cardinality(reword) \in Nat
        /\ Cardinality(retire) \in Nat /\ Cardinality(keep \cup reword) \in Nat
    BY <1>2, <1>3, FS_CardinalityType
  <1>7. Cardinality(keep) + Cardinality(reword) + Cardinality(retire) = Cardinality(Ids(list))
    <2>1. Cardinality((keep \cup reword) \cup retire) = Cardinality(Ids(list))
      BY <1>1, Zenon
    <2> QED BY <1>3, <1>4, <1>5, <1>6, <2>1
  <1> QED BY <1>7 DEF keep, reword, retire

(* An answer that passes validation is one ApplyClaims accepts, whatever the  *)
(* page holds and the model answers.                                          *)
THEOREM ValidatedAnswersAreApplicable == Spec => []ValidatedAnswersApply
  <1>1. ValidatedAnswersApply
    BY DEF ValidatedAnswersApply, ValidateSemantics, ExhaustiveClassification,
           Classified, Applies
  <1> QED BY <1>1, PTL

(* An extraction leaves the page within max_claims: the count over the        *)
(* answer's buckets is that of the list written.  Ids must tell claims apart: *)
(* they do, for an answer that classifies every claim names no empty id.      *)
THEOREM ExtractionsFit == Spec => []ExtractionFitsLimit
  <1>1. TypeOK /\ UniqueIDs => ExtractionFitsLimit
    <2> SUFFICES ASSUME TypeOK, UniqueIDs,
                        NEW change \in Answers(claims), IsChange(change),
                        ValidateSemantics(change, claims, MaxClaims)
                 PROVE  Len(ApplyClaims(claims, change)) \in 1 .. MaxClaims
      BY DEF ExtractionFitsLimit
    <2>0. NoId \notin Ids(claims)
      <3>1. Ids(claims) = Classified(change)
        BY DEF ValidateSemantics, ExhaustiveClassification
      <3>2. NoId \notin Classified(change)
        BY DEF IsChange, NamedIDs, Classified
      <3> QED BY <3>1, <3>2
    <2>1. claims \in Seq(Claim)
      BY DEF TypeOK
    <2>2. \A j, k \in DOMAIN claims : claims[j].id = claims[k].id => j = k
      BY <2>0 DEF UniqueIDs, Ids
    <2>3. IsFiniteSet(Ids(claims)) /\ Cardinality(Ids(claims)) = Len(claims)
      BY <2>1, <2>2, IdsCountClaims
    <2>4. TotalClaimCount(change) = Len(claims) + Len(change.add)
      <3>1. ExhaustiveClassification(change, claims)
        BY DEF ValidateSemantics
      <3> QED BY <2>3, <3>1, BucketsCountIds DEF TotalClaimCount
    <2>5. TotalClaimCount(change) >= 1 /\ TotalClaimCount(change) <= MaxClaims
      BY LimitsAreNaturals DEF ValidateSemantics
    <2>6. /\ Len(claims) + Len(change.add) \in Nat
          /\ DOMAIN ApplyClaims(claims, change) = 1 .. Len(claims) + Len(change.add)
          /\ ApplyClaims(claims, change) \in Seq([claim : Claim, mark : Marks])
      <3> DEFINE applied == ApplyClaims(claims, change)
                 n       == Len(claims) + Len(change.add)
                 Marked  == [claim : Claim, mark : Marks]
      <3>1. n \in Nat /\ applied \in [1 .. n -> Marked]
        BY <2>1, ApplyClaimsShape
      <3> HIDE DEF applied, n, Marked
      <3>2. applied \in Seq(Marked) /\ DOMAIN applied = 1 .. n
        BY <3>1, SMTT(30)
      <3> QED BY <3>1, <3>2 DEF applied, n, Marked
    <2>7. Len(ApplyClaims(claims, change)) = Len(claims) + Len(change.add)
      BY <2>6
    <2> QED BY <2>4, <2>5, <2>6, <2>7, LimitsAreNaturals
  <1> QED BY <1>1, TypeCorrect, IDsStayUnique, PTL

===============================================================================
