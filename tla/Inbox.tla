--------------------------------- MODULE Inbox ---------------------------------
(* What the review inbox promises: a proposal is filed once, leaves the inbox *)
(* only once its fate is on record (its change landed on a page, or a         *)
(* rejected copy keeps it), and never comes back.                             *)
CONSTANT Proposals

VARIABLES
  status,     \* "unfiled", "pending" or "closed", for each proposal id
  record      \* what the vault shows of its fate

Fates == {"landed", "rejected"}

Init ==
  /\ status \in [Proposals -> {"unfiled", "pending"}]
  /\ record = [i \in Proposals |-> {}]

File(i) ==
  /\ status[i] = "unfiled"
  /\ status' = [status EXCEPT ![i] = "pending"]
  /\ UNCHANGED record

Record(i) ==
  /\ status[i] # "unfiled"
  /\ \E fate \in Fates \ record[i] :
       record' = [record EXCEPT ![i] = @ \cup {fate}]
  /\ UNCHANGED status

Close(i) ==
  /\ status[i] = "pending"
  /\ record[i] # {}
  /\ status' = [status EXCEPT ![i] = "closed"]
  /\ UNCHANGED record

Next == \E i \in Proposals : File(i) \/ Record(i) \/ Close(i)

Spec == Init /\ [][Next]_<<status, record>>

===============================================================================
