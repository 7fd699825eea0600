------------------------- MODULE CredentialHandout -------------------------
(***************************************************************************)
(* What the credential inventory of the authentication service promises:   *)
(* a credential is handed out only after its import has been recorded, to  *)
(* one batch, once, and for good.  There are no files, no states of a row, *)
(* no crashes and no recovery here.                                        *)
(***************************************************************************)
CONSTANTS Receipts, Batches

VARIABLES recorded,  \* receipts whose import is on record
          handed     \* <<receipt, batch>> for what has been handed out

Init ==
  /\ recorded \in SUBSET Receipts
  /\ handed = {}

Import(r) ==
  /\ recorded' = recorded \cup {r}
  /\ UNCHANGED handed

HandOut(r, b) ==
  /\ r \in recorded
  /\ \A c \in Batches : <<r, c>> \notin handed
  /\ handed' = handed \cup {<<r, b>>}
  /\ UNCHANGED recorded

Next ==
  \E r \in Receipts : \/ Import(r)
                      \/ \E b \in Batches : HandOut(r, b)

Spec == Init /\ [][Next]_<<recorded, handed>>
=============================================================================
