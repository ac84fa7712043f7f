--------------------------- MODULE StorageLedger ---------------------------
(***************************************************************************)
(* What the storage of an organization promises, in bytes and with no      *)
(* rows, keys or requests in sight: a file that is kept is counted, one    *)
(* that is removed is no longer counted, and only where requests contended *)
(* for a file are its bytes taken off twice.                               *)
(***************************************************************************)
EXTENDS Integers

CONSTANT Sizes

VARIABLES
  usage,     \* the bytes that count against the limit
  kept,      \* the bytes of the files that were confirmed and not removed
  contended  \* whether two requests were deleting one file

numbers == <<usage, kept>>
ledger == <<numbers, contended>>

Init == usage = 0 /\ kept = 0 /\ contended = FALSE

Keep(s) ==
  /\ kept' = kept + s
  /\ usage' = usage + s

TakeOff(s) == usage' = IF usage >= s THEN usage - s ELSE 0

Remove(s) == kept' = kept - s /\ TakeOff(s)

RemoveAgain(s) == contended' /\ TakeOff(s) /\ UNCHANGED kept

Step == \E s \in Sizes : Keep(s) \/ Remove(s) \/ RemoveAgain(s)

Next == contended' \in {contended, TRUE} /\ (Step \/ UNCHANGED numbers)

Spec == Init /\ [][Next]_ledger

=============================================================================
