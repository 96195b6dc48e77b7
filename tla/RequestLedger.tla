--------------------------- MODULE RequestLedger ---------------------------
(***************************************************************************)
(* What the worker pool promises of a request, whatever the threads do: it *)
(* is read once, attempted only while nobody else attempts it, may go back *)
(* to waiting when its worker fails, and once it is answered or lost it    *)
(* stays so and is never attempted again.                                  *)
(***************************************************************************)
EXTENDS Naturals

CONSTANT Request

VARIABLES stage,   \* where a request stands
          tries    \* how often it was attempted

ledgerVars == <<stage, tries>>

LedgerTypeOK ==
  /\ stage \in [Request -> {"unread", "pending", "running", "answered", "lost"}]
  /\ tries \in [Request -> Nat]

LedgerInit ==
  /\ stage = [r \in Request |-> "unread"]
  /\ tries = [r \in Request |-> 0]

Move(r, from, to) == stage[r] = from /\ stage' = [stage EXCEPT ![r] = to]

Accept(r) == Move(r, "unread", "pending") /\ UNCHANGED tries
Attempt(r) == Move(r, "pending", "running") /\ tries' = [tries EXCEPT ![r] = @ + 1]
\* A request whose worker hung and then failed may be told it timed out.
Answer(r) ==
  \E from \in {"running", "pending"} :
    tries[r] > 0 /\ Move(r, from, "answered") /\ UNCHANGED tries
Fail(r) == \E to \in {"pending", "lost"} : Move(r, "running", to) /\ UNCHANGED tries

\* Waiting requests may be lost together: nobody is told.
Lose(S) ==
  /\ S # {} /\ \A r \in S : stage[r] = "pending"
  /\ stage' = [r \in Request |-> IF r \in S THEN "lost" ELSE stage[r]]
  /\ UNCHANGED tries

LedgerNext ==
  \/ \E r \in Request : Accept(r) \/ Attempt(r) \/ Answer(r) \/ Fail(r)
  \/ \E S \in SUBSET Request : Lose(S)

LedgerSpec == LedgerInit /\ [][LedgerNext]_ledgerVars
=============================================================================
