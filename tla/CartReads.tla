----------------------------- MODULE CartReads -----------------------------
(***************************************************************************)
(* What GET /cart promises, without versions, entries or TTLs: a read      *)
(* shows the total as some change left it and the items as the same or a   *)
(* later change did, and no change that was answered before the read       *)
(* arrived is missing from either.  A read that no change overlaps so      *)
(* shows total and items that belong together.                             *)
(*                                                                         *)
(* Once an old page has been stored behind a newer version the cache is    *)
(* spoiled, and a read may then show any earlier total, but still none     *)
(* that was not committed, and no items from before it.                    *)
(***************************************************************************)
EXTENDS Naturals

CONSTANTS Readers

VARIABLES
    rev,        \* changes of the cart so far
    answered,   \* the last of them whose client was told
    state,      \* state[r]: "new", "open", "shown" or "failed"
    floor,      \* floor[r]: the changes answered when read r arrived
    shown,      \* shown[r]: the revisions that read r was answered with
    spoiled

readVars == << rev, answered, state, floor, shown, spoiled >>

Init ==
    /\ rev = 0
    /\ answered = 0
    /\ state = [r \in Readers |-> "new"]
    /\ floor = [r \in Readers |-> 0]
    /\ shown = [r \in Readers |-> [total |-> 0, items |-> 0]]
    /\ spoiled = FALSE

MaySpoil == spoiled' \in {spoiled, TRUE}

Arrive(r) ==
    /\ state[r] = "new"
    /\ state' = [state EXCEPT ![r] = "open"]
    /\ floor' = [floor EXCEPT ![r] = answered]
    /\ UNCHANGED << rev, answered, shown, spoiled >>

\* What was answered is judged by the cache as the read found it: a read that
\* spoils the cache itself still shows what it must.
Show(r) ==
    /\ state[r] = "open"
    /\ \E m \in 0 .. rev, n \in 0 .. rev :
          /\ m <= n
          /\ spoiled \/ m >= floor[r]
          /\ shown' = [shown EXCEPT ![r] = [total |-> m, items |-> n]]
    /\ state' = [state EXCEPT ![r] = "shown"]
    /\ MaySpoil
    /\ UNCHANGED << rev, answered, floor >>

Fail(r) ==
    /\ state[r] = "open"
    /\ state' = [state EXCEPT ![r] = "failed"]
    /\ MaySpoil
    /\ UNCHANGED << rev, answered, floor, shown >>

Change ==
    /\ rev' = rev + 1
    /\ UNCHANGED << answered, state, floor, shown, spoiled >>

\* Changes are answered in any order; what counts is the latest.
Answer ==
    /\ answered' \in answered .. rev
    /\ UNCHANGED << rev, state, floor, shown, spoiled >>

Next ==
    \/ \E r \in Readers : Arrive(r) \/ Show(r) \/ Fail(r)
    \/ Change
    \/ Answer

Spec == Init /\ [][Next]_readVars

============================================================================
