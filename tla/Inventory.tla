----------------------------- MODULE Inventory -----------------------------
(***************************************************************************)
(* What a search of the bus promises: it visits each target once, in the   *)
(* order of the bus, and a visit is one step.  A target that belongs into  *)
(* the list is found and held from then on, unless something failed at     *)
(* this very target; any other is passed, and nothing is held of it.       *)
(* Module Discovery implements it.                                         *)
(***************************************************************************)
EXTENDS Integers, Sequences

VARIABLES last,     \* the number of targets on the bus
          wanted,   \* those that belong into the list
          status,   \* "looking", "complete", "given up" or "crashed"
          visited,  \* the target visited last
          found,    \* the list
          held,     \* targets that are held
          faulty    \* targets at which something failed

invVars == <<last, wanted, status, visited, found, held, faulty>>

Init ==
    /\ last \in Nat /\ wanted \subseteq 1..last
    /\ status = "looking" /\ visited = 0
    /\ found = <<>> /\ held = {} /\ faulty = {}

\* The next target.
Visit ==
    /\ status = "looking" /\ visited < last
    /\ visited' = visited + 1
    /\ faulty' \in {faulty, faulty \cup {visited'}}
    /\ UNCHANGED <<last, wanted, status>>

Find ==
    /\ Visit
    /\ visited' \in wanted
    /\ found' = Append(found, visited')
    /\ held' = held \cup {visited'}

Pass ==
    /\ Visit
    /\ visited' \in wanted => visited' \in faulty'
    /\ UNCHANGED <<found, held>>

Complete ==
    /\ status = "looking" /\ visited = last
    /\ status' = "complete"
    /\ UNCHANGED <<last, wanted, visited, found, held, faulty>>

\* The rest of the bus is not looked at.  What is in the list is still held.
GiveUp ==
    /\ status = "looking"
    /\ status' = "given up"
    /\ UNCHANGED <<last, wanted, visited, found, held, faulty>>

\* The program dies, and with it all that it held.
Crash ==
    /\ status = "looking"
    /\ status' = "crashed"
    /\ held' = {}
    /\ UNCHANGED <<last, wanted, visited, found, faulty>>

Next == Find \/ Pass \/ Complete \/ GiveUp \/ Crash

Spec == Init /\ [][Next]_invVars
=============================================================================
