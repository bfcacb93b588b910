------------------------------ MODULE FileCopy ------------------------------
(***************************************************************************)
(* What a file transfer promises, either way: the destination only ever    *)
(* holds a prefix of the source, it grows and is never rewritten, and the  *)
(* caller is told "ok" only when it holds the whole source.  A transfer    *)
(* may fail at any time, and a failed one leaves what it had copied.       *)
(* Nothing is promised any more, the status is "void", once somebody else  *)
(* has disturbed the source or the destination.                            *)
(***************************************************************************)
EXTENDS Naturals, Sequences

CONSTANT Contents      \* the contents a file may have, a set of sequences

VARIABLES status,      \* "idle", "copying", "ok", "failed" or "void"
          source,      \* the bytes to copy, fixed when the copy begins
          copy         \* the bytes the destination holds

vars == <<status, source, copy>>

Init == status = "idle" /\ source = <<>> /\ copy = <<>>

Begin ==
    /\ status = "idle"
    /\ status' = "copying"
    /\ source' \in Contents
    /\ copy' = <<>>

\* Some more bytes of the source arrive, in order.
Grow == \E n \in (Len(copy) + 1)..Len(source) : copy' = SubSeq(source, 1, n)

Extend ==
    /\ status = "copying"
    /\ Grow
    /\ UNCHANGED <<status, source>>

Finish ==
    /\ status = "copying"
    /\ copy = source
    /\ status' = "ok"
    /\ UNCHANGED <<source, copy>>

\* The bytes of the step that fails may have arrived nevertheless.
Fail ==
    /\ status \in {"idle", "copying"}
    /\ status' = "failed"
    /\ Grow \/ UNCHANGED copy
    /\ UNCHANGED source

Disturb ==
    /\ status # "void"
    /\ status' = "void"
    /\ source' = <<>> /\ copy' = <<>>

Next == Begin \/ Extend \/ Finish \/ Fail \/ Disturb

Spec == Init /\ [][Next]_vars
=============================================================================
