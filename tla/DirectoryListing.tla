-------------------------- MODULE DirectoryListing --------------------------
(***************************************************************************)
(* What a listing promises: one step that looks at the directory once.  As *)
(* long as nothing has come between, the answer is the whole directory.    *)
(* Once something has, the directory being changed or its size not known,  *)
(* the answer may have any length; but its entries are still the first of  *)
(* the directory of one moment, and only behind its end is there junk.     *)
(* Module ListDir implements it, and so does GetFile, which lists first.   *)
(***************************************************************************)
EXTENDS Naturals, Sequences

CONSTANTS Directories, \* what a directory may be, a set of sequences
          Junk,        \* what an entry may be that nobody has written
          Most         \* the most entries of an answer

VARIABLES directory,   \* the directory asked for
          status,      \* "asked", "listed", "failed" or "crashed"
          listing,     \* the answer
          disturbed    \* something has come between

listingVars == <<directory, status, listing, disturbed>>

Init ==
    /\ directory \in Directories
    /\ status = "asked" /\ listing = <<>> /\ disturbed = FALSE

Disturb ==
    /\ directory' \in Directories
    /\ disturbed' = TRUE
    /\ UNCHANGED <<status, listing>>

\* The first n entries of the directory d.
Cut(d, n, junk) == [i \in 1..n |-> IF i <= Len(d) THEN d[i] ELSE junk]

Answer ==
    /\ status = "asked"
    /\ status' = "listed"
    /\ \E n \in 0..Most, junk \in Junk :
          /\ ~disturbed => n = Len(directory)
          /\ listing' = Cut(directory, n, junk)
    /\ UNCHANGED <<directory, disturbed>>

\* After a failure nothing is promised.
Fail ==
    /\ status = "asked"
    /\ status' \in {"failed", "crashed"}
    /\ disturbed' \in {disturbed, TRUE}
    /\ UNCHANGED <<directory, listing>>

Next == Disturb \/ Answer \/ Fail

Spec == Init /\ [][Next]_listingVars
=============================================================================
