----------------------------- MODULE MCListDir -----------------------------
(* Small cards for ListDir: directories of no, one and two files. *)
EXTENDS ListDir

MCNames == {"a", "b"}
MCBodies == {"A", "B"}

FileA == [name |-> "a", type |-> 1, size |-> 1, body |-> "A"]
FileB == [name |-> "b", type |-> 0, size |-> 2, body |-> "B"]

MCCards == [files : {<<>>, <<FileA>>, <<FileA, FileB>>},
            cds   : {<<FileB>>, <<FileB, FileA>>}]

MCGarbage == {[index |-> 9, name |-> "b", type |-> 1, size |-> 3]}
=============================================================================
