----------------------------- MODULE MCGetFile -----------------------------
(* Small cards for GetFile: blocks of two bytes, files of zero to five.      *)
EXTENDS GetFile

MCNames  == {"a", "ab", "c"}
MCBodies == {"A", "AB", "C"}

\* strncmp() compares as many characters as the entry's name has.
MCNameMatches == {<<n, n>> : n \in MCNames} \cup {<<"a", "ab">>}

File(name, type, size, body) ==
    [name |-> name, type |-> type, size |-> size, body |-> body]

A  == File("a", 1, 5, "A")
AB == File("ab", 1, 4, "AB")
C  == File("c", 0, 2, "C")
Long == File("c", 1, 6, "C")
Longer == File("ab", 1, 7, "AB")
Empty == File("c", 1, 0, "C")

MCCards == [files : {<<>>, <<A>>, <<AB, A>>, <<A, C, AB>>, <<Empty, A>>,
                     <<Long, Longer>>},
            cds   : {<<>>}]

MCGarbage == {[index |-> 1, name |-> "a", type |-> 1, size |-> 3],
              [index |-> 7, name |-> "c", type |-> 1, size |-> 1]}
=============================================================================
