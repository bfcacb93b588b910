----------------------------- MODULE MCSendFile -----------------------------
(* Local files of zero to five bytes for SendFile, sent in blocks of two.     *)
EXTENDS SendFile

MCNames  == {"a", "b"}
MCBodies == {"A", "B"}

MCSources == {[size |-> 0, body |-> "A"], [size |-> 2, body |-> "B"],
              [size |-> 3, body |-> "A"], [size |-> 4, body |-> "B"],
              [size |-> 5, body |-> "A"]}
=============================================================================
