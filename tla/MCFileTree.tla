------------------------------ MODULE MCFileTree ------------------------------
(* Bounded instances of FileTree for TLC. *)
EXTENDS FileTree, TLC

Dir(n)  == [kind |-> "dir", name |-> n]
File(n) == [kind |-> "file", name |-> n]
Dots    == [kind |-> "dots", name |-> ".."]

(* A drive with a folder and a file, and in the folder a file of the same   *)
(* name.                                                                    *)
TwoDeep == <<"C">> :> <<Dir("a"), File("f")>> @@
           <<"C", "a">> :> <<Dots, File("f")>>
OneDrive == <<"C">>
Letters  == {"C", "a", "f", ".."}
=============================================================================
