---------------------------- MODULE MCFileBrowser ----------------------------
(***************************************************************************)
(* Model checking of FileBrowser: an empty directory and two files in a    *)
(* root, on a screen of two lines.                                         *)
(***************************************************************************)
EXTENDS FileBrowser

Lengths == [n \in Names |-> 1 + n]
Card    == (<<>> :> <<3, 1, 2>>) @@ (<<1>> :> <<>>)
Asked   == {<<1>>, <<2>>}   \* a directory, and a file
OneKey  == {{}, {"BTN_UP"}, {"BTN_DOWN"}, {"BTN_LEFT"}, {"BTN_RIGHT"}}
=============================================================================
