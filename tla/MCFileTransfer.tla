--------------------------- MODULE MCFileTransfer ---------------------------
(***************************************************************************)
(* Constants of the TLC run of FileTransfer: two senders, the first with a *)
(* file "x" and a file "x#9", the second with a file "x" of its own.       *)
(***************************************************************************)
EXTENDS FileTransfer, TLC

CONSTANTS a, b, r, t1, t2, t3

TwoSenders == {a, b}
OneReceiver == {r}
ThreeTransfers == {t1, t2, t3}
FromBoth == (t1 :> a) @@ (t2 :> a) @@ (t3 :> b)
Names == (t1 :> <<"x">>) @@ (t2 :> <<"x", "9">>) @@ (t3 :> <<"x">>)
Values == ("x" :> 0) @@ ("9" :> 0)
Pasteboards == (r :> "pasteboard")
=============================================================================
