---------------------------- MODULE MCNotifications ----------------------------
(* Notifications with two names, one of them a part of the other, and a client *)
(* that registers for the shorter one.  A stump that ends before the longer    *)
(* name takes ten bytes for it: "<%start%>" and one byte of a length.  The     *)
(* layer is spelled like the shorter name.                                     *)
EXTENDS Notifications, TLC

CONSTANTS n1, n2, c1

Spellings == (n1 :> <<97>>) @@ (n2 :> [i \in 1 .. 9 |-> 97])
LayerLikeName == <<97>>
OneInterest == (c1 :> {n1})
=============================================================================
