---------------------------- MODULE MCSubscriptions ----------------------------
(* Subscriptions on small instances: lists are numbered in roster order.    *)
EXTENDS Subscriptions

TwoLists == 1..2
FourIds  == 1..4
SixIds   == 1..6
Nobody   == {}
FirstList == {1}
=============================================================================
