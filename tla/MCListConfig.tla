----------------------------- MODULE MCListConfig -----------------------------
(* ListConfig on a small instance: one list that may be renamed once, with a *)
(* pattern for its first name and a later one for both, and one alias.       *)
EXTENDS ListConfig

CONSTANTS before, after, todo, reference, inbox, client

OneList  == {1}
TwoNames == {before, after}
Types    == {todo, reference}
Handles  == {inbox}
OneCall  == {client}
Patterns == {<<>>, <<[names |-> {before}, type |-> todo],
                     [names |-> TwoNames, type |-> reference]>>}
=============================================================================
