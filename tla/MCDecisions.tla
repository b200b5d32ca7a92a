---------------------------- MODULE MCDecisions ----------------------------
(* Decisions with two requests and a click.                             *)
EXTENDS Decisions

OldestOfTwo == <<"a", "b">>
Ref(n, v) == [name |-> n, ver |-> v]
SomeForms == {<<Ref("b", 1), Ref("a", 1)>>, <<Ref("a", 1), Ref("a", 2), Ref("b", 1)>>}
OwnB == {Ref("b", 2)}
=============================================================================
