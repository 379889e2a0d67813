------------------------------- MODULE MCWire -------------------------------
(***************************************************************************)
(* Constants of the TLC run of Wire: a client that finds three peers in    *)
(* the list of its session, one peer twice, one with underscores in its    *)
(* alias or one with a colon; and subscriptions to a session whose key     *)
(* holds a space and to one whose key holds two percent signs.             *)
(***************************************************************************)
EXTENDS Wire

\* The first has a slash in its encoding, the second a length of two digits.
TwoTexts == <<[by |-> 1, text |-> <<63, 63, 63>>], [by |-> 2, text |-> <<97, 98, 99, 100>>]>>

Peer(id, alias) == [id |-> <<id>>, alias |-> alias]

SomeRegistries == {
  <<Peer("p", <<"x">>), Peer("q", <<"y">>), Peer("r", <<"z">>)>>,
  <<Peer("p", <<"x">>), Peer("q", <<"y", "_", "y">>), Peer("p", <<"x">>)>>,
  <<Peer("p", <<"x", ":", "y">>)>>,
  <<>>}

Myself == Peer("m", <<"w">>)

SomeLists == {<<<<"s", " ", "t">>>>, <<<<"s", "%", "%">>>>}

Hashes == [name \in {<<"p">>, <<"q">>, <<"r">>, <<"s">>, <<"t">>, <<"s", "%">>,
                     <<"s", " ", "t">>, <<"s", "%", "%">>} |->
             CASE name = <<"p">> -> 0 [] name = <<"q">> -> 2 [] OTHER -> 4]

OneByte == {1}
TenBytes == {10}
=============================================================================
