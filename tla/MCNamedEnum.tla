---------------------------- MODULE MCNamedEnum ----------------------------
(* NamedEnum with short declarations of every notation, longer ones with gaps, and parameters. *)
EXTENDS Parameters

Names == << <<"a">>, <<"x", "1">>, <<"f", "0">>, <<"b">>, <<"c">>, <<"d">>, <<"e">>, <<"g">>, <<"h">> >>
Literals == {<<>>, <<"0">>, <<"2">>, <<"1", "2">>, <<"0", "1", "7">>, <<"0", "x", "1", "f">>, <<"0", "x", "B">>,
             <<"2", "'", "0">>, <<"0", "x", "f", "f">>}

MCCodes == <<"\r", " ", "#", "'", ",", "-">> \o SubSeq(Small, 1, 10) \o <<"=">> \o SubSeq(Big, 11, 16)
               \o <<"[", "]", "a", "b", "c", "d", "e", "f", "g", "h", "l", "o", "p", "r", "s", "t", "u", "x">>
MCLetters == ToSet(MCCodes) \ (Others \cup {"\r", "#", "-", "[", "]"})
MCConstantNames == {<<"x", "x", "x">>}
MCConstantValue == [n \in MCConstantNames |-> 2]

\* Three items, with any values that fit the type.
Short == {[i \in 1 .. 3 |-> [name |-> Names[i], value |-> v[i]]] : v \in [1 .. 3 -> Literals]}

\* Up to eight items: each has the value after the one before it, or skips some.
Skipping == << <<"2">>, <<"4">>, <<"6">>, <<"8">>, <<"1", "0">>, <<"1", "2">>, <<"1", "4">>, <<"1", "6">> >>
Long == UNION {{[i \in 1 .. n |-> [name |-> Names[i], value |-> IF i \in gaps THEN Skipping[i] ELSE <<>>]] :
                    gaps \in SUBSET (1 .. n)} : n \in {1, 2, 4, 5, 8}}

\* States of an order: the one in the middle has a constant for its value.
OrderStates == <<[name |-> <<"a">>, value |-> <<>>], [name |-> <<"o", "p">>, value |-> <<"x", "x", "x">>],
                 [name |-> <<"f">>, value |-> <<>>]>>

\* Behind the last value of the type.
Late == [OrderStates EXCEPT ![1].value = <<"2", "5", "5">>]

MCParameterTypes == {[OrderStates EXCEPT ![2].value = <<"1", "2">>]}

MCDeclarations == {d \in Short \cup Long \cup {OrderStates, Late} \cup MCParameterTypes : Compiles(d)}

\* Files of two entries: numbers, booleans, names and signs.
Texts == {<<>>, <<"1", "2">>, <<"2", "5", "6">>, <<"-", "1">>, <<"t", "r", "u", "e">>, <<"f">>, <<"o", "p">>,
          <<"=", "]">>, <<"#", "a">>}
Entry(name, value) == [section |-> name, key |-> <<"a">>, value |-> value]
MCFiles == [entries: {<<Entry(<<"a">>, x), Entry(<<"b", " ", "b">>, y)>> : x, y \in Texts},
            indent: {<<>>, <<" ">>}, tail: {<<>>, <<" ">>, <<"\r">>, <<" ", "#", "c">>}]
=============================================================================
