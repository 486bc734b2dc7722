----------------------------- MODULE MCLibrary -----------------------------
EXTENDS Library

(* Every byte with a value of its own, and two places where a string ends. *)
Tagged == {[a \in 0 .. SIZE - 1 |-> IF a \in {z, SIZE - 1} THEN 0 ELSE a + 1] :
              z \in {0, 6, SIZE - 1}}

Patterns == {<<0, 0, 0, 0>>, <<17, 34, 51, 68>>}

Numbers == {0, 9, 10, 255, 32767, 32768, 65535}

(* Every conversion of a number; a line with other text in it, an unknown     *)
(* conversion, a per cent sign and a line break; a string and a character.    *)
Formats ==
    [format : {<<37, 120>>, <<37, 35, 120>>, <<37, 117>>, <<37, 100>>}, args : {<<v>> : v \in Numbers}]
    \cup [format : {<<97, 37, 37, 37, 117, 37, 122, 61, 37, 100, 10>>}, args : {<<1, 40000>>}]
    \cup [format : {<<37, 115, 37, 99>>}, args : {<<1, 65>>, <<10, 10>>}]
=============================================================================
