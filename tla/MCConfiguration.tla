---------------------------- MODULE MCConfiguration ----------------------------
(* Every short file, and files of three lines. *)
EXTENDS Configuration

CONSTANTS MaxChars, h, p, m, d

MCChars == {"h", "p", "m", "d", "x", "1", "#", " ", "\n", "\r"}
MCDigit == [c \in {"1"} |-> 1]
MCWord == (h :> <<"h">> @@ p :> <<"p">> @@ m :> <<"m">> @@ d :> <<"d">>)
MCType == (h :> "string" @@ p :> "number" @@ m :> "number" @@ d :> "bool")
MCMaxOf == (p :> 5 @@ m :> 20)
MCKeyList == <<h, p, m>>
MCDefault == (h :> <<>> @@ p :> 2 @@ m :> 4)
MCYes == {<<"x">>}

Short == UNION {[1 .. n -> {"h", "p", "1", "#", " ", "\n"}] : n \in 0 .. MaxChars}

LineSet ==
  {<<>>, <<" ">>, <<"#">>, <<"#", " ", "p">>, <<"#", "p", " ", "1">>,
   <<"h", " ", "h">>, <<" ", "h", " ", "x", " ", "1", " ">>, <<"h">>,
   <<"p", " ", "1">>, <<"p", " ", "1", "x">>, <<"p", " ", "x">>, <<"p", " ", "1", "1">>,
   <<"p", " ", "1", "1", "1">>, <<"m", " ", "1", "1">>, <<"m", " ", "1", "1", "1">>,
   <<"d", " ", "x">>, <<"d", " ", "x", " ">>, <<"x", " ", "h">>}

Long ==
  {a \o <<"\n">> \o b \o <<"\n">> \o c : a, b, c \in LineSet}
    \cup {a \o <<"\r", "\n">> \o b \o <<"\r", "\n">> : a, b \in LineSet}

MCFiles == Short \cup Long
=============================================================================
