---------------------------- MODULE MCCommandLine ----------------------------
(* One character of each kind; B stands for BODY, 7 and 8 for its values. *)
EXTENDS CommandLine

CONSTANTS MaxChars

MCAlnum == {"a", "B", "b", "7", "8"}
MCOthers == {"_", "="}
MCPrintable == MCAlnum \cup MCOthers \cup {"-", ".", "<", ">", "@", ",", ":", " ", "\"", "\\"}
MCLower == [c \in MCPrintable \cup {"\t"} |-> IF c = "B" THEN "b" ELSE c]
MCBodyKey == <<"B">>
MCBodyValues == {<<"7">>, <<"8">>}

Words(C, max) == UNION {[1 .. n -> C] : n \in 0 .. max}

(* Every short line, and the parts of longer ones. *)
MCGreetings == Words({"a", "-", ".", "_", " "}, DomainMax + 1)

Routes == {<<>>, <<"@", "a", ":">>, <<"@", "a", ",", "@", "a", ".", "a", ":">>, <<"@", ":">>,
           <<"@", "a">>, <<"@", "a", ",", ":">>, <<"@", "-", ":">>, <<"@", "a", ".", ":">>}

Locals == {<<>>, <<"a">>, <<"a", ".", "_">>, <<"a", ".">>, <<".", "a">>, <<"-", "a", "a", "a">>,
           <<"a", "a", "a", "a", "a">>}
          \cup {<<"\"">> \o w : w \in Words({"\"", "\\", " "}, 4)}
          \cup {<<"\"", "\t", "\"">>, <<"\"", "\\", "\t", "\"">>}

Domains == {<<>>, <<"a">>, <<"a", ".", "-">>, <<"a", ".">>, <<".", "a">>, <<"a", "_">>,
            <<"a", ".", "a", "a", "a">>, <<"a", "a", "a", "a", "a", "a">>}

Params == {<<>>, <<" ", "B", "=", "7">>, <<" ", "b", "=", "8">>, <<" ", "B", "=", "a">>,
           <<" ", "a", "=", "7">>, <<" ", "B", "=">>, <<" ">>, <<"-", "B", "=", "7">>, <<" ", "=", "7">>}

MCArguments ==
  {<<"<">> \o r \o l \o <<"@">> \o d \o <<">">> : r \in Routes, l \in Locals, d \in Domains}
    \cup {<<"<">> \o r \o <<"a", "@", "a", ">">> \o p \o q : r \in Routes, p, q \in Params}
    \cup {<<"<", ">">> \o p \o q : p, q \in Params}
    \cup {<<"<">> \o w : w \in Words({"a", "@", ">", "\"", ":", ","}, MaxChars)}
    \cup Words({"a", "<", "@"}, 2)
=============================================================================
