------------------------------ MODULE MCWindow ------------------------------
EXTENDS Window, FiniteSets

\* One letter in two cases, one that no command has, and a key shown as ^[.
MCUpper == [c \in {"a", "A", "z", "Z", " ", "esc"} |->
              CASE c = "a" -> "A" [] c = "z" -> "Z" [] OTHER -> c]
MCHints == [t \in {2, 3, 4} |->
              CASE t = 3 -> <<<<"A">>, <<"A", "Z">>>> [] t = 4 -> <<<<"Z">>>> [] OTHER -> <<>>]
MCColumnsOf(line) == Len(line) + Cardinality({i \in DOMAIN line : line[i] = "esc"})
MCIsCommand(line, t) == \E i \in DOMAIN MCHints[t] : line = Append(MCHints[t][i], " ")
MCHeights == [login |-> {1}, game |-> {1, 2}, error |-> {1}]
MCMaxTyped == [login |-> 3, game |-> 1, error |-> 0]
MCMaxLines == [login |-> 0, game |-> 3, error |-> 0]
=============================================================================
