----------------------------- MODULE MCJniBridge -----------------------------
EXTENDS JniBridge
\* "too long" is cut in its slot, to a text that nobody asks for.
MCText == {"", "list", "()V", "too long", "cut"}
MCHeld == [x \in MCText |-> IF x = "too long" THEN "cut" ELSE x]
MCCapacity == [k \in Kind |-> IF k = "method" THEN 2 ELSE 1]
MCMethod(name, rest) == <<"method", [name |-> name, rest |-> rest]>>
MCAsked == {MCMethod("list", "()V"), MCMethod("too long", "()V"), MCMethod("list", ""),
            <<"field", [name |-> "list", rest |-> ""]>>}
\* No entry for "c"; "c//x" has an empty component; "b" is listed twice.
MCArchive == <<<<"c", "b", "z">>, <<"c", "a">>, <<"c", "b", "y">>, <<"c", "", "x">>, <<"d", "">>>>
MCSize == [e \in DOMAIN MCArchive |-> e]
MCPaths == {<<"", "c", "">>, <<"d">>}
Symmetric == Permutations(Thread)
=============================================================================
