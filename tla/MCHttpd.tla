-------------------------------- MODULE MCHttpd --------------------------------
EXTENDS Httpd, SequencesExt

MCEntries == {<<"{", "i">>, <<"{", "v", "w">>}
MCSuffix == <<"}", "}">>
PagePieces == MCEntries \cup {MCSuffix, <<"}">>, <<"x">>, <<"n", "n", "n", "n">>}
MCBytes == {"{", "i", "v", "w", "}", "x", "n"}
MCPages == {FlattenSeq(s) : s \in SeqOf(PagePieces, 5)}

\* Whole escapes, and those that another piece cuts off.
QueryPieces == {<<"a">>, <<"b">>, <<"=">>, <<"&">>, <<"%", "4", "1">>, <<"%">>, <<"4">>}
MCQueries == {FlattenSeq(s) : s \in SeqOf(QueryPieces, 6)}
\* Symbols that are no digits count as 0.
Nibble == [c \in {"a", "b", "=", "&", "%", "1", "4", "A", "0"} |->
             CASE c = "1" -> 1 [] c = "4" -> 4 [] c = "a" \/ c = "A" -> 10 [] c = "b" -> 11 [] OTHER -> 0]
MCHex == [d \in (DOMAIN Nibble) \X (DOMAIN Nibble) |->
            LET byte == 16 * Nibble[d[1]] + Nibble[d[2]]
            IN CASE byte = 0 -> "0" [] byte = 65 -> "A" [] OTHER -> "byte " \o ToString(byte)]
MCRequired == {<<"a">>}
================================================================================
