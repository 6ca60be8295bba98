------------------------------ MODULE CopyText ------------------------------
(***************************************************************************)
(* The text format of COPY: how a row of Go values is encoded (copy.go) and *)
(* how the server reads a stream of such rows.                              *)
(*                                                                          *)
(* Text is a sequence of symbols: characters that the format treats apart,  *)
(* "bad" for a byte that is not UTF-8, the two hex digits of a byte as one  *)
(* symbol, and numbers and dates as one symbol each.                        *)
(***************************************************************************)
EXTENDS Integers, Sequences, FiniteSets, SequencesExt, Functions

\* A Go value: its dynamic type, its text, and its number if it has one.
Go(kind, text, n) == [kind |-> kind, text |-> text, n |-> n]
Nil == Go("nil", <<>>, 0)
Str(text) == Go("string", text, 0)

\* The two digits of a byte.
HexOf ==
    [b \in {"NUL", "TAB", "NL", "CR", "N", "a", "x", "bad", "\\"} |->
        IF b = "NUL" THEN "00" ELSE IF b = "TAB" THEN "09" ELSE IF b = "NL" THEN "0a" ELSE IF b = "CR" THEN "0d"
        ELSE IF b = "N" THEN "4e" ELSE IF b = "a" THEN "61" ELSE IF b = "x" THEN "78" ELSE IF b = "bad" THEN "ff"
        ELSE "5c"]
Hex(b) == HexOf[b]
Null == <<"\\", "N">>

EscapeOf ==
    [c \in {"NL", "CR", "TAB", "BS", "FF", "VT", "\\"} |->
        IF c = "NL" THEN "n" ELSE IF c = "CR" THEN "r" ELSE IF c = "TAB" THEN "t" ELSE IF c = "BS" THEN "b"
        ELSE IF c = "FF" THEN "f" ELSE IF c = "VT" THEN "v" ELSE c]

\* Mutant: a carriage return is written as it is.
EscapeTabsOnly(c) == IF c \in {"\\", "NL", "TAB"} THEN <<"\\", EscapeOf[c]>> ELSE <<c>>

Escape(c) == IF c \in DOMAIN EscapeOf THEN <<"\\", EscapeOf[c]>> ELSE <<c>>

Without(s, b) == FlattenSeq([i \in 1..Len(s) |-> IF s[i] = b THEN <<>> ELSE <<s[i]>>])

\* ToValidUTF8: one "?" for each run of bad bytes.
ValidUTF8(s) ==
    FlattenSeq([i \in 1..Len(s) |->
        IF s[i] # "bad" THEN <<s[i]>>
        ELSE IF i > 1 /\ s[i - 1] = "bad" THEN <<>> ELSE <<"?">>])

EscapeCopyString(s) == FlattenSeq([i \in 1..Len(ValidUTF8(s)) |-> Escape(ValidUTF8(s)[i])])
HexEncodeCopyBytes(s) == <<"\\", "\\", "x">> \o [i \in 1..Len(s) |-> Hex(s[i])]

FormatField(g) ==
    IF g.kind = "nil" THEN Null
    ELSE IF g.kind = "bytes" THEN HexEncodeCopyBytes(g.text)
    ELSE IF g.kind = "string" THEN EscapeCopyString(g.text)
    ELSE g.text                      \* numbers and booleans, as fmt prints them

FormatRowToCopyText(row) ==
    FlattenSeq([i \in 1..Len(row) |-> (IF i > 1 THEN <<"TAB">> ELSE <<>>) \o FormatField(row[i])])
    \o <<"NL">>

----------------------------------------------------------------------------
(* The server's side of COPY FROM STDIN *)

\* The positions escaped by a backslash: those after an odd number of them.
Escaped(s) ==
    {i \in 1..Len(s) : \E j \in 0..(i - 1) :
        /\ j = 0 \/ s[j] # "\\"
        /\ \A k \in (j + 1)..(i - 1) : s[k] = "\\"
        /\ (i - 1 - j) % 2 = 1}

\* The pieces of s that end with a plain separator: its rows, or its fields.
Ends(s, separator) == {i \in 1..Len(s) : s[i] = separator} \ Escaped(s)
Pieces(s, separator) ==
    LET ends == Ends(s, separator)
        End(k) == IF k = 0 THEN 0 ELSE CHOOSE i \in ends : Cardinality({j \in ends : j <= i}) = k
    IN  [k \in 1..Cardinality(ends) |-> SubSeq(s, End(k - 1) + 1, End(k) - 1)]

\* What an escaped character stands for.
Unescaped(c) ==
    IF \E d \in DOMAIN EscapeOf : EscapeOf[d] = c THEN CHOOSE d \in DOMAIN EscapeOf : EscapeOf[d] = c ELSE c

Unescape(s) ==
    LET escaped == Escaped(s) IN
    FlattenSeq([i \in 1..Len(s) |->
        IF i \in escaped THEN <<Unescaped(s[i])>> ELSE IF s[i] = "\\" THEN <<>> ELSE <<s[i]>>])

\* A field as the input function of its column gets it.
NullCell == [null |-> TRUE, text |-> <<>>]
TextCell(text) == [null |-> FALSE, text |-> text]
Cell(field) == IF field = Null THEN NullCell ELSE TextCell(Unescape(field))
Cells(line) == LET f == Pieces(Append(line, "TAB"), "TAB") IN [i \in 1..Len(f) |-> Cell(f[i])]
ReadStream(s) == LET lines == Pieces(s, "NL") IN [i \in 1..Len(lines) |-> Cells(lines[i])]
=============================================================================
