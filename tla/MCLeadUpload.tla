---------------------------- MODULE MCLeadUpload ----------------------------
(***************************************************************************)
(* Instances of LeadUpload for TLC.                                        *)
(***************************************************************************)
EXTENDS LeadUpload

\* "A" and "X" are the capitals of "a" and "x".
LowerCase == [p \in {"a", "A", "x", "X"} |-> IF p \in {"a", "A"} THEN "a" ELSE "x"]

At(local, domain) == [local |-> local, domain |-> domain]
Addresses == {At("a", "x"), At("a", "X"), At("A", "x")}
Headings == {[heading |-> "email"]}
Word == [word |-> "name"]
Nothing == [word |-> ""]
Blank == [word |-> " "]

\* Lines of one cell, and a few of two.
Pairs == { <<Word, At("a", "x")>>, <<Word, [heading |-> "email"]>>, <<At("a", "X"), Nothing>> }
Lines == { <<c>> : c \in Addresses \cup Headings \cup {Word, Nothing, Blank} } \cup Pairs

\* A file that Papa splits at the commas.
FileOf(extension, supported, utf8, lines) ==
    [extension |-> extension, supported |-> supported, utf8 |-> utf8,
     atCommas |-> lines, byPapa |-> lines]

\* A CSV file of semicolons, two cells a line, which Papa detects: each line is a
\* single word to csv-parse.
Semicolons(lines) ==
    [FileOf("csv", TRUE, TRUE, lines) EXCEPT !.atCommas = [n \in DOMAIN lines |-> <<Word>>]]

UpTo(n, lines) == UNION {[1..k -> lines] : k \in 0..n}

\* CSV files of up to three lines, and of four that are one more than maxLeads
\* unless the first is a heading; those of semicolons; text files of up to two
\* lines; and one of each kind that is refused unread.
Files ==
    { FileOf("csv", TRUE, TRUE, lines) :
        lines \in UpTo(3, Lines) \cup [1..4 -> {<<At("a", "x")>>, <<Word>>, <<[heading |-> "email"]>>}] }
    \cup { Semicolons(lines) : lines \in UpTo(3, Pairs) }
    \cup { FileOf("txt", TRUE, TRUE, lines) : lines \in UpTo(2, Lines) }
    \cup { FileOf("other", TRUE, TRUE, <<>>), FileOf("csv", FALSE, TRUE, <<>>),
           FileOf("txt", TRUE, FALSE, << <<At("a", "x")>> >>) }

\* A good file, which a client or the dialog may take in between.
Spares == { FileOf("csv", TRUE, TRUE, << <<At("a", "x")>> >>) }

Nobody == [word |-> "no file"]
=============================================================================
