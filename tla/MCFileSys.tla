----------------------------- MODULE MCFileSys -----------------------------
(* Instances of FileSys for TLC.                                           *)
EXTENDS FileSys

Entry(n, type, length, isElf) == [name |-> n, file_type |-> type, len |-> length, elf |-> isElf]
F(c) == <<"f", c>>

\* Files that are empty, inside a block, at and around the block boundaries
Image == <<Entry(<<".">>, 1, 0, FALSE), Entry(F("0"), 2, 0, FALSE), Entry(F("3"), 2, 3, FALSE),
           Entry(F("4"), 2, 4, TRUE), Entry(<<"r">>, 0, 0, FALSE), Entry(F("5"), 2, 5, TRUE),
           Entry(F("8"), 2, 8, TRUE)>>

AllNames == {F(c) : c \in {"0", "3", "4", "5", "8"}} \cup {<<"r">>, <<"x">>, <<".">>, <<".", "x">>}

\* Divisors and a multiple of the block size, one size that is neither; none,
\* and backwards
Sizes == {1, 2, 3, 4, 8, 0, -3}

\* A program alone and with arguments, spaces before, between and after the
\* words, both ends of line; then commands that cannot be executed
AllCommands ==
    {F("4") \o <<NUL>>, F("4") \o <<" ", " ", NUL>>,
     F("5") \o <<" ", "a", NUL>>, F("5") \o <<" ", " ", "a", " ", " ", NUL>>,
     F("8") \o <<" ", "a", " ", " ", "b", NL>>,
     <<" ">> \o F("4") \o <<NUL>>, <<NUL>>, <<".", NUL>>, F("3") \o <<NUL>>, <<"x", NL>>}

\* Left by longer lines: words, runs of spaces, an end
Old == {<<"z", " ", " ", NUL, "y", NUL>>}
=============================================================================
