------------------------------ MODULE MCFiles ------------------------------
(* An image for TLC: a program whose file ends within a block, a text that  *)
(* ends with one, a file whose second block is not in the image, and one    *)
(* whose inode is not.                                                      *)
EXTENDS Files

MCLength == [i \in 0 .. 2 |-> <<7, 6, 5>>[i + 1]]
MCBlocks == [i \in 0 .. 2 |->
    [b \in 0 .. (MCLength[i] \div BLOCK_SIZE) |->
        <<<<3, 0, 5>>, <<1, 4, 2>>, <<2, 9>>>>[i + 1][b + 1]]]

Entry(name, type, inode) ==
    [filename |-> name, filetype |-> type, inode |-> inode]

MCDentries == << Entry(<<"d">>, DIR_FILE_TYPE, 0),
                 Entry(<<"s", "h">>, NORMAL_FILE_TYPE, 0),
                 Entry(<<"t">>, NORMAL_FILE_TYPE, 1),
                 Entry(<<"b">>, NORMAL_FILE_TYPE, 2),
                 Entry(<<"z">>, NORMAL_FILE_TYPE, 3),
                 Entry(<<"r">>, RTC_FILE_TYPE, 0) >>
MCNames == {MCDentries[k].filename : k \in DOMAIN MCDentries}

\* "sh" and up to four characters, also the file name that is too long.
Tails == UNION {[1 .. n -> {"x", SP, NL}] : n \in 0 .. 4}
MCCommands == {<<"s", "h">> \o tail : tail \in Tails}
=============================================================================
