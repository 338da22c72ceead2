------------------------------ MODULE MCShell ------------------------------
(* Instances of Shell for TLC. *)
EXTENDS Shell, TLC
CONSTANTS p1, p2, p3

MCNumbers == Pids \cup {"huge"}

MCCharacters == {" ", "<", ">", "&", "ls", "a", "f", "g"} \cup native_commands \cup MCNumbers

Usual(words, in, out, background) ==
    [words |-> words, in |-> in, out |-> out, background |-> background]
Plain(words) == Usual(words, <<>>, <<>>, FALSE)

\* One or two words with any redirections, and every native command.
MCCommands ==
    {Usual(words, in, out, background) :
         words \in {<<<<"ls">>>>, <<<<"ls">>, <<"a">>>>},
         in \in {<<>>, <<"f">>}, out \in {<<>>, <<"g">>}, background \in BOOLEAN}
    \cup {Plain(<<<<"exit">>>>), Plain(<<<<"jobs">>>>),
          Plain(<<<<"kill">>, <<"huge">>>>), Plain(<<<<"sleep">>, <<p1>>>>)}
    \cup {Plain(<<<<c>>, <<p>>>>) : c \in WithNumber \ {"sleep"}, p \in Pids}

\* Texts that are not written in the usual way: "&" alone and in the middle; a
\* sign inside a token and alone; two files; wrong arguments.
Odd == {<<<<"&">>>>, <<<<"ls">>, <<"&">>, <<"a">>>>, <<<<"ls", ">", "g">>>>,
        <<<<"ls">>, <<"<">>, <<"&">>>>, <<<<"ls">>, <<"<", "f">>, <<"<", "g">>>>,
        <<<<"kill">>>>, <<<<"wait">>, <<"a">>>>, <<<<"exit">>, <<"&">>>>}

\* Too many arguments, and a token that is too long.
TooMuch == {<<<<"ls">>, <<"a">>, <<"a">>, <<"a">>, <<"a">>, <<"a">>, <<"a">>>>,
            <<<<"ls">>, <<"a", "a", "a">>>>}

\* Nothing, blanks alone, blanks everywhere, and more of them than fit in a line.
MCOtherTexts ==
    {Joined(l, 1) : l \in Odd \cup TooMuch}
    \cup {<<>>, Blanks(2), Blanks(1) \o <<"ls">> \o Blanks(2) \o <<"a", " ", "&", " ">>,
          <<"jobs">> \o Blanks(LINE_LENGTH)}
=============================================================================
