------------------------------- MODULE Parser -------------------------------
(***************************************************************************)
(* Assignment1's class Parser (parser.cpp): what becomes of a line.        *)
(*                                                                         *)
(* A text is a sequence of characters: " ", "<", ">", "&", and names, each *)
(* of which stands for one word, file or number and counts as one          *)
(* character.  A line is the sequence of the tokens of a text.             *)
(***************************************************************************)
EXTENDS Compaction

CONSTANTS LINE_LENGTH, MAX_ARGS, MAX_LENGTH,    \* limits on a line
          Characters,                           \* of the texts
          Numbers                               \* names that IsInteger accepts

ASSUME ParserAssumption == MAX_ARGS \in Nat

WithNumber == {"kill", "resume", "sleep", "suspend", "wait"}
native_commands == {"exit", "jobs"} \cup WithNumber

Blank == " "

\* What one more character makes of the stretches before it: a blank begins one.
AddCharacter(fields, c) ==
    IF c = Blank THEN Append(fields, <<>>)
    ELSE [fields EXCEPT ![Len(fields)] = Append(@, c)]

\* The stretches of text between two blanks, some of them empty.
Fields(text) ==
    LET UpTo[n \in 0..Len(text)] ==
            IF n = 0 THEN <<<<>>>> ELSE AddCharacter(UpTo[n - 1], text[n])
    IN  UpTo[Len(text)]

\* However many blanks separate the tokens, and at the ends of the text.
SplitStringToVector(text) == Without(Fields(text), {<<>>})

\* Faulty variant: the number of arguments is not limited.
ValidateLengths(text) ==
    LET split_input == SplitStringToVector(text) IN
    /\ Len(text) < LINE_LENGTH
    /\ \A i \in DOMAIN split_input : Len(split_input[i]) < MAX_LENGTH

ValidateInput(text) ==
    LET split_input == SplitStringToVector(text) IN
    /\ Len(text) < LINE_LENGTH
    /\ Len(split_input) < MAX_ARGS
    /\ \A i \in DOMAIN split_input : Len(split_input[i]) < MAX_LENGTH

isNativeCommand(line) == line[1] \in {<<c>> : c \in native_commands}
isBackgroundProcess(line) == line[Len(line)] = <<"&">>

\* The first redirection sign of the token is c.
Redirects(token, c) ==
    \E i \in DOMAIN token :
        /\ token[i] = c
        /\ \A j \in 1..(i - 1) : token[j] \notin {"<", ">"}

\* ParseForIO: the last token that redirects decides; its first character,
\* whatever it is, is cut off.  No file is the empty name.
File(line, c) ==
    LET S == {i \in DOMAIN line : Redirects(line[i], c)}
    IN  IF S = {} THEN <<>> ELSE Tail(line[CHOOSE i \in S : \A j \in S : j <= i])

fileIN(line) == File(line, "<")
fileOUT(line) == File(line, ">")

\* Faulty variant: "&" is left among the arguments.
CleanRedirects(line) == Without(line, {token \in Range(line) : token[1] \in {"<", ">"}})

CleanUserInput(line) ==
    Without(line, {token \in Range(line) : token[1] \in {"<", ">", "&"}})

\* The pointers that exec gets: the arguments and NULL, which is no argument.
\* The archived copy of the class writes them to an array of MAX_ARGS + 1.
ConvertVectorToCharArray(cmd) == Append(cmd, <<>>)

IsInteger(token) == \A i \in DOMAIN token : token[i] \in Numbers

\* A native command's arguments, in the cleaned line.
HasValidArg(cmd) ==
    IF cmd[1] \in {<<c>> : c \in WithNumber}
    THEN Len(cmd) = 2 /\ IsInteger(cmd[2])
    ELSE Len(cmd) = 1

-----------------------------------------------------------------------------
Blanks(n) == [i \in 1 .. n |-> Blank]

\* The text with its k-th token, and n blanks before it unless it is the first.
AddToken(text, n, k, token) == text \o Blanks(IF k = 1 THEN 0 ELSE n) \o token

\* Tokens written one after another with n blanks between them.
Joined(tokens, n) ==
    LET UpTo[k \in 0..Len(tokens)] ==
            IF k = 0 THEN <<>> ELSE AddToken(UpTo[k - 1], n, k, tokens[k])
    IN  UpTo[Len(tokens)]

\* No token, if the command has no such file.
Redirection(sign, file) == IF file = <<>> THEN <<>> ELSE <<<<sign>> \o file>>

\* A word has no blank and no sign, and a command written in the usual way has a
\* word at least, and the empty name for a file that it does not have.
Word == Seq(Characters \ {Blank, "<", ">", "&"}) \ {<<>>}
UsualCommand == [words : Seq(Word) \ {<<>>}, in : Word \cup {<<>>}, out : Word \cup {<<>>},
                 background : BOOLEAN]

\* The usual way to write a command: its words, the files of its redirections
\* if it has any, and "&" for one in the background, with n blanks between them.
Tokens(c) ==
    c.words \o Redirection("<", c.in) \o Redirection(">", c.out)
    \o (IF c.background THEN <<<<"&">>>> ELSE <<>>)

Text(c, n) == Joined(Tokens(c), n)

\* What the parser makes of a line.
Parsed(line) ==
    [words |-> CleanUserInput(line), in |-> fileIN(line), out |-> fileOUT(line),
     background |-> isBackgroundProcess(line)]
=============================================================================
