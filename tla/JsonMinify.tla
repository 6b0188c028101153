------------------------------ MODULE JsonMinify ------------------------------
(***************************************************************************)
(* json_minify of src/infra/json_minify.py, which removes comments and white *)
(* space from a configuration file before reset-infra.sh feeds it to jq: a  *)
(* fold over the matches of its tokenizer, compared with a scanner that      *)
(* reads one character at a time.  A position is the number of characters    *)
(* before it, as in Python.                                                 *)
(***************************************************************************)
EXTENDS Naturals, Sequences, SequencesExt

CONSTANT MaxTextLength      \* bound on the texts that are compared

\* One character of each kind that json_minify or JSON tells apart.
Quote == "q"
Slash == "/"
Star == "*"
Backslash == "b"
Newline == "n"
Space == " "
Letter == "a"
Character == {Quote, Slash, Star, Backslash, Newline, Space, Letter}
WhiteSpace == {Newline, Space}

\* string[from:to]
Slice(string, from, to) == SubSeq(string, from + 1, to)

Blanks(n) == [i \in 1..n |-> Space]

-----------------------------------------------------------------------------
(* The code.                                                               *)

\* Length of the match of tokenizer at a position, 0 if there is none.
TokenAt(string, start) ==
    IF string[start + 1] \in {Quote, Newline} THEN 1
    ELSE IF Slice(string, start, start + 2) \in
                {<<Slash, Star>>, <<Star, Slash>>, <<Slash, Slash>>} THEN 2
    ELSE 0

\* The starts of the matches, in order: re.finditer goes on where the previous
\* match has ended.
Matches(string) ==
    LET from[pos \in 0..Len(string) + 1] ==
            IF pos >= Len(string) THEN <<>>
            ELSE IF TokenAt(string, pos) = 0 THEN from[pos + 1]
            ELSE <<pos>> \o from[pos + TokenAt(string, pos)]
    IN  from[0]

\* end_slashes_re finds an odd number of backslashes before start.
Escaped(string, last_index, start) ==
    \E n \in 0..(start - last_index) :
        /\ n % 2 = 1
        /\ \A i \in 1..n : string[start + 1 - i] = Backslash
        /\ start - n = last_index \/ string[start - n] # Backslash

\* What is appended for the text between the previous match and this one.
Between(st, string, strip_space, start) ==
    LET tmp == Slice(string, st.index, start)
    IN  CASE st.in_multi \/ st.in_single ->
               IF strip_space THEN <<>> ELSE Blanks(start - st.index)
          [] st.in_string \/ ~strip_space -> tmp
          [] OTHER -> SelectSeq(tmp, LAMBDA c : c \notin WhiteSpace)

\* A quote outside comments; it is included in what the next match catches.
MatchQuote(st, string, strip_space, start) ==
    [st EXCEPT
        !.in_string = IF ~@ \/ ~Escaped(string, st.index, start)
                      THEN ~@ ELSE @,
        !.index = start,
        !.new_str = @ \o Between(st, string, strip_space, start)]

\* Any other match.
MatchOther(st, string, strip_space, start) ==
    LET val == Slice(string, start, start + TokenAt(string, start))
        outside == ~(st.in_string \/ st.in_multi \/ st.in_single)
        in_multi == \/ outside /\ val = <<Slash, Star>>
                    \/ st.in_multi /\ val # <<Star, Slash>>
        in_single == \/ outside /\ val = <<Slash, Slash>>
                     \/ st.in_single /\ val # <<Newline>>
        ofBranch == CASE st.in_multi /\ ~in_multi /\ ~strip_space -> Blanks(2)
                      [] st.in_string /\ (Len(val) = 2 \/ ~strip_space) -> val
                      [] OTHER -> <<>>
        columns == CASE strip_space -> <<>>
                     [] val = <<Newline>> -> val
                     [] in_multi \/ in_single -> Blanks(Len(val))
                     [] OTHER -> <<>>
    IN  [st EXCEPT
            !.in_multi = in_multi, !.in_single = in_single,
            !.index = start + Len(val),
            !.new_str = @ \o Between(st, string, strip_space, start)
                          \o ofBranch \o columns]

\* The text after the last match is appended as it is.
json_minify(string, strip_space) ==
    LET Step(st, start) ==
            IF string[start + 1] = Quote /\ ~(st.in_multi \/ st.in_single)
            THEN MatchQuote(st, string, strip_space, start)
            ELSE MatchOther(st, string, strip_space, start)
        start == [in_string |-> FALSE, in_multi |-> FALSE, in_single |-> FALSE,
                  index |-> 0, new_str |-> <<>>]
        end == FoldLeft(Step, start, Matches(string))
    IN  end.new_str \o Slice(string, end.index, Len(string))

-----------------------------------------------------------------------------
(* The language: JSON with comments, one character at a time.              *)

\* Where its scanner is after character i, from where it was before it.
NextContext(string, c, i) ==
    LET ch == string[i]
        peek == IF i < Len(string) THEN string[i + 1] ELSE Newline
    IN  CASE c = "code" /\ ch = Quote -> "string"
          [] c = "code" /\ ch = Slash /\ peek = Star -> "open"
          [] c = "code" /\ ch = Slash /\ peek = Slash -> "line"
          [] c = "string" /\ ch = Backslash -> "escape"
          [] c = "string" /\ ch = Quote -> "code"
          [] c = "escape" -> "string"
          [] c = "open" -> "block"
          [] c = "block" /\ ch = Star /\ peek = Slash -> "close"
          [] c = "close" -> "code"
          [] c = "line" /\ ch = Newline -> "code"
          [] OTHER -> c

Contexts(string) ==
    LET context[i \in 0..Len(string)] ==
            IF i = 0 THEN "code" ELSE NextContext(string, context[i - 1], i)
    IN  context

InComment(context, i) ==
    \/ context[i - 1] \in {"open", "block", "close", "line"}
    \/ context[i - 1] = "code" /\ context[i] \in {"open", "line"}

\* Everything is closed, a string has no newline, and outside of strings and
\* comments there is neither slash, star nor backslash.
IsJsonWithComments(string, context) ==
    /\ context[Len(string)] = "code"
    /\ \A i \in 1..Len(string) :
        /\ context[i - 1] \in {"string", "escape"} => string[i] # Newline
        /\ context[i - 1] = "code" /\ ~InComment(context, i)
             => string[i] \notin {Slash, Star, Backslash}

\* The case in which json_minify does not see the end of a block comment: an
\* odd number of slashes stands before it, and the tokenizer takes the last one
\* and the star together.
OddSlashesBeforeEnd(string, context) ==
    LET SlashInBlock(j) ==
            j > 1 /\ string[j] = Slash /\ context[j - 1] = "block"
    IN  \E i \in 1..Len(string) :
            /\ context[i - 1] = "block" /\ context[i] = "close"
            /\ \E n \in 1..(i - 1) :
                /\ n % 2 = 1
                /\ \A j \in (i - n)..(i - 1) : SlashInBlock(j)
                /\ ~SlashInBlock(i - n - 1)

\* The text without comments and without white space outside of strings.
Reference(string, context) ==
    FlattenSeq([i \in 1..Len(string) |->
        IF \/ InComment(context, i)
           \/ context[i - 1] = "code" /\ string[i] \in WhiteSpace
        THEN <<>> ELSE <<string[i]>>])

\* The text with blanks in the place of comments.
BlankedReference(string, context) ==
    [i \in 1..Len(string) |->
        IF InComment(context, i) /\ string[i] # Newline
        THEN Space ELSE string[i]]

\* Texts that end with a newline, as the here-string of reset-infra.sh does.
Texts ==
    {Append(t, Newline) :
        t \in UNION {[1..n -> Character] : n \in 0..MaxTextLength}}

\* json_minify does what the language says, but for the exception above:
\* comment signs in strings, quotes in comments and escaped quotes are told
\* apart, nothing but comments and white space is removed, and with strip_space
\* off every character keeps its line and its column.
ASSUME MinifyCorrect ==
    \A string \in Texts :
        LET context == Contexts(string)
        IN  \/ ~IsJsonWithComments(string, context)
            \/ OddSlashesBeforeEnd(string, context)
            \/ /\ json_minify(string, TRUE) = Reference(string, context)
               /\ json_minify(string, FALSE) =
                    BlankedReference(string, context)
=============================================================================
