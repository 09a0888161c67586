------------------------------- MODULE BioText -------------------------------
(***************************************************************************)
(* The text of a bio: the rewrites of _clean_bio_text, one operator each,   *)
(* and the rules of _validate_bio.  A text is a sequence of characters, of  *)
(* which the rewrites and the rules tell these kinds apart:                 *)
(*   "dash"     an em dash or one of its look-alikes (_EM_DASHES)           *)
(*   "emoji"    a character of _EMOJI, variation selector included          *)
(*   "joiner"   the zero-width joiner                                       *)
(*   "space"    space or tab              "newline"  the line feed          *)
(*   "return"   other whitespace, to strip() and \s but not to [ \t] or $:  *)
(*              carriage return, no-break space, form feed, ...             *)
(*   "comma", "dot", "bang"               "stop"     one of ; : ?           *)
(*   "letter"   A to Z and a to z         "digit"                           *)
(*   "hyphen"   - or +                    "star"     * or `                 *)
(*   "lt", "gt", "slash", "underscore", "hash", "lsquare", "rsquare",       *)
(*   "lparen", "rparen"                   "other"    anything else          *)
(***************************************************************************)
EXTENDS Integers, SequencesExt

CONSTANT MaxBioChars    \* MAX_BIO_CHARS

ASSUME BioAssumption == MaxBioChars \in Nat

Blank == {"space"}
Whitespace == {"space", "newline", "return"}
Punctuation == {"comma", "dot", "bang", "stop"}
Forbidden == {"dash", "emoji"}

Char == {"letter", "digit", "other", "hyphen", "star", "lt", "gt", "slash", "underscore",
         "hash", "lsquare", "rsquare", "lparen", "rparen", "joiner"}
        \cup Whitespace \cup Punctuation \cup Forbidden

\* s without the characters at the positions of S.
Without(s, S) ==
    FlattenSeq([i \in DOMAIN s |-> IF i \in S THEN <<>> ELSE <<s[i]>>])

\* All of s from position i to position j is of the kinds C.
AllIn(s, i, j, C) == \A h \in i .. j : s[h] \in C

-----------------------------------------------------------------------------
(* The rewrites, in the order in which _clean_bio_text makes them *)

\* [ \t]*dash+[ \t]* becomes a comma and a space: one for each run of dashes,
\* which takes the blanks on both its sides with it.
DashesToCommas(s) ==
    LET NextToDash(i) ==
            \E d \in DOMAIN s : /\ s[d] = "dash"
                                /\ AllIn(s, IF d < i THEN d + 1 ELSE i,
                                            IF d < i THEN i ELSE d - 1, Blank)
        Piece(i) == CASE s[i] = "dash" /\ i > 1 /\ s[i - 1] = "dash" -> <<>>
                      [] s[i] = "dash" /\ (i = 1 \/ s[i - 1] # "dash") -> <<"comma", "space">>
                      [] s[i] \in Blank /\ NextToDash(i) -> <<>>
                      [] OTHER -> <<s[i]>>
    IN FlattenSeq([i \in DOMAIN s |-> Piece(i)])

\* Fault: joiners are dropped wherever they stand.
EmojiAndJoiners(s) == {i \in DOMAIN s : s[i] \in {"emoji", "joiner"}}

\* emoji(emoji|joiner)*: a joiner goes only as a part of such a run.
EmojiRuns(s) ==
    {i \in DOMAIN s : \E e \in 1 .. i : /\ s[e] = "emoji"
                                        /\ AllIn(s, e, i, {"emoji", "joiner"})}

\* [ \t]{2,} becomes one space.
RepeatedBlanks(s) == {i \in DOMAIN s : i > 1 /\ s[i] \in Blank /\ s[i - 1] \in Blank}

\* [ \t]+ before punctuation.
BlanksBeforePunctuation(s) ==
    {i \in DOMAIN s : \E p \in DOMAIN s :
        i < p /\ s[p] \in Punctuation /\ AllIn(s, i, p - 1, Blank)}

\* ,[ \t]* before punctuation, from left to right: the punctuation a match ends
\* with does not begin another, so of a run of commas every second one goes.
CommasBeforePunctuation(s) ==
    LET CommasBefore(c) == {b \in 1 .. c - 1 : /\ s[b] = "comma"
                                               /\ AllIn(s, b, c - 1, {"comma"} \cup Blank)}
        Starts(c) == /\ s[c] = "comma"
                     /\ Cardinality(CommasBefore(c)) % 2 = 0
                     /\ \E p \in DOMAIN s : /\ c < p /\ s[p] \in Punctuation
                                            /\ AllIn(s, c + 1, p - 1, Blank)
    IN {i \in DOMAIN s : \E c \in 1 .. i : Starts(c) /\ AllIn(s, c + 1, i, Blank)}

\* (?m)^[ \t,]+|[ \t,]+$: blanks and commas at either end of a line.
LineStart(s, i) == i = 1 \/ s[i - 1] = "newline"
LineEnd(s, i) == i = Len(s) \/ s[i + 1] = "newline"

\* Fault: without (?m), only the first line's start and the last one's end.
TextEdges(s) ==
    LET Edge == {"comma"} \cup Blank IN
    {i \in DOMAIN s : AllIn(s, 1, i, Edge) \/ AllIn(s, i, Len(s), Edge)}

LineEdges(s) ==
    LET Edge == {"comma"} \cup Blank IN
    {i \in DOMAIN s :
        \/ \E l \in 1 .. i : LineStart(s, l) /\ AllIn(s, l, i, Edge)
        \/ \E l \in i .. Len(s) : LineEnd(s, l) /\ AllIn(s, i, l, Edge)}

\* text.strip()
Outer(s) == {i \in DOMAIN s : AllIn(s, 1, i, Whitespace) \/ AllIn(s, i, Len(s), Whitespace)}

Strip(s) == Without(s, Outer(s))

Rewrite(n, s) ==
    CASE n = 1 -> DashesToCommas(s)
      [] n = 2 -> Without(s, EmojiRuns(s))
      [] n = 3 -> Without(s, RepeatedBlanks(s))
      [] n = 4 -> Without(s, BlanksBeforePunctuation(s))
      [] n = 5 -> Without(s, CommasBeforePunctuation(s))
      [] n = 6 -> Without(s, LineEdges(s))
      [] n = 7 -> Strip(s)

Clean(s) == FoldLeft(LAMBDA text, n : Rewrite(n, text), s, <<1, 2, 3, 4, 5, 6, 7>>)

-----------------------------------------------------------------------------
(* The rules *)

\* The character after i is of the kinds C.
Before(s, i, C) == i < Len(s) /\ s[i + 1] \in C

\* </?[A-Za-z!]
Tag(s, i) ==
    /\ s[i] = "lt"
    /\ \/ Before(s, i, {"letter", "bang"})
       \/ Before(s, i, {"slash"}) /\ Before(s, i + 1, {"letter", "bang"})

\* \[[^\]\n]*\]\(
Link(s, i) ==
    /\ s[i] = "lsquare"
    /\ \E j \in i + 1 .. Len(s) : /\ s[j] = "rsquare"
                                  /\ \A h \in i + 1 .. j - 1 : s[h] \notin {"rsquare", "newline"}
                                  /\ Before(s, j, {"lparen"})

\* What is markup wherever it stands: the above, *, ` and __.
MarksAnywhere(s, i) ==
    \/ s[i] = "star"
    \/ s[i] = "underscore" /\ Before(s, i, {"underscore"})
    \/ Tag(s, i)
    \/ Link(s, i)

\* What is markup where it opens a line: #{1,6}\s, [-+]\s, > and \d{1,2}[.)]\s.
Heading(s, i) ==
    \E j \in i .. Len(s) : j < i + 6 /\ AllIn(s, i, j, {"hash"}) /\ Before(s, j, Whitespace)

Bullet(s, i) == s[i] = "hyphen" /\ Before(s, i, Whitespace)

Item(s, i) ==
    \E j \in i .. Len(s) : /\ j < i + 2 /\ AllIn(s, i, j, {"digit"})
                           /\ Before(s, j, {"dot", "rparen"}) /\ Before(s, j + 1, Whitespace)

MarksLine(s, i) == Heading(s, i) \/ Bullet(s, i) \/ s[i] = "gt" \/ Item(s, i)

\* Fault: a line is marked by what stands anywhere in it.
OpensAnywhere(s, i) == TRUE

\* ^\s*, under re.MULTILINE: from the start of a line to i there is whitespace
\* only, further line ends included.
OpensLine(s, i) == \E l \in 1 .. i : LineStart(s, l) /\ AllIn(s, l, i - 1, Whitespace)

\* _MARKUP.search finds something.
HasMarkup(s) == \E i \in DOMAIN s : MarksAnywhere(s, i) \/ (OpensLine(s, i) /\ MarksLine(s, i))

\* What _validate_bio asks of the text.
GoodBio(s) ==
    /\ Strip(s) # <<>>
    /\ Len(s) <= MaxBioChars
    /\ ~HasMarkup(s)
    /\ \A i \in DOMAIN s : s[i] \notin Forbidden
=============================================================================
