-------------------------------- MODULE Reply --------------------------------
(***************************************************************************)
(* What becomes of one model reply: _parse_output of the provider adapter,  *)
(* then normalize_output, then validate_candidate.  The content of a reply  *)
(* is a sequence of tokens: prose, fences, brackets, single braces, JSON    *)
(* scalars and whole JSON objects.  Of an object the model keeps which      *)
(* fields it has and of what kind each is, and the text of a bio.           *)
(***************************************************************************)
EXTENDS BioText

CONSTANT Contents   \* per task, the contents a reply may have

BioTask == {"bio_draft", "bio_improve"}
Task == {"scholarship_extraction", "match_explanation", "classify_source_page",
         "split_list_candidates", "extract_scholarship_facts",
         "compare_official_evidence", "extract_eligibility_requirements"} \cup BioTask

\* "dicts" is a list of objects only, "items" any other list, "page" a string of
\* PAGE_TYPES, "str" any other string.
Kind == {"dict", "dicts", "items", "page", "str", "bool", "null"}
List == {"dicts", "items"}
String == {"str", "page"}

Bare == {"word", "fence", "lbracket", "rbracket", "lbrace", "rbrace", "scalar"}

Token(is) == [is |-> is]
Object(fields, text) == [is |-> "object", fields |-> fields, text |-> text]
EmptyObject == Object(<<>>, <<>>)
Nothing == Token("none")    \* nothing parsed

IsToken(t) ==
    \/ t \in {Token(is) : is \in Bare}
    \/ t.is = "object" /\ t = Object(t.fields, t.text) /\ t.text \in Seq(Char)

ASSUME ReplyAssumption ==
    \A task \in Task : \A content \in Contents[task] :
        content \in Seq(ToSet(content)) /\ \A i \in DOMAIN content : IsToken(content[i])

VARIABLES
    reply,      \* [task, content, finish]: the reply at hand
    pc,
    parsed,     \* what _parse_output returned
    output,     \* what is being repaired and judged
    rewrites,   \* of _clean_bio_text, how many have been made
    status      \* what became of this try

vars == <<reply, pc, parsed, output, rewrites, status>>

TypeOK ==
    /\ reply.task \in Task /\ reply.finish \in {"stop", "length"}
    /\ pc \in {"parse", "normalize", "clean", "validate", "done"}
    /\ parsed.is \in {"none", "object", "list", "scalar"} /\ output.is = parsed.is
    /\ rewrites \in 0 .. 7
    /\ status \in {"open", "completed", "review", "provider_output_truncated",
                   "provider_output_empty", "provider_output_invalid"}
    /\ status \in {"completed", "review"} => output # Nothing

Init ==
    /\ \E task \in Task, finish \in {"stop", "length"} : \E content \in Contents[task] :
          reply = [task |-> task, content |-> content, finish |-> finish]
    /\ pc = "parse" /\ rewrites = 0
    /\ parsed = Nothing /\ output = Nothing /\ status = "open"

-----------------------------------------------------------------------------
(* _parse_output *)

Is(content, i, kinds) == content[i].is \in kinds

\* One fence at the start and one at the end.
Unfenced(content) ==
    LET tail == IF content # <<>> /\ Is(content, 1, {"fence"}) THEN Tail(content) ELSE content
    IN IF tail # <<>> /\ Is(tail, Len(tail), {"fence"}) THEN Front(tail) ELSE tail

\* json.loads: what the tokens are the JSON text of, or Nothing.  Of lists in lists
\* only the innermost empty one is told.
Empty == {<<Token("lbrace"), Token("rbrace")>>, <<Token("lbracket"), Token("rbracket")>>}

Json(content) ==
    CASE Len(content) = 1 /\ Is(content, 1, {"object", "scalar"}) -> content[1]
      [] content = <<Token("lbrace"), Token("rbrace")>> -> EmptyObject
      [] /\ Len(content) > 1
         /\ Is(content, 1, {"lbracket"}) /\ Is(content, Len(content), {"rbracket"})
         /\ \/ \A i \in 2 .. Len(content) - 1 : Is(content, i, {"object", "scalar"})
            \/ Front(Tail(content)) \in Empty
           -> Token("list")
      [] OTHER -> Nothing

Openings(content) == {i \in DOMAIN content : Is(content, i, {"lbrace", "object"})}
Closings(content) == {i \in DOMAIN content : Is(content, i, {"rbrace", "object"})}

\* Fault: the slice ends with the first closing brace.
FirstBraced(content) ==
    IF Openings(content) = {} \/ Closings(content) = {} THEN <<>>
    ELSE SubSeq(content, Min(Openings(content)), Min(Closings(content)))

\* From the first opening brace to the last closing one, empty if there is none.
Braced(content) ==
    IF Openings(content) = {} \/ Closings(content) = {} THEN <<>>
    ELSE SubSeq(content, Min(Openings(content)), Max(Closings(content)))

\* Fault: nothing is taken out of a reply that is not JSON as a whole.
LoadsWhole(content) == Json(Unfenced(content))

Loads(content) ==
    IF Json(Unfenced(content)) # Nothing THEN Json(Unfenced(content))
    ELSE Json(Braced(Unfenced(content)))

\* Fault: a reply that cannot be read is sent to review.
FailToReview(category) ==
    /\ pc' = "done"
    /\ status' = "review"
    /\ UNCHANGED <<parsed, output>>

Fail(category) ==
    /\ pc' = "done"
    /\ status' = category
    /\ UNCHANGED <<parsed, output>>

\* A reply that cannot be read raises ProviderError with its category.
Parse ==
    /\ pc = "parse"
    /\ \/ /\ reply.finish = "length"
          /\ Fail("provider_output_truncated")
       \/ /\ reply.finish # "length"
          /\ reply.content = <<>>
          /\ Fail("provider_output_empty")
       \/ /\ reply.finish # "length"
          /\ reply.content # <<>>
          /\ Loads(reply.content) = Nothing
          /\ Fail("provider_output_invalid")
       \/ /\ reply.finish # "length"
          /\ Loads(reply.content) # Nothing
          /\ parsed' = Loads(reply.content)
          /\ output' = parsed'
          /\ pc' = "normalize"
          /\ UNCHANGED status
    /\ UNCHANGED <<reply, rewrites>>

-----------------------------------------------------------------------------
(* normalize_output *)

HasKind(o, field, kinds) == field \in DOMAIN o.fields /\ o.fields[field] \in kinds

IsBio == reply.task \in BioTask /\ output.is = "object" /\ HasKind(output, "text", String)

Normalize ==
    /\ pc = "normalize"
    /\ pc' = IF IsBio THEN "clean" ELSE "validate"
    /\ UNCHANGED <<reply, parsed, output, rewrites, status>>

\* _clean_bio_text, one rewrite after the other.
CleanBio ==
    /\ pc = "clean"
    /\ rewrites' = rewrites + 1
    /\ output' = [output EXCEPT !.text = Rewrite(rewrites', @)]
    /\ pc' = IF rewrites' = 7 THEN "validate" ELSE "clean"
    /\ UNCHANGED <<reply, parsed, status>>

-----------------------------------------------------------------------------
(* validate_candidate *)

Evidence == [evidence |-> List]

\* The fields each task's validator asks for, and the kinds it takes.
Declared(task) ==
    CASE task \in {"scholarship_extraction", "extract_scholarship_facts"} ->
            [candidate |-> {"dict"}] @@ Evidence
      [] task = "match_explanation" -> [explanation |-> String] @@ Evidence
      [] task = "classify_source_page" -> [page_type |-> {"page"}] @@ Evidence
      [] task = "split_list_candidates" -> [candidates |-> {"dicts"}] @@ Evidence
      [] task = "compare_official_evidence" ->
            [comparisons |-> {"dicts"}, contradictions |-> List] @@ Evidence
      [] task = "extract_eligibility_requirements" -> [rules |-> {"dicts"}] @@ Evidence

ValidBio(o) ==
    /\ DOMAIN o.fields = {"text"}
    /\ HasKind(o, "text", String)
    /\ GoodBio(o.text)

\* output.get("verified") is not None
ClaimsVerified(o) == HasKind(o, "verified", Kind \ {"null"})

ValidCandidate(task, o) ==
    /\ o.is = "object"
    /\ ~ClaimsVerified(o)
    /\ IF task \in BioTask THEN ValidBio(o)
       ELSE \A field \in DOMAIN Declared(task) : HasKind(o, field, Declared(task)[field])

Validate ==
    /\ pc = "validate"
    /\ pc' = "done"
    /\ status' = IF ValidCandidate(reply.task, output) THEN "completed" ELSE "review"
    /\ UNCHANGED <<reply, parsed, output, rewrites>>

Terminating == pc = "done" /\ UNCHANGED vars

Next == Parse \/ Normalize \/ CleanBio \/ Validate \/ Terminating

Spec == Init /\ [][Next]_vars

-----------------------------------------------------------------------------
(* Reading a reply *)

Objects(content) == {i \in DOMAIN content : content[i].is = "object"}
Braces(content) == {i \in DOMAIN content : Is(content, i, {"lbrace", "rbrace"})}

\* Of a reply with two objects neither is read, and an object is not taken out
\* of a larger one: what is dropped around it can only close what was never
\* opened, or open what is never closed.  (_parse_output's slice)
ReadsNoPart ==
    parsed.is = "object" =>
        LET content == reply.content
            Opens(i) == content[i].is \in {"lbrace", "object"}
            Closes(i) == content[i].is \in {"rbrace", "object"} IN
        \E i, j \in DOMAIN content :
            /\ \/ i = j /\ content[i] = parsed
               \/ j = i + 1 /\ Opens(i) /\ Closes(j) /\ parsed = EmptyObject
            /\ \A h \in 1 .. i - 1 : ~Opens(h)
            /\ \A h \in j + 1 .. Len(content) : ~Closes(h)

\* The one object of a reply is read however prose, fences, brackets or
\* scalars surround it, unless the reply was cut off or is a JSON list of it.
\* (tests/test_provider_output.py, "wrapped in prose or a fence is still read")
WrappedIsRead ==
    (/\ pc = "normalize"  \/ status \in {"provider_output_empty", "provider_output_invalid"}
     /\ reply.finish # "length"
     /\ Cardinality(Objects(reply.content)) = 1
     /\ Braces(reply.content) = {})
    => /\ parsed # Nothing
       /\ \/ \A i \in Objects(reply.content) : parsed = reply.content[i]
          \/ parsed.is = "list"

-----------------------------------------------------------------------------
(* The clean-up of a bio *)

Cleaned == rewrites = 7
Raw == parsed.text
Text == output.text

\* What the clean-up has no business with: all but commas, blanks, dashes, emoji
\* and joiners.  Whitespace it leaves alone but at both ends of the text.
Kept == Char \ ({"comma", "joiner"} \cup Blank \cup Forbidden)

KeptOf(s) == Strip(Without(s, {i \in DOMAIN s : s[i] \notin Kept}))

\* Words, and whether two of them touch: the positions of what is kept.
WordAt(s) == {i \in DOMAIN s : s[i] \in Kept \ Whitespace}
Nth(S, n) == CHOOSE i \in S : Cardinality({j \in S : j <= i}) = n

\* The clean-up keeps every word, mark and line of the text in its order, and
\* lets two words touch only where nothing but emoji stood between them.
WordsKept ==
    Cleaned =>
        /\ KeptOf(Text) = KeptOf(Raw)
        /\ \A n \in 1 .. Cardinality(WordAt(Text)) - 1 :
              LET i == Nth(WordAt(Raw), n)
                  j == Nth(WordAt(Raw), n + 1) IN
              (/\ Nth(WordAt(Text), n + 1) = Nth(WordAt(Text), n) + 1
               /\ {Raw[i], Raw[j]} \subseteq Kept \ Punctuation)
              => j = i + 1 \/ (Raw[i + 1] = "emoji" /\ AllIn(Raw, i + 1, j - 1, {"emoji", "joiner"}))

\* One pass tidies: no rewrite leaves what an earlier one removes, but for commas.
\* The fifth takes every second comma of a run only, and the strip at the end may
\* expose one where the sixth saw whitespace of another kind after it.
TidyAfterOnePass ==
    Cleaned => /\ \A n \in {1, 2, 3, 4, 7} : Rewrite(n, Text) = Text
               /\ (\A i \in DOMAIN Raw : Raw[i] # "return") => Rewrite(6, Text) = Text

DashRuns(s) == Cardinality({i \in DOMAIN s : s[i] = "dash" /\ (i = 1 \/ s[i - 1] # "dash")})

\* Markup as _MARKUP has it, of a text from which blanks have been taken: what
\* marks up the line it opens need not have whitespace after it.
ShowsMarkup(s) ==
    \E i \in DOMAIN s :
        \/ MarksAnywhere(s, i)
        \/ /\ \A w \in 1 .. i - 1 :
                 s[w] \notin Whitespace => \E h \in w + 1 .. i - 1 : s[h] = "newline"
           /\ \/ s[i] \in {"hash", "hyphen", "gt"}
              \/ \E j \in i .. Len(s) : /\ j < i + 2 /\ AllIn(s, i, j, {"digit"})
                                         /\ Before(s, j, {"dot", "rparen"})

\* A bio is sent to review after its repair only for what a repair cannot help:
\* markup that the text shows too when all that the repair may take is left out of
\* it, no words at all, or too many, counting one character more for each dash.
\* (ai_router.py:148, "the router repairs a bio rather than rejecting it")
RejectionExplained ==
    (Cleaned /\ status = "review" /\ DOMAIN parsed.fields = {"text"}) =>
        \/ ShowsMarkup(KeptOf(Raw))
        \/ WordAt(Raw) = {}
        \/ Len(Raw) + DashRuns(Raw) > MaxBioChars

\* A `verified` key is rejected for every task, always.  (validate_candidate)
VerifiedIsRejected == status = "completed" => "verified" \notin DOMAIN output.fields
=============================================================================
