------------------------------- MODULE MCReply -------------------------------
(* Small instances of Reply for TLC. *)
EXTENDS Reply

SeqsUpTo(S, n) == UNION {[1 .. m -> S] : m \in 0 .. n}

\* Two explanations, one of them valid, in every setting of up to four tokens.
Explained == Object([explanation |-> "str", evidence |-> "items"], <<>>)
Unfounded == Object([explanation |-> "str"], <<>>)
MCToken == {Explained, Unfounded} \cup {Token(is) : is \in Bare}

\* For each task objects with the fields it declares, or not, of every kind.
MCFields(task) ==
    {"verified"} \cup (IF task \in BioTask THEN {"text", "notes"} ELSE DOMAIN Declared(task))

FieldsOf(task) == UNION {[F -> Kind] : F \in SUBSET MCFields(task)}

Shaped(task) ==
    {<<Object(f, IF "text" \in DOMAIN f THEN <<"letter">> ELSE <<>>)>> : f \in FieldsOf(task)}

\* Bios: short ones over every kind of character, longer ones over those that
\* one rule or the feeding of one rewrite by another is about.
Bios == SeqsUpTo(Char, 3)
        \cup SeqsUpTo({"letter", "dash", "space", "comma"}, 6)
        \cup SeqsUpTo({"letter", "dash", "space", "newline", "return"}, 5)
        \cup SeqsUpTo({"comma", "space", "dot", "newline", "return"}, 5)
        \cup SeqsUpTo({"letter", "emoji", "joiner", "space", "dash"}, 5)
        \cup SeqsUpTo({"hyphen", "newline", "space", "emoji", "dash"}, 5)
        \cup SeqsUpTo({"digit", "dot", "rparen", "space", "emoji", "newline"}, 5)
        \cup SeqsUpTo({"hash", "gt", "space", "emoji", "return"}, 5)
        \cup SeqsUpTo({"lsquare", "rsquare", "lparen", "newline", "emoji"}, 5)
        \cup SeqsUpTo({"lt", "slash", "bang", "underscore", "emoji", "letter"}, 4)
        \cup {<<"letter", "dash", "space", "dash", "space", "dash", "letter">>}

MCContents ==
    [task \in Task |->
        Shaped(task)
        \cup (IF task = "match_explanation" THEN SeqsUpTo(MCToken, 4) ELSE {})
        \cup (IF task = "bio_draft" THEN {<<Object([text |-> "str"], s)>> : s \in Bios} ELSE {})]
=============================================================================
