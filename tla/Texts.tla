-------------------------------- MODULE Texts --------------------------------
(***************************************************************************)
(* What the policies see in a text: its words, its width, the facts that   *)
(* must survive, the terms and the script it is written in.                *)
(*                                                                         *)
(* A text is a sequence of graphemes, and a grapheme its class.  DIGIT     *)
(* stands for the digits but 0, LATIN and CJK for letters and characters   *)
(* that name no unit.  Signs, units, currencies, slashes, dates, telephone *)
(* numbers and abbreviations are left out.                                 *)
(***************************************************************************)
EXTENDS Integers, FiniteSets, Sequences

LOCAL INSTANCE SequencesExt
LOCAL INSTANCE FiniteSetsExt

BLANK == "_"
LATIN == "a"
DIGIT == "1"
CJK == "c"
COMMA == ","
STOP == "."
Graphemes == {BLANK, LATIN, DIGIT, CJK, COMMA, STOP}
Closing == {COMMA, STOP}
WordGraphemes == {LATIN, DIGIT, CJK}

Flag(condition) == IF condition THEN 1 ELSE 0
Places(text) == [i \in DOMAIN text |-> i]

Trimmed(text) == IF text # <<>> /\ Last(text) = BLANK THEN Front(text) ELSE text

\* Blanks are collapsed, and none stand at either end.
Normal(text) ==
    LET Add(seen, g) ==
            IF g = BLANK /\ (seen = <<>> \/ Last(seen) = BLANK) THEN seen ELSE Append(seen, g)
    IN  Trimmed(FoldLeft(Add, <<>>, text))

\* join_token_texts
JoinTexts(words) == Normal(FlattenSeq([n \in DOMAIN words |-> words[n].text]))

ReadingCharacters(text) == Cardinality({i \in DOMAIN text : text[i] # BLANK})

\* display_columns
Width(text) == Len(text) + Cardinality({i \in DOMAIN text : text[i] = CJK})

-----------------------------------------------------------------------------
(* Facts                                                                    *)

\* The last place of the run of such graphemes that begins at a place.
RunEnd(text, s, such) ==
    Max({e \in s..Len(text) : \A i \in s..e : text[i] \in such})

\* _normalize_numeric: separators of groups go, that of decimals is a stop,
\* and no stop is left at the end.
NumericValue(raw) ==
    LET Of(g) == {i \in DOMAIN raw : raw[i] = g}
        last == Max(Of(COMMA) \union {0})
        Empty(i) == raw[i] = COMMA /\ (i + 1 \notin DOMAIN raw \/ raw[i + 1] = COMMA)
        grouping ==
            IF Of(STOP) # {} THEN (IF Max(Of(STOP)) > last THEN COMMA ELSE STOP)
            ELSE IF Len(raw) - last = 3 /\ \A i \in DOMAIN raw : ~Empty(i) THEN COMMA ELSE BLANK
        parts == [i \in DOMAIN raw |->
                     IF raw[i] = DIGIT THEN <<DIGIT>>
                     ELSE IF raw[i] = grouping THEN <<>> ELSE <<STOP>>]
        value == FlattenSeq(parts)
    IN  SubSeq(value, 1, Max({i \in DOMAIN value : value[i] = DIGIT}))

\* _scan_numeric_fact_at: a number, and what is written to it without a blank.
FactAt(text, s) ==
    LET number == RunEnd(text, s, {DIGIT, COMMA, STOP})
        end == IF number < Len(text) /\ text[number + 1] \in WordGraphemes
               THEN RunEnd(text, number + 1, WordGraphemes) ELSE number
    IN  [start |-> s, end |-> end, value |-> NumericValue(SubSeq(text, s, number)),
         attached |-> SubSeq(text, number + 1, end)]

\* scan_quantity_facts
Facts(text) ==
    LET Scan(found, i) ==
            IF text[i] = DIGIT /\ (found = <<>> \/ Last(found).end < i)
            THEN Append(found, FactAt(text, i)) ELSE found
    IN  FoldLeft(Scan, <<>>, Places(text))

\* The identity of the protected tokens, in their order.
Identities(facts) == [n \in DOMAIN facts |-> <<facts[n].value, facts[n].attached>>]

\* protected_tokens_preserved: formatting may change, and no fact may be lost,
\* added, changed or moved.
Preserved(source, output) == Identities(Facts(source)) = Identities(Facts(output))

\* protected_break_cost: the boundary after place b lies within a fact.
BreaksFact(facts, b) == Flag(\E n \in DOMAIN facts : facts[n].start <= b /\ b < facts[n].end)
ProtectedBreak(text, b) == BreaksFact(Facts(text), b)

-----------------------------------------------------------------------------
(* Terms and scripts                                                        *)

\* _lexical_tokens: the runs of letters and digits.
Tokens(text) ==
    LET Starts(i) == text[i] \in WordGraphemes /\ (i = 1 \/ text[i - 1] \notin WordGraphemes)
        starts == SelectSeq(Places(text), Starts)
    IN  [n \in DOMAIN starts |-> SubSeq(text, starts[n], RunEnd(text, starts[n], WordGraphemes))]

\* The places where a sequence stands in another.
Occurrences(part, whole) ==
    {i \in 1..(Len(whole) - Len(part) + 1) : SubSeq(whole, i, i + Len(part) - 1) = part}

\* contains_term
ContainsTerm(text, term) ==
    Tokens(term) # <<>> /\ Occurrences(Tokens(term), Tokens(text)) # {}

\* script_heuristic, and is_obvious_wrong_language for a target language that
\* is written in one of the scripts: text with both, or none, may be anything.
WrongLanguage(text, script) ==
    LET scripts == {LATIN, CJK} \intersect {text[i] : i \in DOMAIN text}
    IN  scripts # {} /\ script \notin scripts

=============================================================================
