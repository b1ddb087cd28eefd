----------------------------- MODULE Translations -----------------------------
(***************************************************************************)
(* What the stages of a job make of the words it transcribed: the          *)
(* profile deterministic segments them, fast translates the cues, and      *)
(* quality corrects the words and collects their terms first, and has      *)
(* suspicious translations reviewed last.  The answers of the model are    *)
(* any texts; an answer is taken or refused, whatever was taken is kept in *)
(* the cache, and then the stage validates the track it built of it.       *)
(***************************************************************************)
EXTENDS Segmentation

LOCAL INSTANCE SequencesExt
LOCAL INSTANCE FiniteSetsExt

CONSTANTS
    Script,            \* the script of the target language
    CorrectionTexts,   \* what the model may answer for a word
    TranslationTexts,  \* what it may answer for a cue
    TermPairs          \* terms it may find, with their translations

ASSUME AnswersAssumption ==
    /\ Script \in {LATIN, CJK}
    /\ CorrectionTexts \union TranslationTexts \subseteq Seq(Graphemes)
    /\ \A p \in TermPairs : {p.source, p.target} \subseteq Seq(Graphemes)

VARIABLES
    profile,     \* of the job
    at,          \* the stage to run, "done" at the end
    transcript,  \* transcript.json: the words, each in a segment
    terms,       \* terminology.json
    corrected,   \* corrected-transcript.json: a text for each word
    segmented,   \* subtitle-track.json
    cues,        \* the latest track
    errors       \* of the stage that failed

textVars == <<profile, at, transcript, terms, corrected, segmented, cues, errors>>

TypeTexts ==
    /\ profile \in {"deterministic", "fast", "quality"}
    /\ at \in {"correct_source", "segment", "translate", "review", "export", "done"}
    /\ IsTranscript(transcript)

InitTexts ==
    /\ terms = {} /\ corrected = <<>> /\ segmented = <<>> /\ cues = <<>> /\ errors = {}
    /\ at = IF profile = "quality" THEN "correct_source" ELSE "segment"

\* The words with the texts the stages after the correction see.
Words ==
    IF corrected = <<>> THEN transcript
    ELSE {[w EXCEPT !.text = corrected[w.id]] : w \in transcript}

\* A stage whose answers were refused, also after their repair.
Refused ==
    /\ errors' = {"llm"}
    /\ UNCHANGED <<profile, at, transcript, terms, corrected, segmented, cues>>

\* A stage that built a track: it is committed if nothing is wrong with it.
Built(track, wrong, next) ==
    /\ cues' = track /\ errors' = wrong /\ at' = IF wrong = {} THEN next ELSE at
    /\ UNCHANGED <<profile, transcript, terms, corrected>>

-----------------------------------------------------------------------------
(* Answers                                                                  *)

Canonical(text) == text # <<>> /\ Normal(text) = text

\* An answer to all items: in their order, in another, or with one twice.
Orders(n) == {[k \in 1..n |-> k], [k \in 1..n |-> n + 1 - k], [k \in 1..n |-> 1]}
Answers(items, texts) ==
    {[k \in DOMAIN items |-> [id |-> items[order[k]].id, texts |-> choice[k]]] :
        order \in Orders(Len(items)), choice \in [DOMAIN items -> texts]}

AnswerTo(id, answers) == CHOOSE a \in Range(answers) : a.id = id

\* Mutant: facts are counted, not compared.
KeepsFacts_ByCount(source, output) == Len(Facts(source)) = Len(Facts(output))

\* _validate_protected_fields: each text is compared with the source for itself.
KeepsFacts(source, output) == Preserved(source, output)

\* _validate_text, is_obvious_wrong_language: the last of the texts of an
\* answer is the translation, if one is asked for.
TextAccepted(item, texts, k, translation) ==
    /\ Canonical(texts[k]) /\ KeepsFacts(item.text, texts[k])
    /\ translation /\ k = Len(texts) => ~WrongLanguage(texts[k], Script)

\* validate_responses: an answer of its own to every item.
Accepted(items, answers, translation) ==
    /\ {answers[k].id : k \in DOMAIN answers} = {items[k].id : k \in DOMAIN items}
    /\ \A item \in Range(items) : \A k \in DOMAIN AnswerTo(item.id, answers).texts :
          TextAccepted(item, AnswerTo(item.id, answers).texts, k, translation)

-----------------------------------------------------------------------------
(* Correction and terms                                                     *)

WordItems ==
    LET order == CanonicalWords(transcript)
    IN  [n \in DOMAIN order |-> [id |-> order[n].id, text |-> Normal(order[n].text)]]

\* build_terminology_units: the words of each segment.
Units == {{w \in transcript : w.segment = v.segment} : v \in transcript}

\* _match_term_to_word_ids: the words whose tokens, one after the other, hold
\* those of the term.
MatchedWords(term, unit) ==
    LET words == SetToSortSeq(unit, LAMBDA v, w : v.id < w.id)
        Spread(w) == [k \in DOMAIN Tokens(w.text) |-> [token |-> Tokens(w.text)[k], id |-> w.id]]
        spread == FlattenSeq([n \in DOMAIN words |-> Spread(words[n])])
        part == Tokens(term)
    IN  IF part = <<>> THEN {}
        ELSE UNION {{spread[k].id : k \in i..(i + Len(part) - 1)} :
                       i \in Occurrences(part, [k \in DOMAIN spread |-> spread[k].token])}

\* validate_terminology_chunk and validate_terminology_aggregate, of a set of
\* terms for each unit.
TermsAccepted(found) ==
    /\ \A unit \in Units : \A p \in found[unit] :
          /\ Canonical(p.source) /\ Canonical(p.target)
          /\ MatchedWords(p.source, unit) # {} /\ Preserved(p.source, p.target)
    /\ \A p, q \in UNION {found[unit] : unit \in Units} : p.source = q.source => p = q

\* merge_terminology: an entry for a term, with its words in all units.
Merged(found) ==
    {[source |-> p.source, target |-> p.target,
      words |-> UNION {MatchedWords(p.source, unit) : unit \in {u \in Units : p \in found[u]}}] :
        p \in UNION {found[unit] : unit \in Units}}

TermAnswers == [Units -> {{}} \union {{p} : p \in TermPairs}]

CorrectWords ==
    /\ at = "correct_source" /\ errors = {}
    /\ \E found \in TermAnswers, answers \in Answers(WordItems, {<<t>> : t \in CorrectionTexts}) :
          IF TermsAccepted(found) /\ Accepted(WordItems, answers, FALSE)
          THEN /\ terms' = Merged(found)
               /\ corrected' = [id \in {w.id : w \in transcript} |-> AnswerTo(id, answers).texts[1]]
               /\ at' = "segment" /\ UNCHANGED <<profile, transcript, segmented, cues, errors>>
          ELSE Refused

SegmentWords ==
    /\ at = "segment" /\ errors = {}
    /\ \E track \in {Track(Words)} :
          /\ Built(track, SourceErrors(track, Words),
                   IF profile = "deterministic" THEN "export" ELSE "translate")
          /\ segmented' = track

-----------------------------------------------------------------------------
(* Translation                                                              *)

\* What was said in a cue.
Spoken(cue) == Joined(cue.words, transcript)

\* _validate, of what a translation shows.
DisplayErrors(track) ==
    {code \in {"language_mismatch", "protected_token_lost"} :
        \E n \in DOMAIN track :
            IF code = "language_mismatch" THEN WrongLanguage(track[n].translated, Script)
            ELSE ~Preserved(Spoken(track[n]), track[n].translated)
                    \/ ~Preserved(Spoken(track[n]), track[n].text)}

\* validate_translated_mapping; validate_translated_track looks at what is
\* shown as well.
MappingErrors(track) == CueErrors(track) \union WordErrors(track, Words, corrected # <<>>)
TranslatedErrors(track) == MappingErrors(track) \union DisplayErrors(track)

CueItems(numbers) ==
    LET order == SetToSortSeq(numbers, LAMBDA m, n : m < n)
    IN  [k \in DOMAIN order |-> [id |-> order[k], text |-> cues[order[k]].text]]

WithTranslation(cue, text) == [cue EXCEPT !.translated = text, !.lines = BreakLines(text)]

\* TranslateStage: the model corrects the source of a cue as well.
Translated(cue, texts) == WithTranslation([cue EXCEPT !.text = texts[1]], texts[2])

TranslateCues ==
    /\ at = "translate" /\ profile = "fast" /\ errors = {}
    /\ \E answers \in Answers(CueItems(DOMAIN cues), CorrectionTexts \X TranslationTexts) :
          IF Accepted(CueItems(DOMAIN cues), answers, TRUE)
          THEN \E track \in {[n \in DOMAIN cues |->
                                 Translated(cues[n], AnswerTo(n, answers).texts)]} :
                  Built(track, TranslatedErrors(track), "export") /\ UNCHANGED segmented
          ELSE Refused

\* QualityTranslateStage
TranslateCorrected ==
    /\ at = "translate" /\ profile = "quality" /\ errors = {}
    /\ \E answers \in Answers(CueItems(DOMAIN cues), {<<t>> : t \in TranslationTexts}) :
          IF Accepted(CueItems(DOMAIN cues), answers, TRUE)
          THEN \E track \in {[n \in DOMAIN cues |->
                                 WithTranslation(cues[n], AnswerTo(n, answers).texts[1])]} :
                  Built(track, MappingErrors(track), "review") /\ UNCHANGED segmented
          ELSE Refused

-----------------------------------------------------------------------------
(* Review                                                                       *)

TooFast(cue) ==
    ReadingCharacters(cue.translated) * SpeedUnit > Settings.target_cps * (cue.end - cue.start)

\* detect_anomalies: why a cue needs a review.
Anomalies(cue) ==
    {reason \in {"wrong_language", "protected_token_loss", "terminology_inconsistent",
                 "abnormal_reading_speed", "abnormal_line_width"} :
        CASE reason = "wrong_language" -> WrongLanguage(cue.translated, Script)
          [] reason = "protected_token_loss" -> ~Preserved(Spoken(cue), cue.translated)
          [] reason = "terminology_inconsistent" ->
                \E e \in terms : /\ ContainsTerm(cue.text, e.source) /\ Tokens(e.target) # <<>>
                                 /\ ~ContainsTerm(cue.translated, e.target)
          [] reason = "abnormal_reading_speed" -> TooFast(cue)
          [] reason = "abnormal_line_width" ->
                \E k \in DOMAIN cue.lines : Width(cue.lines[k]) > Settings.max_line_width}

Remaining(track) == UNION {Anomalies(track[n]) : n \in DOMAIN track}
Abnormal == {n \in DOMAIN cues : Anomalies(cues[n]) # {}}

\* build_reviewed_track: an answer to each cue that needs one, and no anomaly
\* may be left.
Reviewed(answers) ==
    [n \in DOMAIN cues |->
        IF n \in Abnormal THEN WithTranslation(cues[n], AnswerTo(n, answers).texts[1]) ELSE cues[n]]

ReviewErrors(track) ==
    IF TranslatedErrors(track) # {} THEN TranslatedErrors(track) ELSE Remaining(track)

ReviewCues ==
    /\ at = "review" /\ errors = {}
    /\ \E answers \in Answers(CueItems(Abnormal), {<<t>> : t \in TranslationTexts}) :
          IF Accepted(CueItems(Abnormal), answers, TRUE)
          THEN \E track \in {Reviewed(answers)} :
                  Built(track, ReviewErrors(track), "export") /\ UNCHANGED segmented
          ELSE Refused

\* ExportStage validates the last track once more.
ExportTrack ==
    /\ at = "export" /\ errors = {}
    /\ Built(cues, IF profile = "deterministic" THEN SourceErrors(cues, Words)
                   ELSE TranslatedErrors(cues), "done")
    /\ UNCHANGED segmented

NextTexts ==
    CorrectWords \/ SegmentWords \/ TranslateCues \/ TranslateCorrected \/ ReviewCues \/ ExportTrack

-----------------------------------------------------------------------------
(* What the texts promise                                                   *)

\* The blanks that a corrected word has lost at its ends let facts of
\* neighbouring words grow together.
Fused(cue) == profile = "quality" /\ ~Preserved(Spoken(cue), cue.text)

\* Answers that were taken fail their stage only for what the validation of
\* answers does not look at: lines that lose a blank, facts that grew together
\* in the correction, and what only the review judges.
FailureExplained ==
    /\ errors \subseteq {"llm", "text_mismatch", "protected_token_lost", "terminology_inconsistent",
                         "abnormal_reading_speed", "abnormal_line_width"}
    /\ "text_mismatch" \in errors => \E n \in DOMAIN cues : LosesBlank(cues[n])
    /\ "protected_token_lost" \in errors => \E n \in DOMAIN cues : Fused(cues[n])
    /\ at = "export" => errors = {}

\* A translation is that of the cues of the source: their times and words, its
\* script, their facts; and no term has two translations.
TranslationRight ==
    /\ Len(cues) = Len(segmented)
    /\ \A n \in DOMAIN cues :
          /\ cues[n].start = segmented[n].start /\ cues[n].end = segmented[n].end
          /\ cues[n].words = segmented[n].words
          /\ at = "done" /\ profile # "deterministic" =>
                /\ ~WrongLanguage(cues[n].translated, Script)
                /\ Preserved(Spoken(cues[n]), cues[n].translated)
                /\ Preserved(Spoken(cues[n]), cues[n].text)
    /\ \A d, e \in terms : d.source = e.source => d = e

=============================================================================
