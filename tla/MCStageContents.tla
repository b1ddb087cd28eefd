---------------------------- MODULE MCStageContents ----------------------------
(* An instance of StageContents for TLC, and beside it what the stages make   *)
(* of the words themselves: SEGMENT of every transcript of up to three small  *)
(* words and of some of four, and the LLM stages of one or two.               *)
EXTENDS StageContents, Translations

MCSettings ==
    [min_duration |-> 2, target_duration |-> 4, max_duration |-> 7, preferred_gap |-> 1,
     hard_gap |-> 3, target_cps |-> 10, max_cps |-> 12, max_lines |-> 2, max_line_width |-> 4,
     max_cue_width |-> 6, punctuation_bonus |-> 8, silence_bonus |-> 10,
     protected_penalty |-> 100, overflow_penalty |-> 10000]

MCTexts == {<<BLANK, LATIN, LATIN>>, <<CJK>>, <<BLANK, CJK>>, <<DIGIT>>, <<LATIN, STOP, BLANK>>}

\* Words one after the other, all at one moment, with silences, and under a
\* first one that spans the others.
MCTimes(n) ==
    {[k \in 1..n |-> <<2 * k, 2 * k + 2>>],
     [k \in 1..n |-> <<3, 3>>],
     [k \in 1..n |-> IF k < 3 THEN <<k, k>> ELSE <<k + 3, k + 4>>],
     [k \in 1..n |-> IF k = 1 THEN <<0, 9>> ELSE <<2 * k, 2 * k + 1>>]}

Timed(texts, times, segments, n) ==
    {{[id |-> k, segment |-> s[k], start |-> t[k][1], end |-> t[k][2], text |-> x[k]] : k \in 1..n} :
        t \in times, s \in segments, x \in [1..n -> texts]}

OneSegment(n) == [k \in 1..n |-> 1]
ASegmentEach(n) == [k \in 1..n |-> k]

MCTranscripts ==
    UNION {Timed(MCTexts, MCTimes(n), {OneSegment(n)}, n) : n \in 1..3}
        \union Timed({<<BLANK, LATIN, LATIN>>, <<BLANK, CJK>>, <<DIGIT>>}, MCTimes(4),
                     {OneSegment(4)}, 4)

\* One cue or two, with letters and numbers that touch or do not.
MCSpoken ==
    UNION {Timed({<<BLANK, LATIN>>, <<BLANK, DIGIT>>, <<DIGIT>>, <<BLANK, DIGIT, COMMA>>},
                 {[k \in 1..n |-> <<2 * k, 2 * k + 2>>], [k \in 1..n |-> <<9 * k, 9 * k + 6>>]},
                 {OneSegment(n), ASegmentEach(n)}, n) : n \in 1..2}

MCCorrections ==
    {<<>>, <<LATIN>>, <<DIGIT>>, <<LATIN, BLANK, DIGIT>>, <<BLANK, LATIN>>, <<CJK, BLANK, CJK>>}
MCTranslations ==
    {<<LATIN>>, <<CJK>>, <<CJK, BLANK, CJK>>, <<DIGIT, CJK>>, <<CJK, DIGIT, DIGIT>>,
     <<DIGIT, BLANK, DIGIT>>, <<DIGIT, LATIN, BLANK, CJK>>,
     <<CJK, LATIN, LATIN, LATIN, LATIN, LATIN>>}
MCTerms ==
    {[source |-> <<LATIN>>, target |-> <<CJK>>], [source |-> <<LATIN>>, target |-> <<CJK, CJK>>],
     [source |-> <<LATIN, BLANK, DIGIT>>, target |-> <<CJK, DIGIT>>]}

ASSUME PipelineAssumption == Pipeline
ASSUME TranscriptAssumption == \A t \in MCTranscripts \union MCSpoken : IsTranscript(t)

MCInit ==
    /\ InitContents
    /\ \/ profile = "deterministic" /\ transcript = {}
       \/ profile = "deterministic" /\ rec.profile = profile /\ transcript \in MCTranscripts
       \/ profile \in {"fast", "quality"} /\ rec.profile = profile /\ transcript \in MCSpoken
    /\ InitTexts

MCContents == transcript = {} /\ NextContents /\ UNCHANGED textVars
MCTextStages == transcript # {} /\ NextTexts /\ UNCHANGED allVars
MCSettled == (at = "done" \/ errors # {}) /\ UNCHANGED <<allVars, textVars>>

MCNext == MCContents \/ MCTextStages \/ MCSettled

MCSpec == MCInit /\ [][MCNext]_<<allVars, textVars>>

\* What the stages make of the words is right: the cues SEGMENT makes, and what
\* the answers of the model leave of them.
\* segment_transcript_dp, build_corrected_transcript, build_reviewed_track
CuesRight ==
    /\ cues # <<>> /\ cues = segmented => RightTrack(cues, Words)
    /\ FailureExplained
    /\ cues # <<>> => TranslationRight

=============================================================================
