----------------------------- MODULE Segmentation -----------------------------
(***************************************************************************)
(* How a transcript becomes the cues of a subtitle track: the pure         *)
(* policies behind the stage SEGMENT.  Words are ordered, cut at long      *)
(* silences, and each part is divided by dynamic programming over the      *)
(* places a cue may end; the texts of the cues are broken into lines and   *)
(* their times made to follow each other.  The track is then validated as  *)
(* any track is, and an error fails the stage.                             *)
(***************************************************************************)
EXTENDS Texts

LOCAL INSTANCE SequencesExt
LOCAL INSTANCE FiniteSetsExt

CONSTANTS
    Settings,          \* SegmentationPolicyConfig, with times in some unit
    MaxCandidateWords  \* bound of the code on the words of a cue

ValidSettings(s) ==
    /\ s.min_duration \in 1..s.max_duration /\ s.target_duration \in 1..s.max_duration
    /\ s.preferred_gap \in 0..s.hard_gap
    /\ s.target_cps \in 1..s.max_cps
    /\ s.max_lines \in 1..2 /\ s.max_line_width \in 1..s.max_cue_width
    /\ {s.punctuation_bonus, s.silence_bonus, s.protected_penalty, s.overflow_penalty}
           \subseteq Nat

ASSUME SettingsAssumption == ValidSettings(Settings) /\ MaxCandidateWords \in Nat \ {0}

Larger(a, b) == IF a > b THEN a ELSE b
Over(a, limit) == Larger(0, a - limit)
Distance(a, b) == IF a > b THEN a - b ELSE b - a

\* Lexicographic order of tuples.
Before(a, b) ==
    \E i \in 1..Len(b) :
        /\ \A k \in 1..(i - 1) : k \in DOMAIN a /\ a[k] = b[k]
        /\ i \notin DOMAIN a \/ a[i] < b[i]

\* WordToken and Transcript: times may coincide and overlap, and no word need
\* last.
IsTranscript(words) ==
    /\ words # {} /\ \A v, w \in words : v.id = w.id => v = w
    /\ \A w \in words : /\ 0 <= w.start /\ w.start <= w.end
                       /\ w.text \in Seq(Graphemes) /\ Normal(w.text) # <<>>

-----------------------------------------------------------------------------
(* Lines                                                                    *)

LeftOf(text, b) == Normal(SubSeq(text, 1, b))
RightOf(text, b) == Normal(SubSeq(text, b + 1, Len(text)))

\* _candidate_indices: at a blank, and on either side of a CJK character.
LineBreaks(text) ==
    {b \in 1..(Len(text) - 1) : {text[b], text[b + 1]} \intersect {BLANK, CJK} # {}}

LineCostOf(text, b, left, right) ==
    LET over == Over(Width(left), Settings.max_line_width)
                    + Over(Width(right), Settings.max_line_width)
        orphan == ReadingCharacters(left) <= 1 \/ ReadingCharacters(right) <= 1
    IN  <<over * Settings.overflow_penalty,
          ProtectedBreak(text, b) * Settings.protected_penalty,
          Flag(right[1] \in Closing) * Settings.punctuation_bonus,
          Flag(orphan) * Settings.punctuation_bonus,
          Larger(Width(left), Width(right)),
          Distance(Width(left), Width(right)),
          b>>

LineCost(text, b) == LineCostOf(text, b, LeftOf(text, b), RightOf(text, b))

BrokenAt(text, b) == <<LeftOf(text, b), RightOf(text, b)>>

\* Text that no break is allowed in stays one line, however long.
BreakLines(text) ==
    IF Settings.max_lines = 1 \/ Width(text) <= Settings.max_line_width
            \/ LineBreaks(text) = {}
    THEN <<text>>
    ELSE BrokenAt(text, CHOOSE c \in LineBreaks(text) :
             \A d \in LineBreaks(text) \ {c} : Before(LineCost(text, c), LineCost(text, d)))

NeedsSeparator(left, right) == CJK \notin {left, right} /\ right \notin Closing

\* join_rendered_lines
JoinLines(lines) ==
    IF Len(lines) = 1 THEN lines[1]
    ELSE lines[1] \o (IF NeedsSeparator(Last(lines[1]), lines[2][1]) THEN <<BLANK>> ELSE <<>>)
             \o lines[2]

-----------------------------------------------------------------------------
(* Cues                                                                     *)

StartOf(words) == Min({words[n].start : n \in DOMAIN words})
EndOf(words) == Max({words[n].end : n \in DOMAIN words})
Duration(words) == Larger(EndOf(words) - StartOf(words), 1)

\* The words of the transcript: a set of records with an id each.
CanonicalWords(words) ==
    [n \in 1..Cardinality(words) |->
        CHOOSE w \in words :
            n = 1 + Cardinality({v \in words :
                        Before(<<v.start, v.end, v.id>>, <<w.start, w.end, w.id>>)})]

\* _hard_partitions: the gap counts from the word before, not from the latest
\* end.
HardCuts(words) ==
    {n \in 1..(Len(words) - 1) : words[n + 1].start - words[n].end >= Settings.hard_gap}

Pieces(words, cuts) ==
    LET ends == SelectSeq([n \in DOMAIN words |-> n], LAMBDA n : n \in cuts \union {Len(words)})
    IN  [k \in DOMAIN ends |-> SubSeq(words, IF k = 1 THEN 1 ELSE ends[k - 1] + 1, ends[k])]

\* _canonical_text_and_boundaries: the text of a part piece by piece, and the
\* place in it where its n-th word ends.
PiecedText(words) ==
    FlattenSeq([n \in DOMAIN words |->
        (IF n > 1 /\ BLANK \in {Last(words[n - 1].text), words[n].text[1]}
         THEN <<BLANK>> ELSE <<>>) \o Normal(words[n].text)])

Boundary(words, n) == Len(PiecedText(SubSeq(words, 1, n)))

\* Characters times this are comparable with speed times duration.
SpeedUnit == 10

\* _evaluate_candidate: a cue that ends with the e-th word.
CueCostOf(words, e, text, lines, duration) ==
    LET inside == e < Len(words)
        lineWidth[n \in 0..Len(lines)] ==
            IF n = 0 THEN 0 ELSE lineWidth[n - 1] + Over(Width(lines[n]), Settings.max_line_width)
        widthOver == Over(Width(text), Settings.max_cue_width) + lineWidth[Len(lines)]
        durationOver == Over(duration, Settings.max_duration)
        quality == CASE Last(Normal(words[e].text)) = STOP -> 2
                     [] Last(Normal(words[e].text)) = COMMA -> 1
                     [] OTHER -> 0
        silence == inside /\ words[e + 1].start - words[e].end >= Settings.preferred_gap
    IN  <<(widthOver + durationOver) * Settings.overflow_penalty,
          Flag(/\ inside /\ words[e].start = words[e + 1].start
               /\ words[e].end = words[e + 1].end /\ Width(text) <= Settings.max_cue_width),
          IF inside
          THEN ProtectedBreak(PiecedText(words), Boundary(words, e)) * Settings.protected_penalty
          ELSE 0,
          Over(ReadingCharacters(text) * SpeedUnit, Settings.max_cps * duration),
          durationOver,
          widthOver,
          IF inside
          THEN -(quality * Settings.punctuation_bonus) - Flag(silence) * Settings.silence_bonus
          ELSE 0,
          Distance(duration, Settings.target_duration),
          Over(Settings.min_duration, duration),
          IF Len(lines) = 2 THEN Distance(Width(lines[1]), Width(lines[2])) ELSE 0,
          1>>

\* The words after s up to e as a cue: its text, then its lines.
CueCostIn(words, e, cue, text) == CueCostOf(words, e, text, BreakLines(text), Duration(cue))
CueCostFor(words, e, cue) == CueCostIn(words, e, cue, JoinTexts(cue))
CueCost(words, s, e) == CueCostFor(words, e, SubSeq(words, s + 1, e))

NoCost == <<0, 0, 0, 0, 0, 0, 0, 0, 0, 0, 0>>
Plus(c, d) == [i \in DOMAIN c |-> c[i] + d[i]]

\* _candidate_window_is_exceeded: no longer cue is looked at.
Exceeded(words, s, e) ==
    /\ e > s + 1
    /\ LET cue == SubSeq(words, s + 1, e) IN
       \/ Duration(cue) > Settings.max_duration
       \/ Width(JoinTexts(cue)) > Settings.max_cue_width

Windowed(words, s, e) ==
    e <= s + MaxCandidateWords /\ \A d \in (s + 1)..(e - 1) : ~Exceeded(words, s, d)

\* Of equal paths, the one whose first cues are shorter.
Better(p, q) == Before(p.cost, q.cost) \/ (p.cost = q.cost /\ Before(p.ends, q.ends))

BestOf(paths) == CHOOSE p \in paths : \A q \in paths \ {p} : Better(p, q)

\* _solve_partition: the best division of the first e words, from those of
\* fewer.
Solve(words) ==
    LET best[e \in 0..Len(words)] ==
            IF e = 0 THEN [cost |-> NoCost, ends |-> <<>>]
            ELSE BestOf({[cost |-> Plus(best[s].cost, CueCost(words, s, e)),
                          ends |-> Append(best[s].ends, e)] :
                             s \in {r \in 0..(e - 1) : Windowed(words, r, e)}})
    IN  Pieces(words, ToSet(best[Len(words)].ends))

\* A cue waits for the one before and lasts a moment at least.
CueTimes(spans) ==
    LET end[n \in 0..Len(spans)] ==
            IF n = 0 THEN 0
            ELSE Larger(EndOf(spans[n]), Larger(StartOf(spans[n]), end[n - 1]) + 1)
    IN  [n \in DOMAIN spans |->
            [start |-> Larger(StartOf(spans[n]), end[n - 1]), end |-> end[n]]]

Parts(words) == Pieces(words, HardCuts(words))
Spans(parts) == FlattenSeq([n \in DOMAIN parts |-> Solve(parts[n])])

Cues(spans, times) ==
    [n \in DOMAIN spans |->
        [start |-> times[n].start, end |-> times[n].end,
         words |-> [k \in DOMAIN spans[n] |-> spans[n][k].id],
         text  |-> JoinTexts(spans[n]), translated |-> <<>>,
         lines |-> BreakLines(JoinTexts(spans[n]))]]
CuesOf(spans) == Cues(spans, CueTimes(spans))

\* segment_transcript_dp
Track(transcript) == CuesOf(Spans(Parts(CanonicalWords(transcript))))

-----------------------------------------------------------------------------
(* Validation                                                               *)

\* The text of a cue that its lines show.
Shown(cue) == IF cue.translated = <<>> THEN cue.text ELSE cue.translated

\* _validate, of the cues themselves.
CueIsWrong(code, track, n) ==
    LET cue == track[n]
    IN  CASE code = "cue_time_invalid" -> cue.start < 0 \/ cue.end <= cue.start
          [] code = "cue_overlap" -> \E m \in 1..(n - 1) : cue.start < track[m].end
          [] code = "line_count_exceeded" -> Len(cue.lines) > Settings.max_lines
          [] code = "text_not_canonical" -> Normal(Shown(cue)) # Shown(cue)
          [] code = "text_mismatch" -> JoinLines(cue.lines) # Shown(cue)
          [] code = "lines_not_derived" ->
                cue.translated # <<>> /\ cue.lines # BreakLines(cue.translated)

CueErrors(track) ==
    {code \in {"cue_time_invalid", "cue_overlap", "line_count_exceeded", "text_not_canonical",
               "text_mismatch", "lines_not_derived"} :
        \E n \in DOMAIN track : CueIsWrong(code, track, n)}
    \union {code \in {"cue_empty"} : track = <<>>}

Joined(ids, words) ==
    JoinTexts([k \in DOMAIN ids |-> CHOOSE w \in words : w.id = ids[k]])

\* _validate, of the words the cues name.  The texts of a translated cue are
\* compared when the words were corrected.
WordErrors(track, words, texts) ==
    LET order == CanonicalWords(words)
        ids == [n \in DOMAIN order |-> order[n].id]
        Place(id) == CHOOSE n \in DOMAIN ids : ids[n] = id
        assigned == FlattenSeq([n \in DOMAIN track |-> track[n].words])
    IN  {code \in {"text_mismatch", "word_span_noncontiguous", "word_order_invalid"} :
            CASE code = "text_mismatch" ->
                    texts /\ \E n \in DOMAIN track : Joined(track[n].words, words) # track[n].text
              [] code = "word_span_noncontiguous" ->
                    \E n \in DOMAIN track : \E k \in 2..Len(track[n].words) :
                        Place(track[n].words[k]) # Place(track[n].words[k - 1]) + 1
              [] code = "word_order_invalid" -> assigned # ids}

SourceErrors(track, words) == CueErrors(track) \union WordErrors(track, words, TRUE)

-----------------------------------------------------------------------------
(* What a track promises                                                    *)

\* The sets of ends that divide the words into cues which the windows let the
\* search look at.
Divisions(words) ==
    LET n == Len(words)
        Follows(ends, s, e) == s < e /\ ends \intersect ((s + 1)..(e - 1)) = {}
    IN  {ends \in {S \union {n} : S \in SUBSET (1..(n - 1))} :
            \A e \in ends, s \in ends \union {0} : Follows(ends, s, e) => Windowed(words, s, e)}

PathOf(words, ends) ==
    LET at == <<0>> \o SelectSeq([n \in DOMAIN words |-> n], LAMBDA n : n \in ends)
    IN  [cost |-> FoldLeft(LAMBDA sum, k : Plus(sum, CueCost(words, at[k], at[k + 1])),
                           NoCost, [k \in 1..(Len(at) - 1) |-> k]),
         ends |-> Tail(at)]

\* The division found costs less than any other, or as much and its first
\* cue that differs is shorter.
Optimal(words) ==
    \E ends \in Divisions(words) :
        /\ Solve(words) = Pieces(words, ends)
        /\ LET path == PathOf(words, ends)
           IN  \A other \in Divisions(words) \ {ends} : Better(path, PathOf(words, other))

\* The lines of a cue were broken at a blank that joining them does not give
\* back: one beside a CJK character or before closing punctuation.
LosesBlank(cue) ==
    /\ Len(cue.lines) = 2
    /\ Len(cue.lines[1]) + Len(cue.lines[2]) < Len(Shown(cue))
    /\ CJK \in {Last(cue.lines[1]), cue.lines[2][1]} \/ cue.lines[2][1] \in Closing

\* A track of a transcript is the best its policy knows, whatever words
\* overlap, coincide or last no time, and it is valid: every word in one cue,
\* in order, no two cues at once, nothing lost.  Except that a cue may lose a
\* blank; the stage then fails.
RightTrack(track, words) ==
    LET parts == Parts(CanonicalWords(words))
    IN  /\ \A n \in DOMAIN parts : Optimal(parts[n]) /\ PiecedText(parts[n]) = JoinTexts(parts[n])
        /\ WordErrors(track, words, TRUE) = {}
        /\ CueErrors(track) \subseteq {"text_mismatch"}
        /\ CueErrors(track) # {} => \E n \in DOMAIN track : LosesBlank(track[n])

=============================================================================
