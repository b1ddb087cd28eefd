------------------------------ MODULE ConfigFiles ------------------------------
(***************************************************************************)
(* The two configuration files, settings.toml and llm.toml, as             *)
(* TomlConfigurationStore saves them step by step and as their readers     *)
(* understand them: the Settings page, the start of the program, and the   *)
(* pipeline that needs a provider.  Nothing keeps two programs from saving *)
(* at once: a save works on a temporary file of a fixed name.              *)
(*                                                                         *)
(* A text is what a parser and the validation see of it.  Of the settings  *)
(* that is the language, the names of the user's presets and the first     *)
(* fault: at the root (the syntax included), in the language (another      *)
(* text, or an array), or deeper; of a provider, who wrote it, its key and *)
(* its form: full, without a kind, with blanks around the tokenizer's      *)
(* name, refused by both readers, or no table at all.                      *)
(***************************************************************************)
EXTENDS PageLine

CONSTANTS
    Programs,       \* running programs that save
    Profiles,       \* names of provider profiles
    MaxSaveFaults   \* bound: saves that fail, or in which the program dies

ASSUME ConfigAssumption == "default" \in Profiles /\ MaxSaveFaults \in Nat

VARIABLES
    files,      \* the file and its temporary: a text, or None
    saves,      \* the save each program is working on
    kept,       \* history: presets and keys in a readable file or since acknowledged,
                \* and the profiles whose save was acknowledged
    spoiled     \* history: something befell a file that SavedKept excepts

configVars == <<files, saves, kept, spoiled>>

Files == {"settings", "llm"}
SettingsText(fault, locale, presets) == [fault |-> fault, locale |-> locale, presets |-> presets]
ProvidersText(fault, providers) == [fault |-> fault, providers |-> providers]
Provider(made, form, key) == [made |-> made, form |-> form, key |-> key]

\* A provider written by hand may be anything, the Settings page writes full ones.
NoTable == Provider("hand", "no table", "none")
HandMade == [made : {"hand"}, form : {"full", "no kind", "blanks", "refused"},
             key : {"none", "text", "number"}] \union {NoTable}
Providers == HandMade \union [made : {"page"}, form : {"full"}, key : {"none", "text"}]

SettingsFaults == {"root", "locale", "array", "deep"}
SettingsTexts == [fault : {"ok"} \union SettingsFaults, locale : {"en", "zh"}, presets : SUBSET Presets]
ProviderTexts == [fault : {"ok", "root"}, providers : [Profiles -> Providers \union {None}]]

ASSUME TextAssumption == None \notin SettingsTexts \union ProviderTexts \union Providers

NoProviders == [p \in Profiles |-> None]
Empty == [settings |-> SettingsText("root", "en", {}), llm |-> ProvidersText("ok", NoProviders)]
Torn == [settings |-> SettingsText("root", "en", {}), llm |-> ProvidersText("root", NoProviders)]

NoFiles == [f \in Files |-> [real |-> None, temp |-> None]]

Readable(text) == text # None /\ text.fault = "ok"

\* A missing file and an invalid one give defaults.
LoadSettings(text) == IF Readable(text) THEN text ELSE SettingsText("ok", "en", {})

\* _read_raw_providers reads every profile, or none when one is no table.
Tables(text) == Readable(text) /\ \A p \in Profiles : text.providers[p] # NoTable
LoadProviders(text) == IF Tables(text) THEN text.providers ELSE NoProviders

-----------------------------------------------------------------------------
(* The readers                                                              *)

\* load_startup_locale looks no deeper than the language.  With an array for a
\* language the program does not start.
StartupLocale(text) ==
    CASE text # None /\ text.fault \in {"ok", "deep"} -> text.locale
      [] text # None /\ text.fault = "array" -> "none"
      [] OTHER -> "en"

\* What the Settings page says of the default profile (envKey: the environment
\* has a key); it assumes the kind when it is left out, overlooks a key that is
\* no text, and does not strip the tokenizer's name.
CredentialShown(text, envKey) ==
    LET provider == LoadProviders(text)["default"]
        usable == provider # None /\ provider.form \in {"full", "no kind"}
    IN CASE usable /\ provider.key = "text" -> "config"
         [] usable /\ provider.key # "text" -> IF envKey THEN "environment" ELSE "missing"
         [] text # None /\ (~Tables(text) \/ (provider # None /\ ~usable)) -> "issue"
         [] OTHER -> "missing"

\* load_provider_config, which every run of a pipeline with a provider starts
\* with: it looks at no other profile.
Accepted(text, profile, envKey) ==
    /\ Readable(text) /\ text.providers[profile] # None
    /\ LET provider == text.providers[profile]
       IN /\ provider.form \in {"full", "blanks"}
          /\ provider.key = "text" \/ (provider.key = "none" /\ envKey)

-----------------------------------------------------------------------------
(* A save                                                                   *)

Idle == [step |-> "idle"]
Busy(p) == saves[p].step # "idle"
SavedBy(p, f) == Busy(p) /\ saves[p].file = f

FullProvider == Provider("hand", "full", "text")
AnyText == [
    settings |-> {SettingsText("ok", l, ps) : l \in {"en", "zh"}, ps \in SUBSET Presets}
                 \union {SettingsText(fault, "zh", Presets) : fault \in SettingsFaults},
    llm |-> {ProvidersText("ok", [NoProviders EXCEPT !["default"] = own]) :
               own \in {h \in HandMade : h.form = "full" \/ h.key = "text"} \union {NoTable}}
            \union {ProvidersText("ok", [p \in Profiles |-> IF p = "default" THEN FullProvider ELSE sibling]) :
                       sibling \in {FullProvider, NoTable, Provider("hand", "refused", "text")}}
            \union {Torn["llm"]}]

\* The user works on one of the two files, whatever it holds; the other is missing.
ConfigInit ==
    /\ \/ page \in Files /\ \E text \in AnyText[page] \union {None} : files = [NoFiles EXCEPT ![page].real = text]
       \/ page \notin Files /\ files = NoFiles
    /\ saves = [p \in Programs |-> Idle]
    /\ kept = [presets |-> LoadSettings(files["settings"].real).presets,
               keys |-> {p \in Profiles : LET v == LoadProviders(files["llm"].real)[p]
                                          IN v # None /\ v.key = "text"},
               saved |-> {}]
    /\ spoiled = [f \in Files |-> FALSE]

\* A text may be made (odd) that cannot be read again: escape_toml_string leaves
\* most control characters alone, and names of presets that differ in blanks at
\* their ends are read as one name.
Escaped(text, odd) == IF odd THEN [text EXCEPT !.fault = "root"] ELSE text

May(p, f) == Act(f) /\ ~Busy(p)

\* The base is read, and the new text made of it.
Begin(p, f, text, odd, presets, keys, profiles) ==
    /\ saves' = [saves EXCEPT ![p] =
           [step |-> "open", file |-> f, fd |-> "closed", text |-> Escaped(text, odd),
            presets |-> presets, keys |-> keys, saved |-> profiles]]
    /\ spoiled' = [spoiled EXCEPT ![f] = @ \/ odd \/ \E q \in Programs : SavedBy(q, f)]
    /\ UNCHANGED <<requests, files>>

SettingsBase == LoadSettings(files["settings"].real)

SaveLocale(p) ==
    /\ May(p, "settings")
    /\ \E l \in {"en", "zh"}, odd \in BOOLEAN :
          Begin(p, "settings", [SettingsBase EXCEPT !.locale = l], odd, {}, {}, {})
    /\ UNCHANGED kept

SaveUserPreset(p) ==
    /\ May(p, "settings")
    /\ \E x \in Presets, odd \in BOOLEAN :
          Begin(p, "settings", [SettingsBase EXCEPT !.presets = @ \union {x}], odd, {x}, {}, {})
    /\ UNCHANGED kept

DeleteUserPreset(p) ==
    /\ May(p, "settings")
    /\ \E x \in SettingsBase.presets, odd \in BOOLEAN :
          /\ Begin(p, "settings", [SettingsBase EXCEPT !.presets = @ \ {x}], odd, {}, {}, {})
          /\ kept' = [kept EXCEPT !.presets = @ \ {x}]

\* A field left blank keeps the key there was, if it was a text.
KeySaved(old, typed) == IF typed \/ (old # None /\ old.key = "text") THEN "text" ELSE "none"

\* serialize_llm_providers writes the fields it knows and a text for a value it
\* cannot write: a refused profile may come out as any other, and a key as a text.
Rewritten(provider) ==
    IF provider \in {None, NoTable} THEN {provider}
    ELSE {q \in Providers :
            /\ q.made = provider.made
            /\ q.form = provider.form \/ (provider.form = "refused" /\ q.form # "no table")
            /\ q.key = provider.key \/ (provider.key = "number" /\ q.key = "text")}
Rewritings(providers) ==
    {others \in [Profiles -> UNION {Rewritten(providers[p]) : p \in Profiles}] :
         \A p \in Profiles : others[p] \in Rewritten(providers[p])}

\* An invalid file is refused.
SaveOneProvider_NoKind(p) ==
    LET real == files["llm"].real
    IN /\ May(p, "llm") /\ (real = None \/ Tables(real))
       /\ \E profile \in Profiles, others \in Rewritings(LoadProviders(real)), typed, odd \in BOOLEAN :
             LET key == KeySaved(LoadProviders(real)[profile], typed)
             IN Begin(p, "llm",
                      ProvidersText("ok", [others EXCEPT ![profile] = Provider("page", "no kind", key)]),
                      odd, {}, IF typed THEN {profile} ELSE {}, {profile})
       /\ UNCHANGED kept

SaveOneProvider(p) ==
    LET real == files["llm"].real
    IN /\ May(p, "llm") /\ (real = None \/ Tables(real))
       /\ \E profile \in Profiles, others \in Rewritings(LoadProviders(real)), typed, odd \in BOOLEAN :
             LET key == KeySaved(LoadProviders(real)[profile], typed)
             IN Begin(p, "llm",
                      ProvidersText("ok", [others EXCEPT ![profile] = Provider("page", "full", key)]),
                      odd, {}, IF typed THEN {profile} ELSE {}, {profile})
       /\ UNCHANGED kept

\* _write_atomic.  The temporary is found by its name, whoever made it, and a
\* file that is open follows when the other program renames or removes it.
Stepping(p, f, step) ==
    /\ SavedBy(p, f) /\ saves[p].step = step
    /\ UNCHANGED <<page, requests, signals, userActs, spoiled>>

Failing == faults < MaxSaveFaults /\ faults' = faults + 1

OpenTemp_InPlace(p, f) ==
    /\ Stepping(p, f, "open")
    /\ files' = [files EXCEPT ![f].real = Empty[f], ![f].temp = Empty[f]]
    /\ saves' = [saves EXCEPT ![p].step = "write", ![p].fd = "temp"]
    /\ UNCHANGED <<faults, kept>>

OpenTemp(p, f) ==
    /\ Stepping(p, f, "open")
    /\ files' = [files EXCEPT ![f].temp = Empty[f]]
    /\ saves' = [saves EXCEPT ![p].step = "write", ![p].fd = "temp"]
    /\ UNCHANGED <<faults, kept>>

\* Another program's text may be in the open file already, and be longer.
WriteTemp(p, f) ==
    LET fd == saves[p].fd
        mixed == fd # "gone" /\ files[f][fd] # Empty[f]
        WritesText(text) == files' = IF fd = "gone" THEN files ELSE [files EXCEPT ![f][fd] = text]
    IN /\ Stepping(p, f, "write")
       /\ \/ /\ \E text \in {saves[p].text} \union (IF mixed THEN {Torn[f]} ELSE {}) : WritesText(text)
             /\ saves' = [saves EXCEPT ![p].step = "replace", ![p].fd = "closed"]
             /\ UNCHANGED faults
          \/ /\ Failing
             /\ \E text \in {Empty[f], Torn[f]} : WritesText(text)
             /\ saves' = [saves EXCEPT ![p].step = "unlink", ![p].fd = "failed"]
       /\ UNCHANGED kept

Follow(f, moved) ==
    [q \in Programs |-> IF SavedBy(q, f) /\ saves[q].fd \in DOMAIN moved
                        THEN [saves[q] EXCEPT !.fd = moved[@]] ELSE saves[q]]

\* The mode is set after the renaming, and may fail.
ReplaceReal(p, f) ==
    /\ Stepping(p, f, "replace")
    /\ \/ /\ files[f].temp # None
          /\ files' = [files EXCEPT ![f] = [real |-> files[f].temp, temp |-> None]]
          /\ LET others == Follow(f, [temp |-> "real", real |-> "gone"])
             IN \/ UNCHANGED faults /\ saves' = [others EXCEPT ![p].step = "unlink"]
                \/ Failing /\ saves' = [others EXCEPT ![p].step = "unlink", ![p].fd = "failed"]
       \/ /\ (files[f].temp = None /\ UNCHANGED faults) \/ Failing
          /\ saves' = [saves EXCEPT ![p].step = "unlink", ![p].fd = "failed"]
          /\ UNCHANGED files
    /\ UNCHANGED kept

\* Whatever has happened the temporary is removed; then the save is acknowledged.
UnlinkTemp(p, f) ==
    /\ Stepping(p, f, "unlink")
    /\ files' = [files EXCEPT ![f].temp = None]
    /\ saves' = [Follow(f, [temp |-> "gone"]) EXCEPT ![p] = Idle]
    /\ kept' = IF saves[p].fd = "failed" THEN kept
               ELSE [presets |-> kept.presets \union saves[p].presets,
                     keys |-> kept.keys \union saves[p].keys,
                     saved |-> kept.saved \union saves[p].saved]
    /\ UNCHANGED faults

SaveStep(p) ==
    \E f \in Files : OpenTemp(p, f) \/ WriteTemp(p, f) \/ ReplaceReal(p, f) \/ UnlinkTemp(p, f)

\* The program dies, at any step, and is started again.
ProgramDies(p) ==
    /\ Busy(p) /\ Failing
    /\ saves' = [saves EXCEPT ![p] = Idle]
    /\ UNCHANGED <<page, requests, signals, userActs, files, kept, spoiled>>

\* The user edits a file and makes a mistake.
EditByHand(f) ==
    /\ Act(f) /\ files[f].real # None
    /\ \E fault \in IF f = "llm" THEN {"root"} ELSE SettingsFaults :
          files' = [files EXCEPT ![f].real.fault = fault]
    /\ spoiled' = [spoiled EXCEPT ![f] = TRUE]
    /\ UNCHANGED <<requests, saves, kept>>

-----------------------------------------------------------------------------
ConfigUser ==
    \/ \E p \in Programs : SaveLocale(p) \/ SaveUserPreset(p) \/ DeleteUserPreset(p) \/ SaveOneProvider(p)
    \/ \E f \in Files : EditByHand(f)
ConfigPrograms == \E p \in Programs : SaveStep(p)
ConfigElsewhere == \E p \in Programs : ProgramDies(p)

SavesOver == \A p \in Programs : ~Busy(p)
=============================================================================
