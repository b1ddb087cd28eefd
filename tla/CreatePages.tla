------------------------------ MODULE CreatePages ------------------------------
(***************************************************************************)
(* The Create page and the Settings page with their controllers, and the   *)
(* settings file behind them.  The subject is what the user validates,     *)
(* submits and saves while answers to earlier requests are still coming.   *)
(*                                                                         *)
(* An input list is the set of its entries.  form stands for all the       *)
(* fields of the form that enter a draft but the inputs and "recursive".   *)
(* The settings keep recursive_input as the one global setting that        *)
(* matters here, and one version of the provider.                          *)
(***************************************************************************)
EXTENDS PageLine

CONSTANTS
    Inputs      \* files the user may list

VARIABLES
    entries, recursive, form,   \* what the page shows
    preview, draft,
    previews,                   \* the loader of previews
    submitting, presetOp,       \* _submission_busy, _pending_preset_op
    config,                     \* CreateController's configuration
    settingsOp, current,        \* SettingsController's _pending_op and _current
    store,                      \* settings.toml, and the provider's file
    crossed,                    \* history: a preview was asked for while another was under way
    previewFailed,              \* history: the last preview accepted was a failure
    missed,                     \* history: SettingsController ignored a preset's answer since
    unseen                      \* history: a save that failed wrote its file, and no answer
                                \* with the configuration has followed

shownForm == <<entries, recursive, form>>
answers == <<preview, draft, previews, submitting, presetOp, config>>
settings == <<settingsOp, current, missed, unseen>>
createVars == <<shownForm, answers, settings, store, crossed, previewFailed>>

Selection(e, r) == [entries |-> e, recursive |-> r]
EmptyPreview == Selection({}, FALSE)
Draft(p, f) == [selection |-> p, form |-> f]

Settings(file, presets, rec, provider) ==
    [file |-> file, presets |-> presets, recursive |-> rec, provider |-> provider]
\* What a load of the file gives: defaults when it is missing or invalid, of
\* which nothing else is ever seen.
Loaded(s) == IF s.file = "valid" THEN s ELSE Settings(s.file, {}, TRUE, s.provider)
Written(s) == [Loaded(s) EXCEPT !.file = "valid"]

CreateInit ==
    /\ entries = {} /\ recursive = TRUE /\ form = 0
    /\ preview = None /\ draft = None /\ previews = Unasked
    /\ submitting = FALSE /\ presetOp = "none" /\ config = None
    /\ settingsOp = "load" /\ current = None
    /\ \/ \E presets \in SUBSET Presets : store = Settings("valid", presets, TRUE, 0)
       \/ \E file \in {"invalid", "missing"} : store = Settings(file, {}, TRUE, 0)
    /\ crossed = FALSE /\ previewFailed = FALSE /\ missed = FALSE /\ unseen = FALSE

-----------------------------------------------------------------------------
(* The Create page                                                          *)

PreviewRequest == Request("preview", Selection(entries', recursive'))

\* _request_preview, for the list and the check box as they are from now on.
RequestPreview ==
    IF entries' = {}
    THEN /\ preview' = EmptyPreview /\ previews' = Load(FALSE, FALSE, FALSE)
         /\ UNCHANGED <<requests, crossed>>
    ELSE /\ previews' = AskFor(previews)
         /\ requests' = requests \o AskSends(previews, PreviewRequest)
         /\ crossed' = IF previews.busy THEN crossed ELSE InFlight("preview")
         /\ UNCHANGED preview

SetEntries(e) ==
    /\ Act("create")
    /\ entries' = e /\ UNCHANGED <<recursive, form>>
    /\ draft' = None
    /\ RequestPreview
    /\ UNCHANGED <<submitting, presetOp, config, settings, store, previewFailed>>

Add == \E i \in Inputs \ entries : SetEntries(entries \union {i})
RemoveInput == \E i \in entries : SetEntries(entries \ {i})
Clear == SetEntries({})

SetRecursive_KeepsDraft ==
    /\ Act("create")
    /\ recursive' = ~recursive /\ UNCHANGED <<entries, form, draft>>
    /\ RequestPreview
    /\ UNCHANGED <<submitting, presetOp, config, settings, store, previewFailed>>

SetRecursive ==
    /\ Act("create")
    /\ recursive' = ~recursive /\ UNCHANGED <<entries, form>>
    /\ draft' = None
    /\ RequestPreview
    /\ UNCHANGED <<submitting, presetOp, config, settings, store, previewFailed>>

\* A field is edited, or another preset selected, which fills the fields.
Edit ==
    /\ Act("create")
    /\ form' = 1 - form /\ draft' = None
    /\ UNCHANGED <<requests, entries, recursive, preview, previews, submitting, presetOp, config,
                   settings, store, crossed, previewFailed>>

\* The button is enabled by _on_busy, _on_preset_busy and _on_submission_busy;
\* build_batch_draft may refuse the form.
Validate ==
    /\ Act("create")
    /\ ~previews.busy /\ presetOp = "none" /\ ~submitting
    /\ \/ draft' = None
       \/ preview \notin {None, EmptyPreview} /\ draft' = Draft(preview, form)
    /\ UNCHANGED <<requests, shownForm, preview, previews, submitting, presetOp, config,
                   settings, store, crossed, previewFailed>>

SubmitBatch ==
    /\ Act("create")
    /\ draft # None /\ ~previews.busy /\ presetOp = "none" /\ ~submitting
    /\ submitting' = TRUE
    /\ requests' = Append(requests, Request("submit", None))
    /\ UNCHANGED <<shownForm, preview, draft, previews, presetOp, config,
                   settings, store, crossed, previewFailed>>

ChangePreset(op, p) ==
    /\ Act("create")
    /\ presetOp = "none" /\ presetOp' = op
    /\ requests' = Append(requests, Request(op, p))
    /\ UNCHANGED <<shownForm, preview, draft, previews, submitting, config,
                   settings, store, crossed, previewFailed>>

SavePreset == \E p \in Presets : ChangePreset("save preset", p)
DeletePreset == config # None /\ \E p \in config.presets : ChangePreset("delete preset", p)

-----------------------------------------------------------------------------
(* The Settings page: its three buttons are disabled while one is pending   *)

AskSettings(op, arg) ==
    /\ Act("create")
    /\ settingsOp = "none" /\ settingsOp' = op
    /\ requests' = Append(requests, Request(op, arg))
    /\ UNCHANGED <<shownForm, answers, current, missed, unseen, store, crossed, previewFailed>>

SaveGlobal == \E r \in BOOLEAN : AskSettings("global", r)
SaveProvider == AskSettings("provider", 1)
TestProvider == AskSettings("test", 1)

-----------------------------------------------------------------------------
(* The runner and the settings file                                         *)

notAnswered == <<shownForm, answers, settingsOp, current, missed, crossed, previewFailed>>
notStore == <<notAnswered, unseen>>

ServePreview ==
    /\ Serve("preview")
    /\ Reply("preview", Head(requests).arg) \/ Fault("preview")
    /\ UNCHANGED <<notStore, store>>

ServeSubmit ==
    /\ Serve("submit")
    /\ Reply("submit", None) \/ Fault("submit")
    /\ UNCHANGED <<notStore, store>>

ServeLoad ==
    /\ Serve("load")
    /\ Reply("load", Loaded(store)) /\ unseen' = FALSE
    /\ UNCHANGED <<notAnswered, store>>

\* What each kind of save writes.
Saved(request) ==
    CASE request.kind = "global" -> [Written(store) EXCEPT !.recursive = request.arg]
      [] request.kind = "provider" -> [store EXCEPT !.provider = request.arg]
      [] request.kind = "save preset" -> [Written(store) EXCEPT !.presets = @ \union {request.arg}]
      [] request.kind = "delete preset" -> [store EXCEPT !.presets = @ \ {request.arg}]

\* A save that fails may have written the file: the mode is set after the file
\* has been replaced, and the answer needs the file to be read again.
ServeSave(kind) ==
    LET request == Head(requests)
        Allowed == kind = "delete preset" => request.arg \in Loaded(store).presets
    IN /\ Serve(kind)
       /\ \/ Allowed /\ store' = Saved(request) /\ unseen' = FALSE /\ Reply(kind, Loaded(store'))
          \/ ~Allowed /\ Refuse(kind) /\ UNCHANGED <<store, unseen>>
          \/ Fault(kind) /\ UNCHANGED <<store, unseen>>
          \/ Allowed /\ Fault(kind) /\ store' = Saved(request) /\ unseen' = TRUE
       /\ UNCHANGED notAnswered

\* The probe reports a failure as a result, or fails.
ServeTest ==
    /\ Serve("test")
    /\ Reply("test", None) \/ Fault("test")
    /\ UNCHANGED <<notStore, store>>

-----------------------------------------------------------------------------
(* The window: answers                                                      *)

OnPreview ==
    /\ TakeSignal("preview", TRUE)
    /\ preview' = IF previews.fresh THEN Value ELSE preview
    /\ previewFailed' = (previewFailed /\ ~previews.fresh)
    /\ previews' = Done(previews)
    /\ requests' = requests \o DoneSends(previews, Request("preview", Selection(entries, recursive)))
    /\ crossed' = IF previews.queued THEN Carries(requests, "preview") \/ Carries(signals', "preview")
                  ELSE crossed
    /\ UNCHANGED <<shownForm, draft, submitting, presetOp, config, settings, store>>

OnPreviewFailure ==
    /\ TakeSignal("preview", FALSE)
    /\ previewFailed' = (previewFailed \/ previews.fresh)
    /\ previews' = Done(previews)
    /\ requests' = requests \o DoneSends(previews, Request("preview", Selection(entries, recursive)))
    /\ crossed' = IF previews.queued THEN Carries(requests, "preview") \/ Carries(signals', "preview")
                  ELSE crossed
    /\ UNCHANGED <<shownForm, preview, draft, submitting, presetOp, config, settings, store>>

\* The list is cleared, and with it the preview.
OnSubmitted ==
    /\ TakeSignal("submit", TRUE)
    /\ submitting' = FALSE /\ draft' = None
    /\ entries' = {} /\ preview' = None /\ previews' = Load(FALSE, FALSE, FALSE)
    /\ UNCHANGED <<requests, recursive, form, presetOp, config, settings, store, crossed, previewFailed>>

OnSubmitFailure ==
    /\ TakeSignal("submit", FALSE)
    /\ submitting' = FALSE
    /\ UNCHANGED <<requests, shownForm, preview, draft, previews, presetOp, config,
                   settings, store, crossed, previewFailed>>

\* set_configuration, and the page's _on_configuration: every field is filled
\* anew, and a check box that changes asks for a preview.
SetConfiguration(s) ==
    /\ config' = s /\ draft' = None
    /\ form' \in {0, 1}
    /\ recursive' = s.recursive /\ UNCHANGED entries
    /\ IF recursive' # recursive THEN RequestPreview
                                 ELSE UNCHANGED <<requests, preview, previews, crossed>>

\* An answer with a configuration: the Create page takes the one it asked for,
\* the Settings page its own or, when it waits for none, any but a load.
OnConfiguration(kind) ==
    /\ TakeSignal(kind, TRUE)
    /\ LET own == settingsOp = kind
           idle == settingsOp = "none" /\ kind # "load"
       IN /\ IF own \/ idle THEN current' = Value /\ missed' = FALSE
                            ELSE UNCHANGED current /\ missed' = TRUE
          /\ settingsOp' = IF own THEN "none" ELSE settingsOp
          /\ IF own \/ idle \/ presetOp = kind
             THEN SetConfiguration(Value)
             ELSE UNCHANGED <<requests, shownForm, preview, draft, previews, config, crossed>>
    /\ presetOp' = IF presetOp = kind THEN "none" ELSE presetOp
    /\ UNCHANGED <<submitting, unseen, store, previewFailed>>

OnConfigurationFailure(kind) ==
    /\ TakeSignal(kind, FALSE)
    /\ settingsOp' = IF settingsOp = kind THEN "none" ELSE settingsOp
    /\ presetOp' = IF presetOp = kind THEN "none" ELSE presetOp
    /\ UNCHANGED <<requests, shownForm, preview, draft, previews, submitting, config,
                   current, missed, unseen, store, crossed, previewFailed>>

OnTest ==
    /\ \E ok \in BOOLEAN : TakeSignal("test", ok)
    /\ settingsOp' = IF settingsOp = "test" THEN "none" ELSE settingsOp
    /\ UNCHANGED <<requests, shownForm, answers, current, missed, unseen, store, crossed, previewFailed>>

-----------------------------------------------------------------------------
Saves == {"global", "provider", "save preset", "delete preset"}

CreateUser ==
    \/ Add \/ RemoveInput \/ Clear \/ SetRecursive \/ Edit \/ Validate \/ SubmitBatch
    \/ SavePreset \/ DeletePreset \/ SaveGlobal \/ SaveProvider \/ TestProvider
CreateRunner ==
    \/ ServePreview \/ ServeSubmit \/ ServeLoad \/ ServeTest
    \/ \E kind \in Saves : ServeSave(kind)
CreateWindow ==
    \/ OnPreview \/ OnPreviewFailure \/ OnSubmitted \/ OnSubmitFailure \/ OnTest
    \/ \E kind \in Saves \union {"load"} : OnConfiguration(kind)
    \/ \E kind \in Saves : OnConfigurationFailure(kind)

\* Nothing is under way, and the pages show what was last asked for: the preview
\* of the list (or its failure), and the configuration on the disk.  Named
\* exceptions: the Settings page ignored the answer to a change of presets, and a
\* save that failed after it had written its file has left both pages stale.
CreateShown ==
    /\ ~previews.busy /\ ~submitting /\ presetOp = "none" /\ settingsOp = "none"
    /\ entries # {} => preview = Selection(entries, recursive) \/ previewFailed
    /\ config = Loaded(store) \/ unseen
    /\ current = Loaded(store) \/ missed \/ unseen
=============================================================================
