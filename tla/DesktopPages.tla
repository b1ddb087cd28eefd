------------------------------ MODULE DesktopPages ------------------------------
(***************************************************************************)
(* The pages of an open desktop program: CreatePages, JobPages and         *)
(* DiagnosticsPages behind one runner, and ConfigFiles behind the Settings *)
(* page.  They share nothing else but the refresh of the queue that        *)
(* follows a submission, so the user works on one of them; the end of the  *)
(* session is the subject of DesktopSession.                               *)
(***************************************************************************)
EXTENDS CreatePages, JobPages, DiagnosticsPages, ConfigFiles

pagesVars == <<line, createVars, jobVars, diagnosticsVars, configVars>>

\* The window has started: the queue, the configuration and the list of batches
\* to recover have been asked for.  The page that is not used has one state.
InitPages ==
    /\ CreateInit /\ JobInit
    /\ signals = <<>> /\ userActs = 0 /\ faults = 0
    /\ \/ page = "create" /\ requests = <<Request("load", None)>>
       \/ page = "jobs" /\ requests = <<Refresh, Request("scan", None)>> /\ store.file = "missing"
       \/ page = "diagnostics" /\ requests = <<Diagnose>> /\ store.file = "missing"
       \/ page \in Files /\ requests = <<>> /\ store.file = "missing"
    /\ DiagnosticsInit /\ ConfigInit

notCreate == <<jobVars, diagnosticsVars, configVars>>
notJobs == <<createVars, diagnosticsVars, configVars>>
notDiagnostics == <<createVars, jobVars, configVars>>
notConfig == <<createVars, jobVars, diagnosticsVars>>

CreateStep == (CreateUser \/ CreateRunner \/ CreateWindow) /\ UNCHANGED notCreate
JobStep == (JobUser \/ JobRunner \/ JobWindow \/ Elsewhere \/ Complete) /\ UNCHANGED notJobs
DiagnosticsStep ==
    (DiagnosticsUser \/ DiagnosticsRunner \/ DiagnosticsWindow) /\ UNCHANGED notDiagnostics
ConfigStep == (ConfigUser \/ ConfigPrograms \/ ConfigElsewhere) /\ UNCHANGED notConfig
NextPages == CreateStep \/ JobStep \/ DiagnosticsStep \/ ConfigStep

RunnerStep ==
    \/ CreateRunner /\ UNCHANGED notCreate
    \/ JobRunner /\ UNCHANGED notJobs
    \/ DiagnosticsRunner /\ UNCHANGED notDiagnostics
WindowStep ==
    \/ CreateWindow /\ UNCHANGED notCreate
    \/ JobWindow /\ UNCHANGED notJobs
    \/ DiagnosticsWindow /\ UNCHANGED notDiagnostics

\* Both threads serve their queues, both timers run, and a save under way goes
\* on; the user, another program and the pool thread need not do anything.
PagesFairness ==
    /\ WF_pagesVars(RunnerStep) /\ WF_pagesVars(WindowStep)
    /\ WF_pagesVars(PollExecution /\ UNCHANGED notJobs)
    /\ WF_pagesVars(Timer /\ UNCHANGED notJobs)
    /\ WF_pagesVars(ConfigPrograms /\ UNCHANGED notConfig)

SpecPages == InitPages /\ [][NextPages]_pagesVars /\ PagesFairness

-----------------------------------------------------------------------------
\* A draft is what the page shows: its list of inputs as previewed, and its form.
\* Named exceptions: two previews were under way at once (the list was cleared
\* while one was, so that the answer for the old list passes for that of the
\* new one), or the last preview failed and the one before it is still used.
DraftCurrent ==
    draft # None =>
        \/ draft = Draft(Selection(entries, recursive), form)
        \/ crossed \/ previewFailed

\* The commands of the detail panel go to the selected job: with no detail under
\* way, the panel shows that job or nothing, unless its detail could not be loaded.
PanelIsTarget ==
    ~details.busy /\ detail # None => selected = detail.job \/ detailFailed

\* What an acknowledged save wrote stays in its file, whatever is saved or fails
\* or dies later: the user's presets and the keys of all profiles; and an export
\* takes the place of no other program's file unless the user was asked.  Named
\* exceptions: two programs saved the file at once, the user broke it by hand,
\* or a text with a control character made it unreadable (a save of settings
\* over an unreadable file begins with the defaults); the other program's file
\* came after the writer of the bundle had looked.
SavedKept ==
    /\ ~spoiled["settings"] => kept.presets \subseteq LoadSettings(files["settings"].real).presets
    /\ ~spoiled["llm"] =>
           \A profile \in kept.keys :
               LET provider == LoadProviders(files["llm"].real)[profile]
               IN provider # None /\ provider.key = "text"
    /\ taken \subseteq {"late"}

\* The readers of a file agree.  A profile the Settings page saved, with the save
\* acknowledged, a pipeline accepts if and only if it has a key or the
\* environment has one, and of the default profile the page says the same.  In any
\* other file the page shows a credential for the default profile if and only if
\* a pipeline accepts it, but for the named exceptions: the profile is written by
\* hand without a kind, with a key that is no text or with blanks around the
\* tokenizer's name, or another profile is no table.  The program starts in the
\* language the page shows, but for a fault deep in the settings or an array for
\* a language.
ReadersAgree ==
    LET text == files["llm"].real
        provider == text.providers["default"]
        settings_ == files["settings"].real
        Agrees == \A envKey \in BOOLEAN :
            CredentialShown(text, envKey) \in {"config", "environment"} <=> Accepted(text, "default", envKey)
    IN /\ ~spoiled["llm"] =>
             /\ \A profile \in kept.saved, envKey \in BOOLEAN :
                    Accepted(text, profile, envKey) <=> envKey \/ text.providers[profile].key = "text"
             /\ "default" \in kept.saved => Agrees
       /\ \/ Agrees
          \/ Readable(text) /\ ~Tables(text)
          \/ provider.made = "hand" /\ (provider.form \in {"no kind", "blanks"} \/ provider.key = "number")
       /\ \/ StartupLocale(settings_) = LoadSettings(settings_).locale
          \/ settings_.fault \in {"deep", "array"}

\* When the user leaves the pages alone they come to rest and show what is on
\* the disk: no answer lost or out of order leaves a page busy or stale.  The
\* exceptions are named where each page's part is defined: CreateShown has the
\* save that failed with its file written, after which both pages stay stale.
EventuallyShown ==
    <>[](CASE page = "create" -> CreateShown [] page = "jobs" -> JobsShown
           [] page = "diagnostics" -> DiagnosticsShown [] page \in Files -> SavesOver)
=============================================================================
