---------------------------- MODULE Configuration ----------------------------
(***************************************************************************)
(* The configuration of an installation (core/config.py): the files it is  *)
(* kept in, the environment and .env file laid over them, the Settings a   *)
(* process holds, and everything that changes them: the wizard on screen   *)
(* (views/wizard.py), the console wizard of the server (core/wizard.py),   *)
(* the settings page, and the installer of optional extras.  With it, how  *)
(* a start of the program decides what it runs as (__main__.py,            *)
(* desktop/main.py, desktop/runtime.py, server/main.py).                   *)
(*                                                                         *)
(* A layer is a function from the keys it sets.  "auto", the extras'       *)
(* auto_install, stands for all settings of the sections.  The variables   *)
(* and the .env file change only between two processes: of the .env file,  *)
(* which a save reads anew, this is an assumption.                         *)
(***************************************************************************)
EXTENDS Naturals

CONSTANTS
    None,           \* Python's None, and a file that is not there
    Environments,   \* what the variables and the .env file may set: [env, dotenv]
    FirstFiles,     \* the files an installation may begin with
    EnvKey,         \* the API key the environment has
    MaxStarts       \* bound: the starts of the program

Keys == {"workspace", "server_url", "api_key", "mode", "auto"}
Files == {"explicit", "home", "yaml", "json"}

Value == [workspace |-> {None, "w1", "w2"}, server_url |-> {None, "u"},
          api_key |-> {None, "typed", "generated", EnvKey},
          mode |-> {None, "full", "thin", "server", "web"}, auto |-> {"no", "yes", "bad"}]
IsLayer(l) == DOMAIN l \subseteq Keys /\ \A k \in DOMAIN l : l[k] \in Value[k]

\* What variables set: an empty key or address is None, an empty path or mode is one like
\* another, and a section that is not valid ends the start.
IsGiven(l) ==
    /\ IsLayer(l)
    /\ \A k \in DOMAIN l \cap {"workspace", "mode"} : l[k] # None
    /\ "auto" \in DOMAIN l => l["auto"] # "bad"

\* What the desktop has run as, and in which environment.
Ran == [around : Environments, as : {"full", "thin"}]

ASSUME ConfigurationAssumption ==
    /\ None \notin Ran \cup {"w1", "w2", "u", "typed", "generated", "full", "thin", "server",
                          "web", "no", "yes", "bad"}
    /\ \A K \in SUBSET Keys : None \notin [K -> UNION {Value[k] : k \in Keys}]
    /\ EnvKey \notin {None, "typed", "generated", "bad", "web"}
    /\ \A e \in Environments : IsGiven(e.env) /\ IsGiven(e.dotenv)
    /\ \A first \in FirstFiles :
          DOMAIN first = Files /\ \A f \in Files : first[f] = None \/ IsLayer(first[f])
    /\ MaxStarts \in Nat

VARIABLES
    files,      \* each file: a layer, or None
    override,   \* whether --config asks for the explicit file
    leaked,     \* history: an earlier version had put the environment's key in a file
    around,     \* the environment of the process
    mem,        \* the Settings that get_settings caches
    proc,       \* the process: what it runs as, or where its start is
    step,       \* the step of the wizard on screen
    draft,      \* what the wizard has collected
    prompt,     \* the installer of extras
    starts,     \* the starts so far
    written,    \* history: the files this program has written
    kept,       \* history: what the last save was to keep; None after a failed one
    ran         \* history: what the desktop first ran as since it was set up, and where;
                \* None after a change of either

settings == <<files, mem>>
fixed == <<override, leaked>>
wizard == <<step, draft>>
history == <<written, kept, ran>>
vars == <<settings, fixed, around, proc, wizard, prompt, starts, history>>

NoLayer == [k \in {} |-> None]
Default == [workspace |-> None, server_url |-> None, api_key |-> None, mode |-> None,
            auto |-> "no"]

TypeOK ==
    /\ DOMAIN files = Files /\ \A f \in Files : files[f] = None \/ IsLayer(files[f])
    /\ override \in BOOLEAN /\ leaked \in BOOLEAN
    /\ around \in Environments
    /\ DOMAIN mem = Keys /\ IsLayer(mem) /\ mem["mode"] # "web" /\ mem["auto"] # "bad"
    /\ proc \in {"off", "wizard", "console", "build", "full", "thin", "serve", "serving",
                 "refused", "crashed"}
    /\ step \in {"none", "language", "mode", "workspace", "key", "server"}
    /\ draft \in [mode : {"full", "thin"}, workspace : Value["workspace"],
                  server_url : Value["server_url"], api_key : Value["api_key"]]
    /\ prompt \in {"none", "asking", "installing", "installed"}
    /\ starts \in 0..MaxStarts
    /\ written \subseteq Files
    /\ kept = None \/ IsLayer(kept)
    /\ ran \in Ran \cup {None}

HasKey(file) ==
    file # None /\ "api_key" \in DOMAIN file /\ file["api_key"] = EnvKey

NoDraft == [mode |-> "full", workspace |-> None, server_url |-> None, api_key |-> None]

Init ==
    /\ files \in FirstFiles
    /\ override \in BOOLEAN
    /\ leaked = \E f \in Files : HasKey(files[f])
    /\ around \in Environments
    /\ mem = Default
    /\ proc = "off"
    /\ step = "none"
    /\ draft = NoDraft
    /\ prompt = "none"
    /\ starts = 0
    /\ written = {}
    /\ kept = None
    /\ ran = None
-----------------------------------------------------------------------------
(* Reading and writing. *)

\* resolve_config_file
ReadFile ==
    IF override THEN "explicit"
    ELSE IF files["home"] # None THEN "home"
    ELSE IF files["yaml"] # None THEN "yaml" ELSE "json"

\* _read_config: what is not there, or does not parse, says nothing.
Content(f) == IF files[f] = None THEN NoLayer ELSE files[f]

\* _drop_invalid_sections, and the validator that forgets the removed web client.
FileSays(k) == k \in DOMAIN Content(ReadFile) /\ Content(ReadFile)[k] # "bad"
UnderstoodAsIs(v) == v  \* Mutant: the removed mode is kept.
Understood(v) == IF v = "web" THEN None ELSE v

\* Settings(): the environment, then the file, then .env, then the default.
GetSettings(e) ==
    [k \in Keys |-> Understood(
        CASE k \in DOMAIN e.env -> e.env[k]
          [] k \notin DOMAIN e.env /\ FileSays(k) -> Content(ReadFile)[k]
          [] k \notin DOMAIN e.env /\ ~FileSays(k) /\ k \in DOMAIN e.dotenv -> e.dotenv[k]
          [] OTHER -> Default[k])]

\* _environment_values
EnvironmentValues ==
    [k \in DOMAIN around.dotenv \cup DOMAIN around.env |->
        IF k \in DOMAIN around.env THEN around.env[k] ELSE around.dotenv[k]]

\* Mutant: the file in the home directory is read but not written.
SavePathUser == IF override THEN "explicit" ELSE "yaml"

\* save_path
SavePath == IF override THEN "explicit" ELSE IF files["home"] # None THEN "home" ELSE "yaml"

\* Mutant: a value of the environment is left out only where the file has one.
KeepFileValuesOnly(values) ==
    LET existing == Content(SavePath) IN
    [k \in Keys |-> IF k \in DOMAIN EnvironmentValues /\ k \in DOMAIN existing
                    THEN existing[k] ELSE values[k]]

\* _keep_file_values: a setting of the environment stays what the file says, unless that
\* is the environment's own value, leaked there by an earlier version.  Null is not.
KeepFileValues(values) ==
    LET existing == Content(SavePath)
        ours == {k \in DOMAIN existing \cap DOMAIN EnvironmentValues :
                    existing[k] = None \/ existing[k] # EnvironmentValues[k]}
    IN [k \in (Keys \ DOMAIN EnvironmentValues) \cup ours |->
            IF k \in ours THEN existing[k] ELSE values[k]]

\* Settings.save, to the end, or to an OSError before or after the file is truncated.
Saves(values) ==
    /\ files' = [files EXCEPT ![SavePath] = KeepFileValues(values)]
    /\ written' = written \cup {SavePath}
    /\ kept' = [k \in Keys \ DOMAIN EnvironmentValues |-> values[k]]

SaveFails ==
    /\ files' \in {files, [files EXCEPT ![SavePath] = NoLayer]}
    /\ kept' = None /\ ran' = None
    /\ UNCHANGED written

\* What a handler does with a change: it is in memory, saved or not.
Keeps(values) ==
    /\ mem' = values
    /\ \/ Saves(values) /\ UNCHANGED ran
       \/ SaveFails
-----------------------------------------------------------------------------
(* Starting. *)

\* validate_for_mode
DesktopComplete(m) == m.workspace # None \/ (m.server_url # None /\ m.api_key # None)
ServerComplete(m) == m.workspace # None /\ m.api_key # None

Begin(e) ==
    /\ proc = "off"
    /\ starts < MaxStarts
    /\ starts' = starts + 1
    /\ around' = e
    /\ mem' = GetSettings(e)
    /\ ran' = IF ran # None /\ ran.around = e THEN ran ELSE None
    /\ UNCHANGED <<files, fixed, prompt, written, kept>>

\* desktop/main.start; FletSetupWizard.__init__ begins with what is configured.
StartDesktop(e) ==
    /\ Begin(e)
    /\ IF DesktopComplete(GetSettings(e))
       THEN proc' = "build" /\ UNCHANGED wizard
       ELSE /\ proc' = "wizard"
            /\ step' = "language"
            /\ draft' = [mode |-> "full", workspace |-> mem'.workspace,
                         server_url |-> mem'.server_url, api_key |-> mem'.api_key]

\* __main__.main for the server
StartServer(e) ==
    /\ Begin(e)
    /\ proc' = IF files[ReadFile] # None /\ ServerComplete(GetSettings(e)) THEN "serve" ELSE "console"
    /\ UNCHANGED wizard

\* Mutant: the mode that was chosen is not looked at.
ModeTold == IF mem.server_url # None /\ mem.workspace = None THEN "thin" ELSE "full"

\* build_runtime: the mode is recorded, or told from what is set.
Mode ==
    IF mem.mode # None THEN mem.mode
    ELSE IF mem.server_url # None /\ mem.workspace = None THEN "thin" ELSE "full"

Came(as) ==
    /\ proc' = as
    /\ ran' = IF ran = None /\ mem.mode \in {"full", "thin"}
               THEN [around |-> around, as |-> as] ELSE ran

\* build_runtime and open_services: a handshake or a locked workspace may refuse.
Build ==
    /\ proc = "build"
    /\ \/ Mode = "thin" /\ mem.server_url # None /\ Came("thin")
       \/ Mode # "thin" /\ mem.workspace # None /\ Came("full")
       \/ proc' = "refused" /\ UNCHANGED ran
       \/ /\ IF Mode = "thin" THEN mem.server_url = None ELSE mem.workspace = None
          /\ proc' = "crashed"
          /\ UNCHANGED ran
    /\ UNCHANGED <<settings, fixed, around, wizard, prompt, starts, written, kept>>

\* The process ends; what it had in memory is gone.
Quit ==
    /\ proc # "off"
    /\ proc' = "off"
    /\ mem' = Default
    /\ step' = "none" /\ draft' = NoDraft
    /\ prompt' = IF prompt = "installed" THEN "installed" ELSE "none"
    /\ UNCHANGED <<files, fixed, around, starts, history>>
-----------------------------------------------------------------------------
(* The wizard on screen. *)

Shows(s) ==
    /\ proc = "wizard"
    /\ step' = s
    /\ UNCHANGED <<settings, fixed, around, proc, prompt, starts, history>>

ConfirmLanguage == step = "language" /\ Shows("mode") /\ UNCHANGED draft

ChooseMode(m) ==
    /\ step = "mode"
    /\ draft' = [draft EXCEPT !.mode = m]
    /\ Shows(IF m = "full" THEN "workspace" ELSE "server")

\* An empty path is not accepted.
ConfirmWorkspace(w) ==
    /\ step = "workspace"
    /\ draft' = [draft EXCEPT !.workspace = w]
    /\ Shows("key")

Back ==
    /\ step \in {"mode", "workspace", "server", "key"}
    /\ Shows(CASE step = "mode" -> "language" [] step = "key" -> "workspace" [] OTHER -> "mode")
    /\ UNCHANGED draft

\* _finish: the settings take the draft, are saved, and the start goes on.
Finish(d) ==
    /\ proc = "wizard"
    /\ draft' = d
    /\ mem' = [mem EXCEPT
                 !.mode = d.mode, !.api_key = d.api_key,
                 !.workspace = IF d.mode = "full" THEN d.workspace ELSE None,
                 !.server_url = IF d.mode = "full" THEN None ELSE d.server_url]
    /\ \/ Saves(mem') /\ proc' = "build" /\ step' = "none" /\ ran' = None
       \/ SaveFails /\ UNCHANGED <<proc, step>>
    /\ UNCHANGED <<fixed, around, prompt, starts>>

\* The key offered is the configured one or a new one; it may be typed over or skipped.
ConfirmKey(key) ==
    /\ step = "key"
    /\ key \in {"typed", "generated", draft.api_key, None}
    /\ Finish([draft EXCEPT !.api_key = key])

\* Both fields are required here.
ConfirmServer(url, key) ==
    /\ step = "server"
    /\ url # None /\ key \in {"typed", draft.api_key} \ {None}
    /\ Finish([draft EXCEPT !.server_url = url, !.api_key = key])
-----------------------------------------------------------------------------
(* The server. *)

\* ConfigWizard.run("server"): the steps not satisfied yet, and nothing if all of it is.
ConsoleWizard(w, key) ==
    /\ proc = "console"
    /\ IF ServerComplete(mem)
       THEN proc' = "serve" /\ UNCHANGED <<settings, history>>
       ELSE /\ mem' = [mem EXCEPT !.mode = "server",
                         !.workspace = IF @ = None THEN w ELSE @,
                         !.api_key = IF @ = None THEN key ELSE @]
            /\ \/ Saves(mem') /\ proc' = "serve" /\ ran' = None
               \/ SaveFails /\ proc' = "crashed"
    /\ UNCHANGED <<fixed, around, wizard, prompt, starts>>

\* run_server: a key that was skipped is generated and saved.
RunServer ==
    /\ proc = "serve"
    /\ \/ /\ mem.api_key # None
          /\ proc' = "serving"
          /\ UNCHANGED <<settings, history>>
       \/ /\ mem.api_key = None
          /\ mem' = [mem EXCEPT !.api_key = "generated"]
          /\ \/ Saves(mem') /\ proc' = "serving" /\ UNCHANGED ran
             \/ SaveFails /\ proc' = "crashed"
       \/ proc' = "refused" /\ UNCHANGED <<settings, history>>
    /\ UNCHANGED <<fixed, around, wizard, prompt, starts>>
-----------------------------------------------------------------------------
(* The settings page, and the installer of extras. *)

OnDesktop == proc \in {"full", "thin"} /\ UNCHANGED <<fixed, around, proc, wizard, starts>>

\* apply: a value the section refuses changes nothing, nor does a field left as it was;
\* one that cannot be saved stays.
Apply(k, v) ==
    /\ OnDesktop
    /\ k = "workspace" \/ mem[k] # v
    /\ Keeps([mem EXCEPT ![k] = v])
    /\ UNCHANGED prompt

\* restore_defaults_clicked
RestoreDefaults ==
    /\ OnDesktop
    /\ Keeps([mem EXCEPT !.auto = Default.auto])
    /\ UNCHANGED prompt

\* ExtraInstaller.ensure, for an extra that is not there and may be installed.
Ensure ==
    /\ OnDesktop
    /\ prompt = "none"
    /\ prompt' = IF mem.auto = "yes" THEN "installing" ELSE "asking"
    /\ UNCHANGED <<settings, history>>

\* _ask, _remember
Answer(accepted, remember) ==
    /\ OnDesktop
    /\ prompt = "asking"
    /\ prompt' = IF accepted THEN "installing" ELSE "none"
    /\ IF accepted /\ remember
       THEN Keeps([mem EXCEPT !.auto = "yes"])
       ELSE UNCHANGED <<settings, history>>

Installed ==
    /\ OnDesktop
    /\ prompt = "installing"
    /\ prompt' \in {"installed", "none"}
    /\ UNCHANGED <<settings, history>>
-----------------------------------------------------------------------------
Wizard ==
    \/ ConfirmLanguage \/ Back
    \/ \E m \in {"full", "thin"} : ChooseMode(m)
    \/ \E w \in Value["workspace"] \ {None} : ConfirmWorkspace(w)
    \/ \E key \in Value["api_key"] : ConfirmKey(key) \/ ConfirmServer("u", key)

Server ==
    \/ \E w \in Value["workspace"] \ {None}, key \in {"typed", "generated", None} :
          ConsoleWizard(w, key)
    \/ RunServer

Page ==
    \/ \E w \in Value["workspace"] \ {None} : Apply("workspace", w)
    \/ \E v \in {"no", "yes"} : Apply("auto", v)
    \/ RestoreDefaults \/ Ensure \/ Installed
    \/ \E accepted, remember \in BOOLEAN : Answer(accepted, remember)

Next ==
    \/ \E e \in Environments : StartDesktop(e) \/ StartServer(e)
    \/ Build \/ Quit \/ Wizard \/ Server \/ Page

Spec == Init /\ [][Next]_vars
-----------------------------------------------------------------------------
(* What a save wrote is what the next process reads, for every setting the environment *)
(* does not set: save and the search for a file agree, whichever files there are.      *)
SavedIsRead ==
    kept # None => \A k \in DOMAIN kept : FileSays(k) /\ Content(ReadFile)[k] = kept[k]

(* A key that only the environment has never gets into a file the program writes, also *)
(* by way of the wizards, which copy the settings and hand them back.  One that an     *)
(* earlier version left in a file may stay: nothing tells it from a typed one where    *)
(* the environment no longer has it.                                                   *)
EnvironmentStaysOut ==
    ~leaked => \A f \in written : ~HasKey(files[f])

(* The desktop, set up once with its mode recorded, comes up as the same for as long as *)
(* the environment stays, whatever the settings page changed since: the wizard does not *)
(* ask again, and the runtime is not refused what it needs.  An environment in between  *)
(* that repeats a value of the file takes it from the file at the next save.  Three     *)
(* kinds of environment are left out, for they may contradict the choice: one that sets *)
(* the mode, one that sets a key or an address to nothing, and a .env file, whose       *)
(* values save leaves out while an empty value that the file already has goes before    *)
(* them.                                                                                *)
Agrees(e) ==
    /\ e.dotenv = NoLayer
    /\ "mode" \notin DOMAIN e.env /\ \A k \in DOMAIN e.env : e.env[k] # None
StartsTheSame ==
    ran # None /\ Agrees(around) =>
        /\ proc \notin {"wizard", "crashed"}
        /\ proc \in {"full", "thin"} => proc = ran.as
=============================================================================
