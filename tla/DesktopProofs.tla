---------------------------- MODULE DesktopProofs ----------------------------
(***************************************************************************)
(* Proofs about the two specifications a desktop application is started    *)
(* and run by, which share no state.  Configuration: what is saved is what *)
(* the next start reads, and a desktop that was set up comes up as the     *)
(* same, for any environments, files and number of starts.  ViewScopes: no *)
(* database session of a view is lost, and the screen shows the place the  *)
(* state names, for any handlers, chronicles and number of scopes.         *)
(***************************************************************************)
EXTENDS Configuration, ViewScopes, TLAPS

(* The inductive invariant of Configuration *)

\* The environment or the .env file sets it.
Here(k) == k \in DOMAIN EnvironmentValues

\* A key of the environment is in memory only while the environment has one.
KeyIsOutside ==
    ~leaked =>
        /\ mem.api_key = EnvKey \/ draft.api_key = EnvKey => Here("api_key")
        /\ \A f \in Files : ~HasKey(files[f])

\* What the wizard has asked when it shows a step.
Asked ==
    /\ step # "none" => proc = "wizard"
    /\ step \in {"workspace", "key"} => draft.mode = "full"
    /\ step = "key" => draft.workspace # None
    /\ step = "server" => draft.mode = "thin"
    /\ proc = "off" => draft = NoDraft

\* What the settings have that come up as they did.
Suits(m, as) ==
    /\ m.mode = as
    /\ IF as = "full" THEN m.workspace # None ELSE m.server_url # None
    /\ DesktopComplete(m)

\* As long as no save has failed, what is in memory is in the file or in the environment.
InFile == \A k \in Keys \ DOMAIN around.env : GetSettings(around)[k] = mem[k]

\* A start that goes on has what it needs.  A desktop that has run since it was set up, in an
\* environment that is still there, will find in it and the file what it ran with.
SetUp ==
    /\ proc = "build" => DesktopComplete(mem)
    /\ ran # None => ran.around = around
    /\ Agrees(around) /\ (ran # None \/ proc = "build") /\ proc # "off" => InFile
    /\ Agrees(around) /\ ran # None =>
          /\ Suits(GetSettings(around), ran.as)
          /\ proc = "build" => mem = GetSettings(around)

ConfigInv == TypeOK /\ SavedIsRead /\ KeyIsOutside /\ Asked /\ SetUp /\ StartsTheSame
-----------------------------------------------------------------------------
(* Values, layers and settings *)

IsSettings(m) == DOMAIN m = Keys /\ IsLayer(m) /\ m["mode"] # "web" /\ m["auto"] # "bad"

\* None is no value that is told apart from it.
LEMMA NoneIsNoString ==
    /\ None # "bad" /\ None # "web" /\ None # "no" /\ None # "yes"
    /\ None # "full" /\ None # "thin" /\ None # "typed" /\ None # "generated"
BY ConfigurationAssumption

\* Only the extras can be not valid, and only a mode have been removed.
LEMMA ValueKinds ==
    ASSUME NEW k \in Keys, NEW v \in Value[k]
    PROVE  /\ v = "bad" => k = "auto"
           /\ v = "web" => k = "mode"
<1>1. /\ None # "bad" /\ None # "web" /\ None # "no" /\ None # "yes"
      /\ EnvKey # "bad" /\ EnvKey # "web"
  BY NoneIsNoString, ConfigurationAssumption
<1>2. /\ Value["workspace"] = {None, "w1", "w2"} /\ Value["server_url"] = {None, "u"}
      /\ Value["api_key"] = {None, "typed", "generated", EnvKey}
      /\ Value["mode"] = {None, "full", "thin", "server", "web"}
      /\ Value["auto"] = {"no", "yes", "bad"}
  BY DEF Value
<1>3. CASE k = "workspace"
  BY <1>1, <1>2, <1>3
<1>4. CASE k = "server_url"
  BY <1>1, <1>2, <1>4
<1>5. CASE k = "api_key"
  BY <1>1, <1>2, <1>5
<1>6. CASE k = "mode"
  BY <1>1, <1>2, <1>6
<1>7. CASE k = "auto"
  BY <1>1, <1>2, <1>7
<1>. QED
  BY <1>3, <1>4, <1>5, <1>6, <1>7 DEF Keys

\* Every setting but the extras' can be None.
LEMMA NoneIsAValue ==
    ASSUME NEW k \in Keys, k # "auto"
    PROVE  None \in Value[k]
BY DEF Value, Keys

\* What the environment and the .env file give.
LEMMA Given ==
    ASSUME NEW e \in Environments
    PROVE  IsGiven(e.env) /\ IsGiven(e.dotenv)
BY ConfigurationAssumption

\* A file that is there is a layer, and so is what a file that is not there says.
LEMMA ContentIsLayer ==
    ASSUME TypeOK, NEW f \in Files
    PROVE  IsLayer(Content(f))
BY DEF TypeOK, Content, NoLayer, IsLayer

\* The file read and the file written are two of the four, or one.
LEMMA ReadsAFile == ReadFile \in Files /\ SavePath \in Files
BY DEF ReadFile, SavePath, Files

\* get_settings makes settings, whatever the environment and the file say.
LEMMA SettingsAreSettings ==
    ASSUME TypeOK, NEW e \in Environments
    PROVE  IsSettings(GetSettings(e))
<1>. DEFINE m == GetSettings(e)
<1>0. IsGiven(e.env) /\ IsGiven(e.dotenv) /\ IsLayer(Content(ReadFile))
  BY Given, ContentIsLayer, ReadsAFile
<1>1. DOMAIN m = Keys
  BY DEF GetSettings
<1>2. ASSUME NEW k \in Keys
      PROVE  m[k] \in Value[k] /\ m[k] # "web" /\ m[k] # "bad"
  <2>. DEFINE v == CASE k \in DOMAIN e.env -> e.env[k]
                     [] k \notin DOMAIN e.env /\ FileSays(k) -> Content(ReadFile)[k]
                     [] k \notin DOMAIN e.env /\ ~FileSays(k) /\ k \in DOMAIN e.dotenv ->
                            e.dotenv[k]
                     [] OTHER -> Default[k]
  <2>1. m[k] = Understood(v)
    BY DEF GetSettings
  <2>2. Default[k] \in Value[k] /\ Default[k] # "bad"
    <3>1. CASE k = "auto"
      BY <3>1 DEF Default, Value
    <3>2. CASE k # "auto"
      <4>1. Default[k] = None
        BY <3>2 DEF Default, Keys
      <4>. QED
        BY <3>2, <4>1, NoneIsAValue, NoneIsNoString
    <3>. QED
      BY <3>1, <3>2
  <2>3. v \in Value[k] /\ v # "bad"
    BY <1>0, <2>2, ValueKinds DEF IsGiven, IsLayer, FileSays
  <2>. HIDE DEF v
  <2>. QED
    BY <2>1, <2>3, ValueKinds, NoneIsAValue, NoneIsNoString DEF Understood
<1>. HIDE DEF m
<1>3. IsLayer(m)
  BY <1>1, <1>2 DEF IsLayer
<1>4. "mode" \in Keys /\ "auto" \in Keys
  BY DEF Keys
<1>. QED
  BY <1>1, <1>2, <1>3, <1>4 DEF IsSettings, m
-----------------------------------------------------------------------------
(* What a save does *)

\* Nothing but the settings and what the wizard has collected is saved.
Quiet == UNCHANGED <<files, written, kept>>
Saving(values) == Saves(values) /\ UNCHANGED <<override, around>>
Failing == SaveFails /\ UNCHANGED <<override, around>>

\* The values of a function of settings are known, and None is no such function.
LEMMA LayersAreThere ==
    ASSUME NEW K \in SUBSET Keys, NEW l, \A k \in K : l[k] \in Value[k]
    PROVE  [k \in K |-> l[k]] # None /\ IsLayer([k \in K |-> l[k]])
<1>1. [k \in K |-> l[k]] \in [K -> UNION {Value[k] : k \in Keys}]
  OBVIOUS
<1>2. IsLayer([k \in K |-> l[k]])
  BY DEF IsLayer
<1>. QED
  BY <1>1, <1>2, ConfigurationAssumption

\* The file written has the settings the environment does not set, and is the one read.
LEMMA SaveWrites ==
    ASSUME TypeOK, NEW values, IsSettings(values), Saving(values)
    PROVE  /\ ReadFile' = SavePath
           /\ files'[SavePath] = KeepFileValues(values)
           /\ Content(ReadFile)' = KeepFileValues(values)
           /\ DOMAIN files' = Files
           /\ \A f \in Files : files'[f] = None \/ IsLayer(files'[f])
           /\ written' \subseteq Files
           /\ kept' # None /\ IsLayer(kept')
<1>. DEFINE to == SavePath
            K == KeepFileValues(values)
            E == DOMAIN EnvironmentValues
            ours == {k \in DOMAIN Content(to) \cap E :
                       Content(to)[k] = None \/ Content(to)[k] # EnvironmentValues[k]}
<1>0. /\ to \in Files /\ DOMAIN files = Files
      /\ \A f \in Files : files[f] = None \/ IsLayer(files[f])
      /\ files' = [files EXCEPT ![to] = K] /\ override' = override /\ written' = written \cup {to}
      /\ IsLayer(Content(to)) /\ IsLayer(values) /\ DOMAIN values = Keys /\ written \subseteq Files
  BY ReadsAFile, ContentIsLayer DEF TypeOK, Saving, Saves, IsSettings
<1>1. K # None /\ IsLayer(K)
  <2>. DEFINE D == (Keys \ E) \cup ours
              l == [k \in D |-> IF k \in ours THEN Content(to)[k] ELSE values[k]]
  <2>1. K = l
    BY DEF KeepFileValues
  <2>2. D \in SUBSET Keys /\ \A k \in D : l[k] \in Value[k]
    BY <1>0 DEF IsLayer
  <2>3. l = [k \in D |-> l[k]]
    OBVIOUS
  <2>. HIDE DEF l, D
  <2>. QED
    BY <2>1, <2>2, <2>3, LayersAreThere
<1>. HIDE DEF K
<1>2. files'[to] = K /\ DOMAIN files' = Files /\ \A f \in Files \ {to} : files'[f] = files[f]
  BY <1>0
<1>3. ReadFile' = to
  BY <1>0, <1>1, <1>2 DEF ReadFile, SavePath, Files
<1>4. Content(ReadFile)' = K
  BY <1>1, <1>2, <1>3 DEF Content
<1>5. kept' # None /\ IsLayer(kept')
  <2>1. kept' = [k \in Keys \ E |-> values[k]]
    BY DEF Saving, Saves
  <2>. QED
    BY <1>0, <2>1, LayersAreThere DEF IsLayer
<1>6. \A f \in Files : files'[f] = None \/ IsLayer(files'[f])
  BY <1>0, <1>1, <1>2
<1>. QED
  BY <1>0, <1>2, <1>3, <1>4, <1>5, <1>6 DEF K

\* A save that fails leaves the file as it was, or empty.
LEMMA FailWrites ==
    ASSUME TypeOK, Failing
    PROVE  /\ DOMAIN files' = Files
           /\ \A f \in Files : files'[f] = files[f] \/ files'[f] = NoLayer
           /\ \A f \in Files : files'[f] = None \/ IsLayer(files'[f])
           /\ UNCHANGED written /\ kept' = None /\ ran' = None
BY DEF TypeOK, Failing, SaveFails, IsLayer, NoLayer

\* The next process reads what was saved, where the environment says nothing.
LEMMA SavedValues ==
    ASSUME TypeOK, NEW values, IsSettings(values), Saving(values),
           NEW k \in Keys \ DOMAIN EnvironmentValues
    PROVE  /\ FileSays(k)' /\ Content(ReadFile)'[k] = values[k]
           /\ GetSettings(around)'[k] = values[k]
<1>1. /\ Content(ReadFile)' = KeepFileValues(values)
      /\ values[k] \in Value[k] /\ values["mode"] # "web" /\ values["auto"] # "bad"
      /\ around' = around
  BY SaveWrites DEF IsSettings, IsLayer, Saving
<1>2. values[k] # "bad" /\ values[k] # "web"
  BY <1>1, ValueKinds
<1>3. k \in DOMAIN Content(ReadFile)' /\ Content(ReadFile)'[k] = values[k]
  BY <1>1 DEF KeepFileValues
<1>4. FileSays(k)'
  BY <1>2, <1>3 DEF FileSays
<1>5. k \notin DOMAIN around.env
  BY DEF EnvironmentValues
<1>. QED
  BY <1>1, <1>2, <1>3, <1>4, <1>5 DEF GetSettings, Understood

\* What the files are, whatever a step saves.
FilesOK ==
    /\ DOMAIN files = Files /\ \A f \in Files : files[f] = None \/ IsLayer(files[f])
    /\ written \subseteq Files
    /\ kept = None \/ IsLayer(kept)
    /\ SavedIsRead
    /\ ~leaked => \A f \in Files : ~HasKey(files[f])

\* A step that saves the settings, fails at it or does not save keeps the files in order.
LEMMA FilesStep ==
    ASSUME TypeOK, SavedIsRead, KeyIsOutside, UNCHANGED fixed, NEW values,
           \/ Quiet
           \/ /\ Saving(values) /\ IsSettings(values)
              /\ ~leaked /\ values["api_key"] = EnvKey => Here("api_key")
           \/ Failing
    PROVE  FilesOK'
<1>0. UNCHANGED <<override, leaked>>
  BY DEF fixed
<1>1. CASE Quiet
  BY <1>0, <1>1 DEF TypeOK, SavedIsRead, KeyIsOutside, FilesOK, FileSays, Content, ReadFile, HasKey,
                    Quiet
<1>2. CASE /\ Saving(values) /\ IsSettings(values)
           /\ ~leaked /\ values["api_key"] = EnvKey => Here("api_key")
  <2>1. /\ files'[SavePath] = KeepFileValues(values)
        /\ DOMAIN files' = Files
        /\ \A f \in Files : files'[f] = None \/ IsLayer(files'[f])
        /\ written' \subseteq Files /\ IsLayer(kept')
    BY <1>2, SaveWrites
  <2>2. SavedIsRead'
    <3>1. DOMAIN kept' = Keys \ DOMAIN EnvironmentValues
          /\ \A k \in DOMAIN kept' : kept'[k] = values[k]
      BY <1>2 DEF Saving, Saves
    <3>. QED
      BY <1>2, <3>1, SavedValues DEF SavedIsRead
  <2>3. ASSUME ~leaked, NEW f \in Files
        PROVE  ~HasKey(files'[f])
    <3>1. CASE f # SavePath
      BY <1>2, <2>3, <3>1 DEF Saving, Saves, TypeOK, KeyIsOutside
    <3>2. CASE f = SavePath
      <4>. DEFINE K == KeepFileValues(values)
      <4>1. files'[f] = K
        BY <2>1, <3>2
      <4>2. "api_key" \in DOMAIN K => K["api_key"] # EnvKey
        <5>1. "api_key" \in DOMAIN Content(SavePath) => Content(SavePath)["api_key"] # EnvKey
          BY <2>3, ReadsAFile DEF KeyIsOutside, HasKey, Content, NoLayer
        <5>. QED
          BY <1>2, <2>3, <5>1 DEF KeepFileValues, Here
      <4>. QED
        BY <4>1, <4>2 DEF HasKey
    <3>. QED
      BY <3>1, <3>2
  <2>. QED
    BY <1>0, <2>1, <2>2, <2>3 DEF FilesOK
<1>3. CASE Failing
  <2>1. \A f \in Files : files'[f] = files[f] \/ files'[f] = NoLayer
    BY <1>3, FailWrites
  <2>2. ~leaked => \A f \in Files : ~HasKey(files'[f])
    BY <2>1 DEF KeyIsOutside, HasKey, NoLayer
  <2>. QED
    BY <1>0, <1>3, <2>2, FailWrites DEF FilesOK, SavedIsRead, TypeOK
<1>. QED
  BY <1>1, <1>2, <1>3

\* The settings of a start depend on the files and its environment.
LEMMA SettingsStay ==
    ASSUME UNCHANGED <<files, override>>
    PROVE  GetSettings(around)' = GetSettings(around')
BY DEF GetSettings, FileSays, Content, ReadFile

\* What a start in the same environment finds after a save.
LEMMA SavedSettings ==
    ASSUME TypeOK, NEW values, IsSettings(values), Saving(values), Agrees(around)
    PROVE  \A k \in Keys :
               GetSettings(around)'[k] =
                   IF k \in DOMAIN around.env THEN GetSettings(around)[k] ELSE values[k]
<1>1. DOMAIN EnvironmentValues = DOMAIN around.env
  BY DEF EnvironmentValues, Agrees, NoLayer
<1>2. ASSUME NEW k \in DOMAIN around.env, k \in Keys
      PROVE  GetSettings(around)'[k] = GetSettings(around)[k]
  BY <1>2 DEF Saving, GetSettings
<1>. QED
  BY <1>1, <1>2, SavedValues

\* An environment that agrees gives no setting that is None.
LEMMA AgreesGives ==
    ASSUME TypeOK, Agrees(around), NEW k \in (DOMAIN around.env \cap Keys) \ {"mode"}
    PROVE  GetSettings(around)[k] # None
<1>1. around.env[k] \in Value[k] /\ around.env[k] # None
  BY Given DEF TypeOK, IsGiven, IsLayer, Agrees
<1>2. around.env[k] # "web"
  BY <1>1, ValueKinds
<1>. QED
  BY <1>1, <1>2 DEF GetSettings, Understood
-----------------------------------------------------------------------------
(* The steps *)

\* Most steps leave what the installation comes up as alone, and where the start is.
LEMMA StillSame ==
    ASSUME SetUp, StartsTheSame, UNCHANGED <<files, override, around, ran>>,
           \/ proc' = "off"
           \/ /\ mem' = mem
              /\ \/ proc' = proc
                 \/ proc # "off" /\ proc' \in {"serve", "serving", "refused"}
    PROVE  SetUp' /\ StartsTheSame'
<1>1. GetSettings(around)' = GetSettings(around)
  BY SettingsStay
<1>. QED
  BY <1>1 DEF SetUp, StartsTheSame, InFile, Agrees

\* A start reads the settings, and decides what it runs as.
LEMMA StartStep ==
    ASSUME ConfigInv, NEW e \in Environments, StartDesktop(e) \/ StartServer(e)
    PROVE  ConfigInv'
<1>. DEFINE m == GetSettings(e)
<1>0. /\ proc = "off" /\ starts < MaxStarts /\ starts' = starts + 1
      /\ around' = e /\ mem' = m
      /\ ran' = IF ran # None /\ ran.around = e THEN ran ELSE None
      /\ UNCHANGED <<files, override, leaked, prompt, written, kept>>
  BY DEF StartDesktop, StartServer, Begin, fixed
<1>1. FilesOK'
  <2>1. Quiet /\ UNCHANGED fixed
    BY <1>0 DEF Quiet, fixed
  <2>. QED
    BY <2>1, FilesStep DEF ConfigInv
<1>2. IsSettings(m)
  BY SettingsAreSettings DEF ConfigInv
<1>3. GetSettings(around)' = m
  BY <1>0, SettingsStay
<1>. HIDE DEF m
<1>4. \/ /\ proc' = "build" /\ DesktopComplete(m)
         /\ UNCHANGED <<step, draft>>
      \/ /\ proc' = "wizard" /\ ~DesktopComplete(m) /\ step' = "language"
         /\ draft' = [mode |-> "full", workspace |-> m.workspace,
                      server_url |-> m.server_url, api_key |-> m.api_key]
      \/ proc' \in {"serve", "console"} /\ UNCHANGED <<step, draft>>
  BY <1>0 DEF StartDesktop, StartServer, wizard, m
<1>5. TypeOK'
  <2>1. starts' \in 0..MaxStarts
    BY <1>0, ConfigurationAssumption DEF ConfigInv, TypeOK
  <2>2. /\ m["workspace"] \in Value["workspace"] /\ m["server_url"] \in Value["server_url"]
        /\ m["api_key"] \in Value["api_key"]
    BY <1>2 DEF IsSettings, IsLayer, Keys
  <2>3. draft' \in [mode : {"full", "thin"}, workspace : Value["workspace"],
                    server_url : Value["server_url"], api_key : Value["api_key"]]
    BY <1>4, <2>2 DEF ConfigInv, TypeOK
  <2>4. ran' \in Ran \cup {None}
    BY <1>0 DEF ConfigInv, TypeOK
  <2>. QED
    BY <1>0, <1>1, <1>2, <1>4, <2>1, <2>3, <2>4 DEF ConfigInv, TypeOK, IsSettings, FilesOK
<1>6. KeyIsOutside'
  <2>1. ASSUME ~leaked, m.api_key = EnvKey
        PROVE  "api_key" \in DOMAIN e.env \cup DOMAIN e.dotenv
    <3>1. FileSays("api_key") => Content(ReadFile)["api_key"] # EnvKey
      BY <2>1, ReadsAFile DEF ConfigInv, KeyIsOutside, HasKey, FileSays, Content, NoLayer
    <3>2. Default["api_key"] = None /\ EnvKey # None /\ "api_key" \in Keys
      BY ConfigurationAssumption DEF Default, Keys
    <3>. QED
      BY <2>1, <3>1, <3>2 DEF m, GetSettings, Understood
  <2>2. draft'.api_key = EnvKey => m.api_key = EnvKey
    BY <1>0, <1>4, ConfigurationAssumption DEF ConfigInv, Asked, NoDraft
  <2>. QED
    BY <1>0, <1>1, <2>1, <2>2 DEF KeyIsOutside, FilesOK, Here, EnvironmentValues
<1>7. Asked'
  BY <1>0, <1>4 DEF ConfigInv, Asked
<1>8. SetUp' /\ StartsTheSame'
  <2>1. ran' # None => ran' = ran /\ ran.around = e /\ around = e
    BY <1>0 DEF ConfigInv, SetUp
  <2>2. InFile'
    BY <1>0, <1>3 DEF InFile
  <2>3. ASSUME Agrees(around'), ran' # None
        PROVE  Suits(m, ran'.as)
    BY <1>0, <2>1, <2>3 DEF ConfigInv, SetUp, m
  <2>4. SetUp'
    BY <1>0, <1>3, <1>4, <2>1, <2>2, <2>3 DEF SetUp
  <2>5. StartsTheSame'
    BY <1>0, <1>4, <2>3 DEF StartsTheSame, Suits
  <2>. QED
    BY <2>4, <2>5
<1>. QED
  BY <1>1, <1>5, <1>6, <1>7, <1>8 DEF ConfigInv, FilesOK

\* build_runtime comes up as what is recorded, and records it the first time.
LEMMA BuildStep ==
    ASSUME ConfigInv, Build
    PROVE  ConfigInv'
<1>0. /\ proc = "build"
      /\ UNCHANGED <<files, mem, override, leaked, around, step, draft, prompt, starts, written,
                     kept>>
      /\ DesktopComplete(mem)
  BY DEF Build, settings, fixed, wizard, ConfigInv, SetUp
<1>1. \/ proc' = "refused" /\ ran' = ran
      \/ /\ proc' \in {"full", "thin"}
         /\ proc' = "thin" <=> Mode = "thin"
         /\ IF proc' = "thin" THEN mem.server_url # None ELSE mem.workspace # None
         /\ ran' = IF ran = None /\ mem.mode \in {"full", "thin"}
                   THEN [around |-> around, as |-> proc'] ELSE ran
      \/ /\ proc' = "crashed" /\ ran' = ran
         /\ IF Mode = "thin" THEN mem.server_url = None ELSE mem.workspace = None
  BY DEF Build, Came
<1>2. FilesOK'
  <2>1. Quiet /\ UNCHANGED fixed
    BY <1>0 DEF Quiet, fixed
  <2>. QED
    BY <2>1, FilesStep DEF ConfigInv
<1>3. ran' \in Ran \cup {None} /\ proc' \in {"full", "thin", "refused", "crashed"}
  BY <1>1 DEF Ran, ConfigInv, TypeOK
<1>4. TypeOK'
  BY <1>0, <1>2, <1>3 DEF ConfigInv, TypeOK
<1>5. KeyIsOutside' /\ Asked'
  BY <1>0, <1>1, <1>2 DEF ConfigInv, KeyIsOutside, Asked, Here, EnvironmentValues, FilesOK
<1>6. SetUp' /\ StartsTheSame'
  <2>1. GetSettings(around)' = GetSettings(around) /\ (Agrees(around)' <=> Agrees(around))
    BY <1>0, SettingsStay DEF Agrees
  <2>2. CASE ran' = ran
    <3>1. ASSUME ran # None, Agrees(around), proc' # "refused"
          PROVE  proc' = ran.as
      <4>1. Suits(mem, ran.as)
        BY <1>0, <3>1 DEF ConfigInv, SetUp
      <4>2. ran.as \in {"full", "thin"}
        BY <3>1 DEF ConfigInv, TypeOK, Ran
      <4>. QED
        BY <1>1, <3>1, <4>1, <4>2, NoneIsNoString DEF Suits, Mode
    <3>2. SetUp'
      BY <1>0, <1>3, <2>1, <2>2 DEF ConfigInv, SetUp, InFile
    <3>3. StartsTheSame'
      <4>1. ran # None => ran.as \in {"full", "thin"}
        BY DEF ConfigInv, TypeOK, Ran
      <4>. QED
        BY <1>0, <1>3, <2>1, <2>2, <3>1, <4>1 DEF StartsTheSame
    <3>. QED
      BY <3>2, <3>3
  <2>3. CASE /\ ran = None /\ mem.mode \in {"full", "thin"}
             /\ proc' \in {"full", "thin"}
             /\ proc' = "thin" <=> Mode = "thin"
             /\ IF proc' = "thin" THEN mem.server_url # None ELSE mem.workspace # None
             /\ ran' = [around |-> around, as |-> proc']
    <3>1. mem.mode = proc'
      BY <2>3, NoneIsNoString DEF Mode
    <3>2. ASSUME Agrees(around)
          PROVE  Suits(GetSettings(around), proc') /\ InFile
      <4>1. InFile
        BY <1>0, <3>2 DEF ConfigInv, SetUp
      <4>2. "mode" \notin DOMAIN around.env
        BY <3>2 DEF Agrees
      <4>3. \A k \in {"workspace", "server_url", "api_key"} :
                mem[k] # None => GetSettings(around)[k] # None
        BY <3>2, <4>1, AgreesGives DEF ConfigInv, InFile, Keys
      <4>4. GetSettings(around).mode = mem.mode
        BY <4>1, <4>2 DEF InFile, Keys
      <4>. QED
        BY <1>0, <2>3, <3>1, <4>1, <4>3, <4>4 DEF Suits, DesktopComplete
    <3>3. SetUp'
      BY <1>0, <2>1, <2>3, <3>2 DEF SetUp, InFile
    <3>4. StartsTheSame'
      BY <2>3 DEF StartsTheSame
    <3>. QED
      BY <3>3, <3>4
  <2>. QED
    BY <1>1, <2>2, <2>3
<1>. QED
  BY <1>2, <1>4, <1>5, <1>6 DEF ConfigInv, FilesOK

\* The steps that save nothing, and start nothing either.
LEMMA StillStep ==
    ASSUME ConfigInv,
           \/ Quit \/ ConfirmLanguage \/ Back \/ Ensure \/ Installed
           \/ \E m \in {"full", "thin"} : ChooseMode(m)
           \/ \E w \in Value["workspace"] \ {None} : ConfirmWorkspace(w)
    PROVE  ConfigInv'
<1>1. CASE Quit
  <2>0. /\ proc' = "off" /\ mem' = Default /\ step' = "none" /\ draft' = NoDraft
        /\ prompt' \in {"installed", "none"}
        /\ UNCHANGED <<files, override, leaked, around, starts, written, kept, ran>>
    BY <1>1 DEF Quit, fixed, history
  <2>1. FilesOK'
    <3>1. Quiet /\ UNCHANGED fixed
      BY <2>0 DEF Quiet, fixed
    <3>. QED
      BY <3>1, FilesStep DEF ConfigInv
  <2>2. IsSettings(Default)
    BY NoneIsNoString DEF IsSettings, IsLayer, Default, Keys, Value
  <2>3. NoDraft \in [mode : {"full", "thin"}, workspace : Value["workspace"],
                     server_url : Value["server_url"], api_key : Value["api_key"]]
    BY NoneIsAValue DEF NoDraft, Keys
  <2>4. TypeOK'
    BY <2>0, <2>1, <2>2, <2>3 DEF ConfigInv, TypeOK, IsSettings, FilesOK
  <2>5. KeyIsOutside'
    BY <2>0, <2>1, ConfigurationAssumption DEF KeyIsOutside, FilesOK, Default, NoDraft
  <2>6. Asked'
    BY <2>0 DEF Asked
  <2>7. SetUp' /\ StartsTheSame'
    BY <2>0, StillSame DEF ConfigInv
  <2>. QED
    BY <2>1, <2>4, <2>5, <2>6, <2>7 DEF ConfigInv, FilesOK
<1>2. CASE ~Quit
  <2>0. /\ UNCHANGED <<files, mem, override, leaked, around, proc, starts, written, kept, ran>>
    BY <1>2 DEF ConfirmLanguage, Back, ChooseMode, ConfirmWorkspace, Shows, Ensure, Installed,
                OnDesktop, settings, fixed, history
  <2>1. FilesOK'
    <3>1. Quiet /\ UNCHANGED fixed
      BY <2>0 DEF Quiet, fixed
    <3>. QED
      BY <3>1, FilesStep DEF ConfigInv
  <2>2. SetUp' /\ StartsTheSame'
    BY <2>0, StillSame DEF ConfigInv
  <2>3. CASE Ensure \/ Installed
    <3>1. prompt' \in {"none", "asking", "installing", "installed"} /\ UNCHANGED <<step, draft>>
      BY <2>3 DEF Ensure, Installed, OnDesktop, wizard
    <3>2. TypeOK'
      BY <2>0, <2>1, <3>1 DEF ConfigInv, TypeOK, FilesOK
    <3>3. KeyIsOutside' /\ Asked'
      BY <2>0, <2>1, <3>1 DEF ConfigInv, KeyIsOutside, Asked, FilesOK, Here, EnvironmentValues
    <3>. QED
      BY <2>1, <2>2, <3>2, <3>3 DEF ConfigInv, FilesOK
  <2>4. CASE ~(Ensure \/ Installed)
    <3>1. /\ prompt' = prompt /\ proc = "wizard"
          /\ step' \in {"language", "mode", "workspace", "key", "server"}
          /\ draft' \in [mode : {"full", "thin"}, workspace : Value["workspace"],
                         server_url : Value["server_url"], api_key : Value["api_key"]]
          /\ draft'.api_key = draft.api_key
          /\ step' \in {"workspace", "key"} => draft'.mode = "full"
          /\ step' = "key" => draft'.workspace # None
          /\ step' = "server" => draft'.mode = "thin"
      BY <1>2, <2>4
      DEF ConfirmLanguage, Back, ChooseMode, ConfirmWorkspace, Shows, ConfigInv, TypeOK, Asked
    <3>2. TypeOK'
      BY <2>0, <2>1, <3>1 DEF ConfigInv, TypeOK, FilesOK
    <3>3. KeyIsOutside' /\ Asked'
      BY <2>0, <2>1, <3>1 DEF ConfigInv, KeyIsOutside, Asked, FilesOK, Here, EnvironmentValues
    <3>. QED
      BY <2>1, <2>2, <3>2, <3>3 DEF ConfigInv, FilesOK
  <2>. QED
    BY <2>3, <2>4
<1>. QED
  BY <1>1, <1>2

\* The wizard ends: what it has asked is complete, and is saved or not.
LEMMA FinishStep ==
    ASSUME ConfigInv, NEW key \in Value["api_key"], ConfirmKey(key) \/ ConfirmServer("u", key)
    PROVE  ConfigInv'
<1>1. PICK d \in [mode : {"full", "thin"}, workspace : Value["workspace"],
                  server_url : Value["server_url"], api_key : Value["api_key"]] :
        /\ Finish(d)
        /\ d.api_key = EnvKey => draft.api_key = EnvKey
        /\ IF d.mode = "full" THEN step = "key" /\ d.workspace # None
           ELSE step = "server" /\ d.server_url # None /\ d.api_key # None
  <2>1. CASE ConfirmKey(key)
    <3>. DEFINE d == [draft EXCEPT !.api_key = key]
    <3>1. d \in [mode : {"full", "thin"}, workspace : Value["workspace"],
                 server_url : Value["server_url"], api_key : Value["api_key"]]
      BY DEF ConfigInv, TypeOK
    <3>2. d.api_key = EnvKey => draft.api_key = EnvKey
      BY <2>1, ConfigurationAssumption DEF ConfirmKey, ConfigInv, TypeOK
    <3>3. d.mode = "full" /\ step = "key" /\ d.workspace # None
      BY <2>1 DEF ConfirmKey, ConfigInv, Asked, TypeOK
    <3>. QED
      BY <2>1, <3>1, <3>2, <3>3 DEF ConfirmKey
  <2>2. CASE ConfirmServer("u", key)
    <3>. DEFINE d == [draft EXCEPT !.server_url = "u", !.api_key = key]
    <3>1. d \in [mode : {"full", "thin"}, workspace : Value["workspace"],
                 server_url : Value["server_url"], api_key : Value["api_key"]]
      BY DEF ConfigInv, TypeOK, Value
    <3>2. d.api_key = EnvKey => draft.api_key = EnvKey
      BY <2>2, ConfigurationAssumption DEF ConfirmServer, ConfigInv, TypeOK
    <3>3. d.mode = "thin" /\ step = "server" /\ d.server_url # None /\ d.api_key # None
      BY <2>2 DEF ConfirmServer, ConfigInv, Asked, TypeOK
    <3>. QED
      BY <2>2, <3>1, <3>2, <3>3 DEF ConfirmServer
  <2>. QED
    BY <2>1, <2>2
<1>. DEFINE m == [mem EXCEPT
                    !.mode = d.mode, !.api_key = d.api_key,
                    !.workspace = IF d.mode = "full" THEN d.workspace ELSE None,
                    !.server_url = IF d.mode = "full" THEN None ELSE d.server_url]
<1>2. /\ mem' = m /\ draft' = d /\ proc = "wizard"
      /\ UNCHANGED <<override, leaked, around, prompt, starts>>
      /\ \/ Saving(m) /\ proc' = "build" /\ step' = "none" /\ ran' = None
         \/ Failing /\ UNCHANGED <<proc, step>>
  BY <1>1 DEF Finish, fixed, Saving, Failing
<1>3. /\ DOMAIN m = Keys
      /\ m["mode"] = d.mode /\ m["api_key"] = d.api_key /\ m["auto"] = mem["auto"]
      /\ m["workspace"] = IF d.mode = "full" THEN d.workspace ELSE None
      /\ m["server_url"] = IF d.mode = "full" THEN None ELSE d.server_url
  BY DEF ConfigInv, TypeOK, Keys
<1>. HIDE DEF m
<1>4. IsSettings(m)
  <2>1. \A k \in Keys : m[k] \in Value[k]
    <3>1. m["mode"] \in Value["mode"] /\ m["workspace"] \in Value["workspace"]
          /\ m["server_url"] \in Value["server_url"]
      BY <1>1, <1>3 DEF Value
    <3>2. m["api_key"] \in Value["api_key"] /\ m["auto"] \in Value["auto"]
      BY <1>1, <1>3 DEF ConfigInv, TypeOK, IsLayer, Keys
    <3>. QED
      BY <3>1, <3>2 DEF Keys
  <2>. QED
    BY <1>1, <1>3, <2>1 DEF IsSettings, IsLayer, ConfigInv, TypeOK
<1>5. FilesOK'
  <2>1. ~leaked /\ m["api_key"] = EnvKey => Here("api_key")
    BY <1>1, <1>3 DEF ConfigInv, KeyIsOutside
  <2>. QED
    BY <1>2, <1>4, <2>1, FilesStep DEF ConfigInv, fixed
<1>6. ran' = None
  BY <1>2, FailWrites DEF ConfigInv
<1>7. TypeOK'
  BY <1>1, <1>2, <1>4, <1>5, <1>6 DEF ConfigInv, TypeOK, IsSettings, FilesOK
<1>8. KeyIsOutside'
  BY <1>1, <1>2, <1>3, <1>5 DEF ConfigInv, KeyIsOutside, FilesOK, Here, EnvironmentValues
<1>9. Asked'
  BY <1>1, <1>2 DEF ConfigInv, Asked
<1>10. StartsTheSame'
  BY <1>6 DEF StartsTheSame
<1>11. SetUp'
  <2>1. proc' = "build" => DesktopComplete(m)
    BY <1>1, <1>3 DEF DesktopComplete
  <2>2. ASSUME Agrees(around), proc' = "build"
        PROVE  InFile'
    <3>1. Saving(m)
      BY <1>2, <2>2
    <3>2. \A k \in Keys \ DOMAIN around.env : GetSettings(around)'[k] = m[k]
      BY <1>4, <2>2, <3>1, SavedSettings DEF ConfigInv
    <3>. QED
      BY <1>2, <3>2 DEF InFile
  <2>. QED
    BY <1>2, <1>6, <2>1, <2>2 DEF SetUp, Agrees
<1>. QED
  BY <1>5, <1>7, <1>8, <1>9, <1>10, <1>11 DEF ConfigInv, FilesOK

\* What is saved later takes nothing away, and leaves the mode.
LEMMA SavedSame ==
    ASSUME ConfigInv, NEW m, IsSettings(m), Saving(m), mem' = m, ran' = ran,
           m["mode"] = mem["mode"],
           \A k \in {"workspace", "server_url", "api_key"} : m[k] = mem[k] \/ m[k] # None,
           proc \notin {"build", "off"}, proc' \in {proc, "serve", "serving"}
    PROVE  SetUp' /\ StartsTheSame'
<1>0. around' = around
  BY DEF Saving
<1>1. ASSUME Agrees(around), ran # None
      PROVE  InFile' /\ Suits(GetSettings(around)', ran.as)
  <2>. DEFINE old == GetSettings(around)
              new == GetSettings(around)'
  <2>1. /\ \A k \in Keys : new[k] = IF k \in DOMAIN around.env THEN old[k] ELSE m[k]
        /\ \A k \in Keys \ DOMAIN around.env : old[k] = mem[k]
        /\ Suits(old, ran.as) /\ "mode" \notin DOMAIN around.env
    BY <1>1, SavedSettings DEF ConfigInv, SetUp, InFile, Agrees
  <2>. HIDE DEF old, new
  <2>2. /\ new["mode"] = old["mode"]
        /\ \A k \in {"workspace", "server_url", "api_key"} : new[k] = old[k] \/ new[k] # None
    BY <2>1 DEF Keys
  <2>3. Suits(new, ran.as)
    BY <2>1, <2>2 DEF Suits, DesktopComplete
  <2>4. InFile'
    BY <1>0, <2>1 DEF InFile, new
  <2>. QED
    BY <2>3, <2>4 DEF new
<1>2. SetUp'
  BY <1>0, <1>1, SettingsStay DEF ConfigInv, SetUp, Agrees
<1>3. StartsTheSame'
  BY <1>0 DEF ConfigInv, StartsTheSame, Agrees
<1>. QED
  BY <1>2, <1>3

\* The server: what is missing is asked on the console, and a key that was skipped made.
LEMMA ServerStep ==
    ASSUME ConfigInv, Server
    PROVE  ConfigInv'
<1>1. /\ proc \in {"console", "serve"}
      /\ UNCHANGED <<override, leaked, around, step, draft, prompt, starts>>
      /\ \/ /\ UNCHANGED <<files, mem, written, kept, ran>>
            /\ proc' \in {"serve", "serving", "refused"}
         \/ /\ Saving(mem') /\ proc' \in {"serve", "serving"}
            /\ ran' = None \/ (ran' = ran /\ mem.api_key = None
                                  /\ mem' = [mem EXCEPT !.api_key = "generated"])
         \/ Failing /\ proc' = "crashed"
  BY DEF Server, ConsoleWizard, RunServer, Saving, Failing, fixed, wizard, settings, history
<1>2. /\ IsSettings(mem') /\ (mem'.api_key = EnvKey => mem.api_key = EnvKey)
  <2>. DEFINE Sets(m) == /\ DOMAIN m = Keys
                         /\ m["mode"] \in {mem["mode"], "server"}
                         /\ m["workspace"] \in {mem["workspace"]} \cup Value["workspace"]
                         /\ m["api_key"] \in {mem["api_key"], "typed", "generated", None}
                         /\ m["server_url"] = mem["server_url"] /\ m["auto"] = mem["auto"]
  <2>1. Sets(mem')
    BY DEF Server, ConsoleWizard, RunServer, settings, ConfigInv, TypeOK, Keys
  <2>2. ASSUME NEW m, Sets(m)
        PROVE  IsSettings(m) /\ (m["api_key"] = EnvKey => mem["api_key"] = EnvKey)
    <3>1. \A k \in Keys : mem[k] \in Value[k]
      BY DEF ConfigInv, TypeOK, IsLayer
    <3>2. /\ m["workspace"] \in Value["workspace"] /\ m["server_url"] \in Value["server_url"]
          /\ m["api_key"] \in Value["api_key"] /\ m["mode"] \in Value["mode"]
          /\ m["auto"] \in Value["auto"]
      BY <2>2, <3>1 DEF Keys, Value
    <3>3. IsLayer(m)
      BY <2>2, <3>2 DEF IsLayer, Keys
    <3>. QED
      BY <2>2, <3>3, ConfigurationAssumption DEF IsSettings, ConfigInv, TypeOK
  <2>. QED
    BY <2>1, <2>2
<1>3. FilesOK'
  <2>1. ~leaked /\ mem'["api_key"] = EnvKey => Here("api_key")
    BY <1>2 DEF ConfigInv, KeyIsOutside
  <2>2. UNCHANGED fixed
    BY <1>1 DEF fixed
  <2>. QED
    BY <1>1, <1>2, <2>1, <2>2, FilesStep DEF ConfigInv, Quiet
<1>4. ran' \in {ran, None} /\ proc' \in {"serve", "serving", "refused", "crashed"}
  BY <1>1, FailWrites DEF ConfigInv
<1>5. TypeOK'
  BY <1>1, <1>2, <1>3, <1>4 DEF ConfigInv, TypeOK, IsSettings, FilesOK
<1>6. KeyIsOutside' /\ Asked'
  BY <1>1, <1>2, <1>3, <1>4 DEF ConfigInv, KeyIsOutside, Asked, FilesOK, Here, EnvironmentValues
<1>7. SetUp' /\ StartsTheSame'
  <2>1. CASE ran' = None
    BY <1>4, <2>1 DEF SetUp, StartsTheSame
  <2>2. CASE /\ UNCHANGED <<files, mem, written, kept, ran>>
             /\ proc' \in {"serve", "serving", "refused"}
    BY <1>1, <2>2, StillSame DEF ConfigInv
  <2>3. CASE /\ Saving(mem') /\ proc' \in {"serve", "serving"}
             /\ ran' = ran /\ mem.api_key = None /\ mem' = [mem EXCEPT !.api_key = "generated"]
    <3>1. /\ mem'["mode"] = mem["mode"]
          /\ \A k \in {"workspace", "server_url", "api_key"} : mem'[k] = mem[k] \/ mem'[k] # None
      BY <2>3, NoneIsNoString DEF ConfigInv, TypeOK, Keys
    <3>. QED
      BY <1>1, <1>2, <2>3, <3>1, SavedSame
  <2>. QED
    BY <1>1, <2>1, <2>2, <2>3, FailWrites DEF ConfigInv
<1>. QED
  BY <1>3, <1>5, <1>6, <1>7 DEF ConfigInv, FilesOK

\* The settings page and the installer change a setting that has been there.
LEMMA PageStep ==
    ASSUME ConfigInv,
           \/ \E w \in Value["workspace"] \ {None} : Apply("workspace", w)
           \/ \E v \in {"no", "yes"} : Apply("auto", v)
           \/ RestoreDefaults
           \/ \E accepted, remember \in BOOLEAN : Answer(accepted, remember)
    PROVE  ConfigInv'
<1>0. /\ proc \in {"full", "thin"} /\ prompt' \in {"none", "asking", "installing", "installed"}
      /\ UNCHANGED <<override, leaked, around, proc, step, draft, starts>>
  BY DEF Apply, RestoreDefaults, Answer, OnDesktop, fixed, wizard, ConfigInv, TypeOK
<1>1. CASE UNCHANGED <<files, mem, written, kept, ran>>
  <2>1. FilesOK'
    <3>1. Quiet /\ UNCHANGED fixed
      BY <1>0, <1>1 DEF Quiet, fixed
    <3>. QED
      BY <3>1, FilesStep DEF ConfigInv
  <2>2. SetUp' /\ StartsTheSame'
    BY <1>0, <1>1, StillSame DEF ConfigInv
  <2>3. TypeOK'
    BY <1>0, <1>1, <2>1 DEF ConfigInv, TypeOK, FilesOK
  <2>4. KeyIsOutside' /\ Asked'
    BY <1>0, <1>1, <2>1 DEF ConfigInv, KeyIsOutside, Asked, FilesOK, Here, EnvironmentValues
  <2>. QED
    BY <2>1, <2>2, <2>3, <2>4 DEF ConfigInv, FilesOK
<1>2. ASSUME NEW k, NEW v, Keeps([mem EXCEPT ![k] = v]),
             \/ k = "workspace" /\ v \in Value["workspace"] \ {None}
             \/ k = "auto" /\ v \in {"no", "yes"}
      PROVE  ConfigInv'
  <2>. DEFINE m == [mem EXCEPT ![k] = v]
  <2>1. /\ mem' = m
        /\ \/ Saving(m) /\ ran' = ran
           \/ Failing /\ ran' = None
    BY <1>0, <1>2 DEF Keeps, Saving, Failing, SaveFails
  <2>2. /\ DOMAIN m = Keys /\ m["mode"] = mem["mode"] /\ m["api_key"] = mem["api_key"]
        /\ m["server_url"] = mem["server_url"]
        /\ m["workspace"] = mem["workspace"] \/ m["workspace"] \in Value["workspace"] \ {None}
        /\ m["auto"] = mem["auto"] \/ m["auto"] \in {"no", "yes"}
    BY <1>2 DEF ConfigInv, TypeOK, Keys
  <2>. HIDE DEF m
  <2>3. IsSettings(m)
    <3>1. \A j \in Keys : mem[j] \in Value[j]
      BY DEF ConfigInv, TypeOK, IsLayer
    <3>2. /\ m["workspace"] \in Value["workspace"] /\ m["server_url"] \in Value["server_url"]
          /\ m["api_key"] \in Value["api_key"] /\ m["mode"] \in Value["mode"]
          /\ m["auto"] \in Value["auto"]
      BY <2>2, <3>1 DEF Keys, Value
    <3>3. IsLayer(m)
      BY <2>2, <3>2 DEF IsLayer, Keys
    <3>. QED
      BY <2>2, <3>3 DEF IsSettings, ConfigInv, TypeOK
  <2>4. FilesOK'
    <3>1. ~leaked /\ m["api_key"] = EnvKey => Here("api_key")
      BY <2>2 DEF ConfigInv, KeyIsOutside
    <3>. QED
      BY <1>0, <2>1, <2>3, <3>1, FilesStep DEF ConfigInv, fixed
  <2>5. TypeOK'
    BY <1>0, <2>1, <2>3, <2>4 DEF ConfigInv, TypeOK, IsSettings, FilesOK
  <2>6. KeyIsOutside' /\ Asked'
    BY <1>0, <2>1, <2>2, <2>4 DEF ConfigInv, KeyIsOutside, Asked, FilesOK, Here, EnvironmentValues
  <2>7. SetUp' /\ StartsTheSame'
    <3>1. CASE ran' = None
      BY <1>0, <3>1 DEF SetUp, StartsTheSame
    <3>2. CASE Saving(m) /\ ran' = ran
      <4>1. \A j \in {"workspace", "server_url", "api_key"} : m[j] = mem[j] \/ m[j] # None
        BY <2>2
      <4>. QED
        BY <1>0, <2>1, <2>2, <2>3, <3>2, <4>1, SavedSame
    <3>. QED
      BY <2>1, <3>1, <3>2
  <2>. QED
    BY <2>4, <2>5, <2>6, <2>7 DEF ConfigInv, FilesOK
<1>3. Default.auto = "no"
  BY DEF Default
<1>4. CASE \/ \E w \in Value["workspace"] \ {None} : Apply("workspace", w)
           \/ \E v \in {"no", "yes"} : Apply("auto", v)
  BY <1>2, <1>4 DEF Apply
<1>5. CASE RestoreDefaults
  BY <1>2, <1>3, <1>5 DEF RestoreDefaults
<1>6. ASSUME NEW accepted \in BOOLEAN, NEW remember \in BOOLEAN, Answer(accepted, remember)
      PROVE  ConfigInv'
  <2>1. CASE Keeps([mem EXCEPT !["auto"] = "yes"])
    BY <1>2, <2>1
  <2>2. CASE UNCHANGED <<settings, history>>
    BY <1>1, <2>2 DEF settings, history
  <2>. QED
    BY <1>6, <2>1, <2>2 DEF Answer
<1>. QED
  BY <1>4, <1>5, <1>6

\* Any installation the program may find satisfies the invariant.
LEMMA FirstConfiguration ==
    Init => ConfigInv
<1>. SUFFICES ASSUME Init
              PROVE  ConfigInv
  OBVIOUS
<1>1. IsSettings(Default)
  BY NoneIsNoString DEF IsSettings, IsLayer, Default, Keys, Value
<1>2. NoDraft \in [mode : {"full", "thin"}, workspace : Value["workspace"],
                   server_url : Value["server_url"], api_key : Value["api_key"]]
  BY NoneIsAValue DEF NoDraft, Keys
<1>3. DOMAIN files = Files /\ \A f \in Files : files[f] = None \/ IsLayer(files[f])
  BY ConfigurationAssumption DEF Init
<1>4. leaked \in BOOLEAN
  BY DEF Init
<1>5. TypeOK
  BY <1>1, <1>2, <1>3, <1>4, ConfigurationAssumption DEF Init, TypeOK, IsSettings
<1>6. SavedIsRead /\ Asked /\ SetUp /\ StartsTheSame
  BY DEF Init, SavedIsRead, Asked, SetUp, StartsTheSame, NoDraft
<1>7. KeyIsOutside
  BY ConfigurationAssumption DEF Init, KeyIsOutside, Default, NoDraft
<1>. QED
  BY <1>5, <1>6, <1>7 DEF ConfigInv

\* The inductive invariant: with the types and the properties, what the wizard has asked
\* and what of the settings in memory the next start will find.
THEOREM ConfigurationInductive == Spec => []ConfigInv
<1>1. ConfigInv /\ [Next]_vars => ConfigInv'
  <2>. SUFFICES ASSUME ConfigInv, [Next]_vars
                PROVE  ConfigInv'
    OBVIOUS
  <2>1. CASE UNCHANGED vars
    <3>1. UNCHANGED <<files, override, leaked, around, mem, proc, step, draft, prompt, starts,
                      written, kept, ran>>
      BY <2>1 DEF vars, settings, fixed, wizard, history
    <3>2. FilesOK'
      <4>1. Quiet /\ UNCHANGED fixed
        BY <3>1 DEF Quiet, fixed
      <4>. QED
        BY <4>1, FilesStep DEF ConfigInv
    <3>3. SetUp' /\ StartsTheSame'
      BY <3>1, StillSame DEF ConfigInv
    <3>4. TypeOK' /\ KeyIsOutside' /\ Asked'
      BY <3>1, <3>2 DEF ConfigInv, TypeOK, KeyIsOutside, Asked, FilesOK, Here, EnvironmentValues
    <3>. QED
      BY <3>2, <3>3, <3>4 DEF ConfigInv, FilesOK
  <2>2. CASE Next
    <3>1. "u" \in Value["server_url"]
      BY DEF Value
    <3>. QED
      BY <2>2, StartStep, BuildStep, StillStep, FinishStep, ServerStep, PageStep
      DEF Next, Wizard, Page
  <2>. QED
    BY <2>1, <2>2
<1>. QED
  BY <1>1, FirstConfiguration, PTL DEF Spec

\* Type correctness of the files, the settings and the wizards.
THEOREM ConfigurationTypes == Spec => []TypeOK
<1>1. ConfigInv => TypeOK
  BY DEF ConfigInv
<1>. QED
  BY <1>1, ConfigurationInductive, PTL

\* What Settings.save wrote is what the next process reads, for any files and environments.
THEOREM WhatIsSavedIsRead == Spec => []SavedIsRead
<1>1. ConfigInv => SavedIsRead
  BY DEF ConfigInv
<1>. QED
  BY <1>1, ConfigurationInductive, PTL

\* A key that only the environment has never gets into a file that the program writes, by
\* any path through the wizards, the settings page, the server and failed saves.
THEOREM KeyStaysOut == Spec => []EnvironmentStaysOut
<1>1. ConfigInv => EnvironmentStaysOut
  BY DEF ConfigInv, KeyIsOutside, EnvironmentStaysOut, TypeOK
<1>. QED
  BY <1>1, ConfigurationInductive, PTL

\* A desktop that was set up comes up as the same in an environment that stays and agrees,
\* for any number of starts and any environments in between.
THEOREM ComesUpTheSame == Spec => []StartsTheSame
<1>1. ConfigInv => StartsTheSame
  BY DEF ConfigInv
<1>. QED
  BY <1>1, ConfigurationInductive, PTL

------------------------------------------------------------------------------
(* The inductive invariant of ViewScopes *)

\* Whoever waits has a scope to wait for, and whoever asks a chronicle.
Waits(a) ==
    /\ pc[a] \in {"idle", "deleting", "stopping"} => at[a] = 0
    /\ pc[a] \in {"closing", "asking", "releasing"} => at[a] \in Scopes
    /\ pc[a] = "asking" <=> wanted[a] # NoChronicle
Waiting == \A a \in Actors : Waits(a)

\* The scopes in use are made, and the model list has one of its own.
Made ==
    /\ scope <= made /\ models <= made
    /\ scope = models => scope = 0
    /\ \A a \in Actors : at[a] <= made /\ (at[a] = models => models = 0)

\* One actor at a time is in an update, as long as none began in another's.
Alone == \A a, b \in Actors : Updating(a) /\ Updating(b) => a = b

\* A scope that is being closed is the view's, and one actor closes it.
Closing(a) == pc[a] \in {"closing", "releasing"}
ClosesScope ==
    /\ \A a \in Actors : Closing(a) => at[a] = scope /\ session[scope] = "closing"
    /\ \A a, b \in Actors : Closing(a) /\ Closing(b) => a = b

\* The scopes with a connection, whether the window is closed or not.
Counted == \A s \in Scopes : Open(s) => s \in {scope, models} \cup late

SessionInv == (~overlapped => Alone) /\ ClosesScope /\ Counted

\* Nothing goes on in a window that was closed while nothing went on but one cleanup.
Cleaning(a) == pc[a] \in {"stopping", "releasing"}
AfterEnd ==
    /\ \A a \in Actors : ~Updating(a)
    /\ \A a, b \in Actors : Cleaning(a) /\ Cleaning(b) => a = b
    /\ app = "closed" => scope = 0 /\ \A a \in Actors : pc[a] # "releasing"
Ended ==
    /\ app \in {"new", "running"} => \A a \in Actors : ~Cleaning(a)
    /\ app \in {"closing", "closed"} /\ ~crossed => AfterEnd

\* What was put on screen last is the place the state names.
IsShown ==
    /\ shown.view = view
    /\ shown.chronicle = IF view = "transcript" THEN selected ELSE NoChronicle
    /\ shown.scope = scope

\* As long as no update failed or began inside another.
Placed ==
    /\ lit = IF view = "transcript" THEN "archive" ELSE view
    /\ \A a \in Actors : pc[a] = "asking" =>
          view = "transcript" /\ selected = wanted[a] /\ at[a] = scope
    /\ (\A a \in Actors : pc[a] \notin {"closing", "asking"}) => IsShown
    /\ \A a \in Actors : pc[a] = "deleting" => view = "transcript"
PlaceIsKept == app = "running" /\ ~overlapped /\ ~failed => Placed

\* Before the window has started nothing is under way.
NotStarted ==
    app = "new" =>
        /\ view = "archive" /\ lit = "archive"
        /\ \A a \in Actors : pc[a] = "idle"

ViewsInv ==
    ViewsTypeOK /\ Waiting /\ Made /\ SessionInv /\ Ended /\ NotStarted /\ PlaceIsKept
-----------------------------------------------------------------------------
(* Types *)

Sessions == [Scopes -> {"idle", "connecting", "open", "closing"}]
Places == Chronicles \cup {NoChronicle}

\* What is left of the types when a step has gone through an update.
Aside ==
    /\ lit \in Views \ {"transcript"}
    /\ models \in 0..MaxScopes
    /\ exists \subseteq Chronicles
    /\ app \in {"new", "running", "closing", "closed"}
    /\ failed \in BOOLEAN /\ overlapped \in BOOLEAN
    /\ late \subseteq Scopes
    /\ closings \in 0..2 /\ crossed \in BOOLEAN
ActorTypes ==
    /\ pc \in [Actors -> {"idle", "closing", "asking", "deleting", "stopping", "releasing"}]
    /\ at \in [Actors -> 0..MaxScopes]
    /\ wanted \in [Actors -> Places]
PlaceTypes ==
    /\ view \in Views /\ selected \in Places
    /\ shown \in [view : Views \cup {"none"}, chronicle : Places, scope : 0..MaxScopes]
    /\ editing \in BOOLEAN
ScopeTypes ==
    /\ scope \in 0..MaxScopes /\ made \in 0..MaxScopes
    /\ session \in Sessions
    /\ loads \in [Scopes -> 0..3]

\* The types, by what a step changes together.
LEMMA TypeParts == ViewsTypeOK <=> Aside /\ ActorTypes /\ PlaceTypes /\ ScopeTypes
BY DEF ViewsTypeOK, Aside, ActorTypes, PlaceTypes, ScopeTypes, Sessions, Places

\* The same, for the state after a step.
LEMMA TypePartsNext == Aside' /\ ActorTypes' /\ PlaceTypes' /\ ScopeTypes' => ViewsTypeOK'
BY DEF ViewsTypeOK, Aside, ActorTypes, PlaceTypes, ScopeTypes, Sessions, Places

\* An actor that leaves update_view is idle again.
LEMMA LeaveTypes ==
    ASSUME ActorTypes, NEW a \in Actors, Leave(a)
    PROVE  ActorTypes'
<1>. 0 \in 0..MaxScopes /\ NoChronicle \in Places
  BY ViewAssumption DEF Places
<1>. QED
  BY DEF ActorTypes, Leave

\* What update_view puts on screen is a view, with its loads.
LEMMA ShowTypes ==
    ASSUME NEW v \in Views, NEW c \in Places, NEW s \in 0..MaxScopes,
           loads \in [Scopes -> 0..3], Show(v, c, s)
    PROVE  /\ shown' \in [view : Views \cup {"none"}, chronicle : Places, scope : 0..MaxScopes]
           /\ editing' \in BOOLEAN
           /\ loads' \in [Scopes -> 0..3]
<1>1. LoadsOf(v) \in 0..3
  BY DEF LoadsOf
<1>. QED
  BY <1>1 DEF Show

\* A scope that is made is within the bound, and the one made last.
LEMMA NewScopeTypes ==
    ASSUME made \in 0..MaxScopes, NEW sess \in Sessions, NewScope(sess)
    PROVE  /\ made' \in 0..MaxScopes /\ scope' \in 0..MaxScopes /\ session' \in Sessions
           /\ made + 1 \in Scopes /\ scope' = made + 1 /\ made' = made + 1
BY ViewAssumption DEF NewScope, Scopes

\* _build_view puts one of the views on screen, or asks for a chronicle.
LEMMA BuildTypes ==
    ASSUME ActorTypes, PlaceTypes, ScopeTypes, NEW a \in Actors, NEW v \in Views,
           NEW c \in Places, NEW sess \in Sessions, BuildView(a, v, c, sess)
    PROVE  ActorTypes' /\ PlaceTypes' /\ ScopeTypes'
<1>. DEFINE to == IF v = "transcript" /\ c = NoChronicle THEN "archive" ELSE v
<1>0. to \in Views /\ NoChronicle \in Places
  BY DEF Views, Places
<1>1. view' \in Views /\ selected' \in Places
  BY <1>0 DEF BuildView
<1>2. CASE NewScope(sess) /\ Show(to, NoChronicle, made + 1) /\ Leave(a)
  <2>1. ActorTypes'
    BY <1>2, LeaveTypes
  <2>2. made + 1 \in 0..MaxScopes
    BY <1>2, NewScopeTypes DEF ScopeTypes, Scopes
  <2>3. PlaceTypes'
    BY <1>0, <1>1, <1>2, <2>2, ShowTypes DEF PlaceTypes, ScopeTypes
  <2>4. loads' \in [Scopes -> 0..3]
    BY <1>0, <1>2, <2>2, ShowTypes DEF ScopeTypes
  <2>5. ScopeTypes'
    BY <1>2, <2>4, NewScopeTypes DEF ScopeTypes
  <2>. QED
    BY <2>1, <2>3, <2>5
<1>3. CASE session' = sess /\ scope' = 0 /\ Show(to, NoChronicle, 0) /\ Leave(a) /\ UNCHANGED made
  <2>0. 0 \in 0..MaxScopes
    BY ViewAssumption
  <2>1. ActorTypes'
    BY <1>3, LeaveTypes
  <2>3. PlaceTypes'
    BY <1>0, <1>1, <1>3, <2>0, ShowTypes DEF PlaceTypes, ScopeTypes
  <2>4. loads' \in [Scopes -> 0..3]
    BY <1>0, <1>3, <2>0, ShowTypes DEF ScopeTypes
  <2>5. ScopeTypes'
    BY <1>3, <2>0, <2>4 DEF ScopeTypes
  <2>. QED
    BY <2>1, <2>3, <2>5
<1>4. ASSUME NEW how \in {"connecting", "open"}, NewScope([sess EXCEPT ![made + 1] = how]),
             pc' = [pc EXCEPT ![a] = "asking"],
             at' = [at EXCEPT ![a] = made + 1],
             wanted' = [wanted EXCEPT ![a] = c],
             UNCHANGED <<screen, loads>>
      PROVE  ActorTypes' /\ PlaceTypes' /\ ScopeTypes'
  <2>0. [sess EXCEPT ![made + 1] = how] \in Sessions
    BY DEF Sessions
  <2>1. /\ made' \in 0..MaxScopes /\ scope' \in 0..MaxScopes /\ session' \in Sessions
        /\ made + 1 \in 0..MaxScopes
    BY <1>4, <2>0, NewScopeTypes DEF ScopeTypes, Scopes
  <2>2. ActorTypes'
    BY <1>4, <2>1 DEF ActorTypes
  <2>3. PlaceTypes'
    BY <1>1, <1>4 DEF PlaceTypes, screen
  <2>4. ScopeTypes'
    BY <1>4, <2>1 DEF ScopeTypes
  <2>. QED
    BY <2>2, <2>3, <2>4
<1>. QED
  BY <1>2, <1>3, <1>4 DEF BuildView

\* update_view keeps the types, whatever session it finds.
LEMMA UpdateTypes ==
    ASSUME ActorTypes, PlaceTypes, ScopeTypes, NEW a \in Actors, NEW v \in Views,
           NEW c \in Places, Update(a, v, c)
    PROVE  ActorTypes' /\ PlaceTypes' /\ ScopeTypes'
<1>1. CASE ViewSession = "idle"
  BY <1>1, BuildTypes DEF Update, ScopeTypes
<1>2. CASE ViewSession = "open"
  <2>. scope \in Scopes /\ session' = [session EXCEPT ![scope] = "closing"]
    BY <1>2, ViewAssumption DEF ViewSession, ScopeTypes, Update, Scopes
  <2>. ActorTypes'
    BY <1>2 DEF ActorTypes, ScopeTypes, Update, Places
  <2>. PlaceTypes'
    BY <1>2 DEF PlaceTypes, Update, screen
  <2>. ScopeTypes'
    BY <1>2 DEF ScopeTypes, Update, Sessions
  <2>. QED
    OBVIOUS
<1>3. CASE ViewSession \in {"connecting", "closing"}
  <2>. ActorTypes'
    BY <1>3, LeaveTypes DEF Update
  <2>. PlaceTypes'
    BY <1>3 DEF PlaceTypes, Update, screen
  <2>. ScopeTypes'
    BY <1>3 DEF ScopeTypes, Update, sessions
  <2>. QED
    OBVIOUS
<1>. QED
  BY <1>1, <1>2, <1>3 DEF Update

\* What an update sets besides.
LEMMA UpdateMarks ==
    ASSUME Aside, NEW a, NEW v, NEW c, Update(a, v, c)
    PROVE  failed' \in BOOLEAN /\ overlapped' \in BOOLEAN
BY DEF Aside, Update, OthersUpdate

\* A step that is an update, and sets the sidebar and the application besides.
LEMMA GoesTypes ==
    ASSUME ViewsTypeOK, NEW a \in Actors, NEW v \in Views, NEW c \in Places,
           Update(a, v, c), UNCHANGED <<models, exists, late, ending>>,
           lit' \in Views \ {"transcript"}, app' \in {"new", "running", "closing", "closed"}
    PROVE  ViewsTypeOK'
<1>1. ActorTypes' /\ PlaceTypes' /\ ScopeTypes'
  BY TypeParts, UpdateTypes
<1>2. Aside'
  BY TypeParts, UpdateMarks DEF Aside, ending
<1>. QED
  BY <1>1, <1>2, TypePartsNext

\* The handlers' actions that begin an update.
LEMMA BeginTypes ==
    ASSUME ViewsTypeOK, NEW a \in Actors,
           \/ Start(a) \/ GoBack(a) \/ Refresh(a) \/ Deleted(a)
           \/ \E v \in {"archive", "tasks", "settings"} : Navigate(a, v)
           \/ \E c \in Chronicles : OpenChronicle(a, c)
           \/ a = Worker /\ \E c \in Places : TaskCompleted(c)
    PROVE  ViewsTypeOK'
<1>0. /\ view \in Views /\ selected \in Places /\ NoChronicle \in Places
      /\ Chronicles \subseteq Places
      /\ lit \in Views \ {"transcript"}
      /\ app \in {"new", "running", "closing", "closed"}
  BY DEF ViewsTypeOK, Places
<1>1. ASSUME NEW v \in Views, NEW c \in Places, Update(a, v, c), UNCHANGED <<models, exists, late, ending>>,
             lit' \in Views \ {"transcript"}, app' \in {"new", "running", "closing", "closed"}
      PROVE  ViewsTypeOK'
  BY <1>1, GoesTypes
<1>2. \A v \in {"archive", "tasks", "settings"} : v \in Views \ {"transcript"}
  BY DEF Views
<1>3. "archive" \in Views /\ "transcript" \in Views
  BY DEF Views
<1>. QED
  BY <1>0, <1>1, <1>2, <1>3
  DEF Start, GoBack, Refresh, Deleted, Navigate, OpenChronicle, TaskCompleted, Goes

\* The steps that come back to update_view from an await.
LEMMA ReadTypes ==
    ASSUME ViewsTypeOK, Waiting, NEW a \in Actors, ScopeClosed(a) \/ ChronicleRead(a)
    PROVE  ViewsTypeOK'
<1>0. Aside /\ ActorTypes /\ PlaceTypes /\ ScopeTypes
  BY TypeParts
<1>1. CASE ScopeClosed(a)
  <2>1. [session EXCEPT ![at[a]] = "idle"] \in Sessions
    BY <1>0 DEF ScopeTypes, Sessions
  <2>2. ActorTypes' /\ PlaceTypes' /\ ScopeTypes'
    BY <1>0, <1>1, <2>1, BuildTypes DEF ScopeClosed, PlaceTypes
  <2>3. Aside'
    BY <1>0, <1>1 DEF ScopeClosed, Aside, viewHistory, ending
  <2>. QED
    BY <2>2, <2>3, TypePartsNext
<1>2. CASE ChronicleRead(a)
  <2>0. pc[a] = "asking" /\ at[a] \in 0..MaxScopes /\ wanted[a] \in Places
    BY <1>0, <1>2 DEF ChronicleRead, ActorTypes
  <2>1. CASE /\ selected' = wanted[a]
             /\ Show("transcript", wanted[a], at[a])
             /\ Leave(a)
             /\ UNCHANGED <<view, sessions, failed, overlapped>>
    <3>1. "transcript" \in Views
      BY DEF Views
    <3>2. /\ shown' \in [view : Views \cup {"none"}, chronicle : Places, scope : 0..MaxScopes]
          /\ editing' \in BOOLEAN
          /\ loads' \in [Scopes -> 0..3]
      BY <1>0, <2>0, <2>1, <3>1, ShowTypes DEF ScopeTypes
    <3>3. ActorTypes'
      BY <1>0, <2>1, LeaveTypes
    <3>4. PlaceTypes' /\ ScopeTypes' /\ Aside'
      BY <1>0, <1>2, <2>0, <2>1, <3>2
      DEF PlaceTypes, ScopeTypes, Aside, sessions, ending, ChronicleRead
    <3>. QED
      BY <3>3, <3>4, TypePartsNext
  <2>2. CASE Update(a, "archive", NoChronicle)
    <3>1. "archive" \in Views /\ NoChronicle \in Places
      BY DEF Views, Places
    <3>2. UNCHANGED <<models, exists, late, ending, lit, app>>
      BY <1>2 DEF ChronicleRead
    <3>. QED
      BY <1>0, <2>2, <3>1, <3>2, GoesTypes DEF Aside
  <2>3. CASE failed' = TRUE /\ Leave(a)
             /\ UNCHANGED <<place, lit, screen, sessions, loads, overlapped>>
    <3>1. ActorTypes'
      BY <1>0, <2>3, LeaveTypes
    <3>2. PlaceTypes' /\ ScopeTypes' /\ Aside'
      BY <1>0, <1>2, <2>3
      DEF PlaceTypes, ScopeTypes, Aside, sessions, place, screen, ending, ChronicleRead
    <3>. QED
      BY <3>1, <3>2, TypePartsNext
  <2>. QED
    BY <1>2, <2>1, <2>2, <2>3 DEF ChronicleRead
<1>. QED
  BY <1>1, <1>2

\* The actions of a handler that begin none, and those of the tasks on the loop.
LEMMA OtherTypes ==
    ASSUME ViewsTypeOK, Waiting, NEW h \in Handlers,
           \/ Delete(h) \/ ReloadList(h) \/ ToggleEdit(h)
           \/ CleanUp(h) \/ Release(h) \/ Released(h)
           \/ \E c \in Chronicles : DeleteCard(h, c)
    PROVE  ViewsTypeOK'
<1>0. Aside /\ ActorTypes /\ PlaceTypes /\ ScopeTypes
  BY TypeParts
<1>a. h \in Actors /\ Worker \in Actors
  BY DEF Actors
<1>1. CASE Delete(h)
  BY <1>0, <1>1, TypePartsNext
  DEF Delete, Aside, ActorTypes, PlaceTypes, ScopeTypes, OthersUpdate, place, screen, sessions,
      ending
<1>b. \A v : LoadsOf(v) \in 0..3
  BY DEF LoadsOf
<1>2. CASE ReloadList(h)
  <2>. loads' \in [Scopes -> 0..3]
    BY <1>0, <1>2, <1>b DEF ReloadList, ScopeTypes
  <2>. QED
    BY <1>0, <1>2, TypePartsNext
    DEF ReloadList, Aside, ActorTypes, PlaceTypes, ScopeTypes, place, screen, sessions, actors,
        viewHistory, ending
<1>3. CASE ToggleEdit(h)
  <2>. loads' \in [Scopes -> 0..3]
    <3>. loads \in [Scopes -> 0..3] /\ 1 \in 0..3
      BY <1>0 DEF ScopeTypes
    <3>. loads' = [loads EXCEPT ![shown.scope] = 1]
      BY <1>3 DEF ToggleEdit
    <3>. QED
      OBVIOUS
  <2>. editing' \in BOOLEAN
    BY <1>3 DEF ToggleEdit
  <2>. QED
    BY <1>0, <1>3, TypePartsNext
    DEF ToggleEdit, Aside, ActorTypes, PlaceTypes, ScopeTypes, place, sessions, actors,
        viewHistory, ending
<1>4. CASE CleanUp(h)
  <2>0. session' \in Sessions
    BY <1>0, <1>4 DEF CleanUp, ScopeTypes, Sessions
  <2>1. ActorTypes'
    <3>. 0 \in 0..MaxScopes /\ NoChronicle \in Places
      BY ViewAssumption DEF Places
    <3>. QED
      BY <1>0, <1>4 DEF CleanUp, ActorTypes
  <2>2. /\ failed' \in BOOLEAN /\ crossed' \in BOOLEAN /\ closings' \in 0..2
        /\ app' \in {"new", "running", "closing", "closed"}
    BY <1>0, <1>4 DEF CleanUp, Aside
  <2>. QED
    BY <1>0, <1>4, <2>0, <2>1, <2>2, TypePartsNext
    DEF CleanUp, Aside, ActorTypes, PlaceTypes, ScopeTypes, place, screen
<1>5. CASE Release(h)
  <2>1. ActorTypes'
    <3>1. CASE Leave(h)
      BY <1>0, <1>a, <3>1, LeaveTypes
    <3>2. CASE ~Leave(h)
      BY <1>0, <1>5, <3>2 DEF Release, ActorTypes, ScopeTypes
    <3>. QED
      BY <3>1, <3>2
  <2>2. session' \in Sessions /\ scope' \in 0..MaxScopes
    BY <1>0, <1>5, ViewAssumption DEF Release, ScopeTypes, Sessions
  <2>3. failed' \in BOOLEAN /\ app' \in {"new", "running", "closing", "closed"}
    BY <1>0, <1>5 DEF Release, Aside
  <2>. QED
    BY <1>0, <1>5, <2>1, <2>2, <2>3, TypePartsNext
    DEF Release, Aside, PlaceTypes, ScopeTypes, place, screen, ending
<1>6. CASE Released(h)
  <2>1. ActorTypes'
    BY <1>0, <1>a, <1>6, LeaveTypes DEF Released
  <2>2. session' \in Sessions /\ scope' \in 0..MaxScopes
    <3>. 0 \in 0..MaxScopes
      BY ViewAssumption
    <3>. QED
      BY <1>0, <1>6 DEF Released, ScopeTypes, Sessions
  <2>. QED
    BY <1>0, <1>6, <2>1, <2>2, TypePartsNext
    DEF Released, Aside, PlaceTypes, ScopeTypes, place, screen, viewHistory, ending
<1>7. ASSUME NEW c \in Chronicles, DeleteCard(h, c)
      PROVE  ViewsTypeOK'
  <2>. loads' \in [Scopes -> 0..3]
    BY <1>0, <1>7, <1>b DEF DeleteCard, ScopeTypes
  <2>. QED
    BY <1>0, <1>7, TypePartsNext
    DEF DeleteCard, Aside, ActorTypes, PlaceTypes, ScopeTypes, place, screen, sessions, actors,
        viewHistory, ending
<1>. QED
  BY <1>1, <1>2, <1>3, <1>4, <1>5, <1>6, <1>7

\* The loads of the views and the refresh of the models keep the types.
LEMMA BackgroundTypes ==
    ASSUME ViewsTypeOK, Background
    PROVE  ViewsTypeOK'
<1>0. Aside /\ ActorTypes /\ PlaceTypes /\ ScopeTypes
  BY TypeParts
<1>q. ASSUME NEW s \in 0..MaxScopes, Query(s)
      PROVE  session' \in Sessions
  BY <1>0, <1>q DEF Query, ScopeTypes, Sessions
<1>1. ASSUME NEW s \in Scopes, Load(s)
      PROVE  ViewsTypeOK'
  <2>1. session' \in Sessions
    BY <1>0, <1>1 DEF Load, Query, ScopeTypes, Sessions
  <2>2. loads' \in [Scopes -> 0..3] /\ late' \subseteq Scopes
    BY <1>0, <1>1 DEF Load, ScopeTypes, Aside
  <2>. QED
    BY <1>0, <1>1, <2>1, <2>2, TypePartsNext
    DEF Load, Aside, ActorTypes, PlaceTypes, ScopeTypes, place, screen, actors, ending
<1>2. ASSUME NEW s \in Scopes, Connected(s)
      PROVE  ViewsTypeOK'
  <2>1. session' \in Sessions
    BY <1>0, <1>2 DEF Connected, ScopeTypes, Sessions
  <2>. QED
    BY <1>0, <1>2, <2>1, TypePartsNext
    DEF Connected, Aside, ActorTypes, PlaceTypes, ScopeTypes, place, screen, actors, viewHistory, ending
<1>3. CASE RefreshModels
  <2>1. made' \in 0..MaxScopes /\ models' \in 0..MaxScopes
    BY <1>0, <1>3, ViewAssumption DEF RefreshModels, ScopeTypes
  <2>. QED
    BY <1>0, <1>3, <2>1, TypePartsNext
    DEF RefreshModels, Aside, ActorTypes, PlaceTypes, ScopeTypes, place, screen, actors,
        viewHistory, ending
<1>4. CASE ReadInfo
  <2>1. session' \in Sessions
    BY <1>0, <1>4, <1>q DEF ReadInfo, Aside
  <2>. QED
    BY <1>0, <1>4, <2>1, TypePartsNext
    DEF ReadInfo, Aside, ActorTypes, PlaceTypes, ScopeTypes, place, screen, actors, viewHistory, ending
<1>5. CASE CloseModels
  <2>1. session' \in Sessions /\ models' \in 0..MaxScopes
    BY <1>0, <1>5, ViewAssumption DEF CloseModels, ScopeTypes, Sessions, Aside
  <2>. QED
    BY <1>0, <1>5, <2>1, TypePartsNext
    DEF CloseModels, Aside, ActorTypes, PlaceTypes, ScopeTypes, place, screen, actors,
        viewHistory, ending
<1>. QED
  BY <1>1, <1>2, <1>3, <1>4, <1>5 DEF Background
-----------------------------------------------------------------------------
(* The sessions *)

ViewsKept == Waiting /\ Made /\ SessionInv

\* A view is built when the session of the one before is closed or was never opened.
LEMMA BuildKeeps ==
    ASSUME ViewsTypeOK, Waiting, Made, NEW a \in Actors, NEW v \in Views, NEW c \in Places,
           NEW sess \in Sessions, BuildView(a, v, c, sess), UNCHANGED <<models, late>>,
           ~overlapped' => \A b \in Actors \ {a} : ~Updating(b),
           \A b \in Actors \ {a} : ~Closing(b),
           \A s \in Scopes : sess[s] # "idle" => s = models \/ s \in late
    PROVE  ViewsKept'
<1>0. /\ pc \in [Actors -> {"idle", "closing", "asking", "deleting", "stopping", "releasing"}]
      /\ at \in [Actors -> 0..MaxScopes] /\ wanted \in [Actors -> Places]
      /\ made \in Nat /\ scope \in Nat /\ models \in Nat /\ MaxScopes \in Nat
  BY ViewAssumption DEF ViewsTypeOK, Places
<1>1. \A b \in Actors \ {a} : pc'[b] = pc[b] /\ at'[b] = at[b] /\ wanted'[b] = wanted[b]
  BY <1>0 DEF BuildView, Leave
<1>2. \/ /\ pc'[a] = "idle" /\ at'[a] = 0 /\ wanted'[a] = NoChronicle
         /\ session' = sess
         /\ (scope' = made + 1 /\ made' = made + 1) \/ (scope' = 0 /\ made' = made)
      \/ /\ pc'[a] = "asking" /\ at'[a] = made + 1 /\ wanted'[a] = c /\ c # NoChronicle
         /\ scope' = made + 1 /\ made' = made + 1 /\ made + 1 \in Scopes
         /\ \A s \in Scopes \ {made + 1} : session'[s] = sess[s]
  <2>. DEFINE to == IF v = "transcript" /\ c = NoChronicle THEN "archive" ELSE v
  <2>1. CASE NewScope(sess) /\ Leave(a)
    BY <1>0, <2>1 DEF NewScope, Leave
  <2>2. CASE session' = sess /\ scope' = 0 /\ Leave(a) /\ UNCHANGED made
    BY <1>0, <2>2 DEF Leave
  <2>3. ASSUME NEW how \in {"connecting", "open"}, NewScope([sess EXCEPT ![made + 1] = how]),
               pc' = [pc EXCEPT ![a] = "asking"],
               at' = [at EXCEPT ![a] = made + 1],
               wanted' = [wanted EXCEPT ![a] = c],
               c # NoChronicle
        PROVE  /\ pc'[a] = "asking" /\ at'[a] = made + 1 /\ wanted'[a] = c /\ c # NoChronicle
               /\ scope' = made + 1 /\ made' = made + 1 /\ made + 1 \in Scopes
               /\ \A s \in Scopes \ {made + 1} : session'[s] = sess[s]
    BY <1>0, <2>3 DEF NewScope, Scopes, Sessions
  <2>. QED
    BY <2>1, <2>2, <2>3 DEF BuildView
<1>3. Waiting'
  BY <1>0, <1>1, <1>2 DEF Waiting, Waits, Scopes
<1>4. Made'
  BY <1>0, <1>1, <1>2 DEF Made
<1>5. SessionInv'
  <2>1. (~overlapped' => Alone') /\ ClosesScope'
    BY <1>1, <1>2 DEF Alone, ClosesScope, Updating, Closing
  <2>2. Counted'
    BY <1>1, <1>2 DEF Counted, Open
  <2>. QED
    BY <2>1, <2>2 DEF SessionInv
<1>. QED
  BY <1>3, <1>4, <1>5 DEF ViewsKept

\* An actor comes out of its update, or of what led to it, and nothing is closed.
LEMMA LeaveKeeps ==
    ASSUME ViewsTypeOK, ViewsKept, NEW a \in Actors, pc[a] \in {"idle", "deleting", "asking"},
           Leave(a), UNCHANGED <<sessions, models, late>>, overlapped => overlapped'
    PROVE  ViewsKept'
<1>0. /\ pc \in [Actors -> {"idle", "closing", "asking", "deleting", "stopping", "releasing"}]
      /\ at \in [Actors -> 0..MaxScopes] /\ wanted \in [Actors -> Places]
      /\ made \in Nat /\ scope \in Nat /\ models \in Nat
      /\ UNCHANGED <<session, scope, made>>
  BY ViewAssumption DEF ViewsTypeOK, Places, sessions
<1>1. \A b \in Actors \ {a} : pc'[b] = pc[b] /\ at'[b] = at[b] /\ wanted'[b] = wanted[b]
  BY <1>0 DEF Leave
<1>2. pc'[a] = "idle" /\ at'[a] = 0 /\ wanted'[a] = NoChronicle
  BY <1>0 DEF Leave
<1>3. Waiting' /\ Made'
  BY <1>0, <1>1, <1>2 DEF ViewsKept, Waiting, Waits, Made
<1>4. SessionInv'
  <2>0. (~overlapped => Alone) /\ ClosesScope /\ Counted
    BY DEF SessionInv, ViewsKept
  <2>1. (~overlapped' => Alone') /\ ClosesScope'
    BY <1>0, <1>1, <1>2, <2>0 DEF Alone, ClosesScope, Updating, Closing
  <2>2. Counted'
    BY <1>0, <2>0 DEF Counted, Open
  <2>. QED
    BY <2>1, <2>2 DEF SessionInv
<1>. QED
  BY <1>3, <1>4 DEF ViewsKept

\* update_view closes the session of the view before, or finds none, or fails at it.
LEMMA UpdateKeeps ==
    ASSUME ViewsTypeOK, ViewsKept, NEW a \in Actors, pc[a] \in {"idle", "deleting", "asking"},
           NEW v \in Views, NEW c \in Places, Update(a, v, c), UNCHANGED <<models, late>>
    PROVE  ViewsKept'
<1>0. /\ pc \in [Actors -> {"idle", "closing", "asking", "deleting", "stopping", "releasing"}]
      /\ at \in [Actors -> 0..MaxScopes] /\ wanted \in [Actors -> Places]
      /\ session \in Sessions
      /\ made \in Nat /\ scope \in 0..MaxScopes /\ models \in Nat /\ MaxScopes \in Nat
  BY ViewAssumption DEF ViewsTypeOK, Places, Sessions
<1>1. /\ ~overlapped' => ~overlapped /\ Alone /\ \A b \in Actors \ {a} : ~Updating(b)
      /\ ClosesScope /\ Counted
  BY DEF Update, OthersUpdate, ViewsKept, SessionInv
<1>3. CASE ViewSession = "idle"
  <2>1. BuildView(a, v, c, session)
    BY <1>3 DEF Update
  <2>2. \A b \in Actors \ {a} : ~Closing(b)
    BY <1>0, <1>1, <1>3 DEF ClosesScope, Closing, ViewSession, ViewsKept, Waiting, Waits, Scopes
  <2>3. \A s \in Scopes : session[s] # "idle" => s # scope
    BY <1>0, <1>3 DEF ViewSession, Scopes
  <2>4. \A s \in Scopes : session[s] # "idle" => s = models \/ s \in late
    BY <1>1, <2>3 DEF Counted, Open
  <2>. QED
    BY <1>0, <1>1, <2>1, <2>2, <2>4, BuildKeeps DEF ViewsKept
<1>4. CASE ViewSession = "open"
  <2>0. /\ scope \in Scopes /\ session[scope] = "open"
        /\ session' = [session EXCEPT ![scope] = "closing"]
        /\ pc' = [pc EXCEPT ![a] = "closing"]
        /\ at' = [at EXCEPT ![a] = scope]
        /\ wanted' = [wanted EXCEPT ![a] = NoChronicle]
        /\ UNCHANGED <<scope, made>>
    BY <1>0, <1>4 DEF Update, ViewSession, Scopes
  <2>1. \A b \in Actors \ {a} : pc'[b] = pc[b] /\ at'[b] = at[b] /\ wanted'[b] = wanted[b]
    BY <1>0, <2>0
  <2>2. /\ pc'[a] = "closing" /\ at'[a] = scope /\ wanted'[a] = NoChronicle
        /\ session'[scope] = "closing"
        /\ \A s \in Scopes \ {scope} : session'[s] = session[s]
    BY <1>0, <2>0 DEF Sessions
  <2>3. Waiting' /\ Made'
    BY <1>0, <2>0, <2>1, <2>2 DEF ViewsKept, Waiting, Waits, Made, Scopes
  <2>4. SessionInv'
    <3>1. (~overlapped' => Alone') /\ ClosesScope'
      BY <1>1, <2>0, <2>1, <2>2 DEF Alone, ClosesScope, Updating, Closing
    <3>2. Counted'
      BY <1>1, <2>0, <2>2 DEF Counted, Open
    <3>. QED
      BY <3>1, <3>2 DEF SessionInv
  <2>. QED
    BY <2>3, <2>4 DEF ViewsKept
<1>5. CASE ViewSession \in {"connecting", "closing"}
  BY <1>1, <1>5, LeaveKeeps DEF Update
<1>. QED
  BY <1>3, <1>4, <1>5 DEF Update

\* The actions that begin an update or come back to one.
LEMMA BeginKeeps ==
    ASSUME ViewsTypeOK, ViewsKept, NEW a \in Actors,
           \/ Start(a) \/ GoBack(a) \/ Refresh(a) \/ Deleted(a)
           \/ \E v \in {"archive", "tasks", "settings"} : Navigate(a, v)
           \/ \E c \in Chronicles : OpenChronicle(a, c)
           \/ a = Worker /\ \E c \in Places : TaskCompleted(c)
    PROVE  ViewsKept'
<1>0. /\ view \in Views /\ selected \in Places /\ NoChronicle \in Places
      /\ Chronicles \subseteq Places
      /\ "archive" \in Views /\ "transcript" \in Views
      /\ \A v \in {"archive", "tasks", "settings"} : v \in Views
  BY DEF ViewsTypeOK, Places, Views
<1>1. ASSUME NEW v \in Views, NEW c \in Places, pc[a] \in {"idle", "deleting"},
             Update(a, v, c), UNCHANGED <<models, late>>
      PROVE  ViewsKept'
  BY <1>1, UpdateKeeps
<1>. QED
  BY <1>0, <1>1
  DEF Start, GoBack, Refresh, Deleted, Navigate, OpenChronicle, TaskCompleted, Goes

\* The session is closed, and the view is built.
LEMMA ScopeClosedKeeps ==
    ASSUME ViewsTypeOK, ViewsKept, NEW a \in Actors, ScopeClosed(a)
    PROVE  ViewsKept'
<1>. DEFINE sess == [session EXCEPT ![at[a]] = "idle"]
<1>0. /\ session \in Sessions /\ sess \in Sessions
      /\ view \in Views /\ selected \in Places
      /\ pc[a] = "closing" /\ BuildView(a, view, selected, sess)
      /\ UNCHANGED <<models, late, overlapped>>
  BY DEF ViewsTypeOK, Sessions, Places, ScopeClosed, viewHistory
<1>1. /\ ~overlapped' => \A b \in Actors \ {a} : ~Updating(b)
      /\ \A b \in Actors \ {a} : ~Closing(b)
      /\ \A s \in Scopes : sess[s] # "idle" => s = models \/ s \in late
  <2>0. (~overlapped => Alone) /\ ClosesScope /\ Counted
    BY DEF ViewsKept, SessionInv
  <2>1. /\ ~overlapped' => \A b \in Actors \ {a} : ~Updating(b)
        /\ \A b \in Actors \ {a} : ~Closing(b)
    BY <1>0, <2>0 DEF Alone, ClosesScope, Updating, Closing
  <2>2. \A s \in Scopes : sess[s] # "idle" => Open(s) /\ s # at[a]
    BY <1>0 DEF Open, Sessions
  <2>3. at[a] = scope
    BY <1>0, <2>0 DEF ClosesScope, Closing
  <2>. QED
    BY <2>0, <2>1, <2>2, <2>3 DEF Counted
<1>2. Waiting /\ Made
  BY DEF ViewsKept
<1>. HIDE DEF sess
<1>. QED
  BY <1>0, <1>1, <1>2, BuildKeeps

\* The chronicle has been read: it is shown, or is gone, or the read has failed.
LEMMA ChronicleReadKeeps ==
    ASSUME ViewsTypeOK, ViewsKept, NEW a \in Actors, ChronicleRead(a)
    PROVE  ViewsKept'
<1>1. pc[a] = "asking" /\ UNCHANGED <<models, late>>
  BY DEF ChronicleRead
<1>2. CASE Update(a, "archive", NoChronicle)
  BY <1>1, <1>2, UpdateKeeps DEF Views, Places
<1>3. CASE Leave(a) /\ UNCHANGED <<sessions, overlapped>>
  BY <1>1, <1>3, LeaveKeeps
<1>. QED
  BY <1>2, <1>3 DEF ChronicleRead

\* The window closes: the worker is taken out of its update, and the view's scope let go.
LEMMA CleanUpKeeps ==
    ASSUME ViewsTypeOK, ViewsKept, NEW h \in Handlers, CleanUp(h)
    PROVE  ViewsKept'
<1>0. /\ pc \in [Actors -> {"idle", "closing", "asking", "deleting", "stopping", "releasing"}]
      /\ at \in [Actors -> 0..MaxScopes] /\ wanted \in [Actors -> Places]
      /\ session \in Sessions
      /\ made \in Nat /\ scope \in 0..MaxScopes /\ models \in Nat /\ MaxScopes \in Nat
      /\ h \in Actors /\ Worker \in Actors /\ h # Worker
      /\ UNCHANGED <<scope, made, models, overlapped, late>>
  BY ViewAssumption DEF ViewsTypeOK, Places, Sessions, Actors, CleanUp
<1>1. /\ pc[h] = "idle" /\ pc'[h] = "stopping" /\ at'[h] = at[h] /\ wanted'[h] = wanted[h]
      /\ pc'[Worker] = "idle" /\ at'[Worker] = 0 /\ wanted'[Worker] = NoChronicle
      /\ \A b \in Actors \ {h, Worker} :
             pc'[b] = pc[b] /\ at'[b] = at[b] /\ wanted'[b] = wanted[b]
  BY <1>0 DEF CleanUp
<1>2. Waiting' /\ Made'
  BY <1>0, <1>1 DEF ViewsKept, Waiting, Waits, Made
<1>3. SessionInv'
  <2>0. (~overlapped => Alone) /\ ClosesScope /\ Counted
    BY DEF ViewsKept, SessionInv
  <2>1. \A s \in Scopes :
            \/ session'[s] = session[s]
            \/ pc[Worker] = "closing" /\ s = scope /\ session'[s] = "open"
    BY <1>0, <2>0 DEF CleanUp, ClosesScope, Closing, Sessions
  <2>2. ~overlapped' => Alone'
    BY <1>0, <1>1, <2>0 DEF Alone, Updating
  <2>3. ClosesScope'
    BY <1>0, <1>1, <2>0, <2>1 DEF ClosesScope, Closing, ViewsKept, Waiting, Waits
  <2>4. Counted'
    BY <1>0, <2>0, <2>1 DEF Counted, Open
  <2>. QED
    BY <2>2, <2>3, <2>4 DEF SessionInv
<1>. QED
  BY <1>2, <1>3 DEF ViewsKept

\* What follows when the worker has ended: the session is closed and the scope forgotten.
LEMMA ReleaseKeeps ==
    ASSUME ViewsTypeOK, ViewsKept, NEW h \in Handlers, Release(h) \/ Released(h)
    PROVE  ViewsKept'
<1>0. /\ pc \in [Actors -> {"idle", "closing", "asking", "deleting", "stopping", "releasing"}]
      /\ at \in [Actors -> 0..MaxScopes] /\ wanted \in [Actors -> Places]
      /\ session \in Sessions
      /\ made \in Nat /\ scope \in 0..MaxScopes /\ models \in Nat /\ MaxScopes \in Nat
      /\ h \in Actors
      /\ UNCHANGED <<made, models, overlapped, late>>
  BY ViewAssumption DEF ViewsTypeOK, Places, Sessions, Actors, Release, Released, viewHistory
<1>1. \A b \in Actors \ {h} : pc'[b] = pc[b] /\ at'[b] = at[b] /\ wanted'[b] = wanted[b]
  BY <1>0 DEF Release, Released, Leave
<1>2. (~overlapped => Alone) /\ ClosesScope /\ Counted
  BY DEF ViewsKept, SessionInv
\* The window's cleanup ends: the scope is forgotten, or its session refused to close.
<1>4. ASSUME Leave(h),
             \/ UNCHANGED <<scope, session>> /\ pc[h] = "stopping"
             \/ /\ scope' = 0 /\ ViewSession = "idle" /\ session' = session
             \/ /\ scope' = 0 /\ pc[h] = "releasing"
                /\ session' = [session EXCEPT ![at[h]] = "idle"]
      PROVE  ViewsKept'
  <2>1. pc'[h] = "idle" /\ at'[h] = 0 /\ wanted'[h] = NoChronicle
    BY <1>0, <1>4 DEF Leave
  <2>2. Waiting' /\ Made'
    BY <1>0, <1>1, <1>4, <2>1 DEF ViewsKept, Waiting, Waits, Made
  <2>3. ~overlapped' => Alone'
    BY <1>0, <1>1, <1>2, <2>1 DEF Alone, Updating
  <2>4. \A s \in Scopes : session'[s] = session[s] \/ (s = scope /\ session'[s] = "idle")
    BY <1>0, <1>2, <1>4 DEF ClosesScope, Closing, Sessions
  <2>5. scope' # scope => scope \notin Scopes \/ session'[scope] = "idle"
    BY <1>0, <1>2, <1>4 DEF ClosesScope, Closing, Sessions, ViewSession, Scopes
  <2>6. ClosesScope'
    BY <1>0, <1>1, <1>2, <1>4, <2>1
    DEF ClosesScope, Closing, ViewSession, ViewsKept, Waiting, Waits, Scopes
  <2>7. Counted'
    BY <1>0, <1>2, <2>4, <2>5 DEF Counted, Open
  <2>. QED
    BY <2>2, <2>3, <2>6, <2>7 DEF ViewsKept, SessionInv
<1>5. ASSUME pc[h] = "stopping", ViewSession = "open",
             session' = [session EXCEPT ![scope] = "closing"],
             pc' = [pc EXCEPT ![h] = "releasing"],
             at' = [at EXCEPT ![h] = scope],
             UNCHANGED <<scope, wanted>>
      PROVE  ViewsKept'
  <2>1. /\ scope \in Scopes /\ session[scope] = "open"
        /\ pc'[h] = "releasing" /\ at'[h] = scope
        /\ session'[scope] = "closing"
        /\ \A s \in Scopes \ {scope} : session'[s] = session[s]
    BY <1>0, <1>5 DEF ViewSession, Scopes, Sessions
  <2>2. Waiting' /\ Made'
    BY <1>0, <1>1, <1>5, <2>1 DEF ViewsKept, Waiting, Waits, Made, Scopes
  <2>3. ~overlapped' => Alone'
    BY <1>0, <1>1, <1>2, <1>5, <2>1 DEF Alone, Updating
  <2>4. ClosesScope'
    BY <1>0, <1>1, <1>2, <1>5, <2>1 DEF ClosesScope, Closing
  <2>5. Counted'
    BY <1>0, <1>2, <1>5, <2>1 DEF Counted, Open
  <2>. QED
    BY <2>2, <2>3, <2>4, <2>5 DEF ViewsKept, SessionInv
<1>6. CASE Release(h)
  BY <1>4, <1>5, <1>6 DEF Release
<1>7. CASE Released(h)
  BY <1>4, <1>7 DEF Released
<1>. QED
  BY <1>6, <1>7

\* What leaves the sessions and the actors alone.
LEMMA StillKeeps ==
    ASSUME ViewsKept, UNCHANGED <<sessions, actors, models, late, overlapped>>
    PROVE  ViewsKept'
BY DEF ViewsKept, Waiting, Waits, Made, SessionInv, Alone, Updating, ClosesScope, Closing,
       Counted, Open, sessions, actors

\* A deletion begins: its actor is in an update from then on.
LEMMA DeleteKeeps ==
    ASSUME ViewsTypeOK, ViewsKept, NEW h \in Handlers, Delete(h)
    PROVE  ViewsKept'
<1>0. /\ pc \in [Actors -> {"idle", "closing", "asking", "deleting", "stopping", "releasing"}]
      /\ h \in Actors
      /\ UNCHANGED <<session, scope, made, at, wanted, models, late>>
  BY DEF ViewsTypeOK, Actors, Delete, sessions
<1>1. /\ pc[h] = "idle" /\ pc'[h] = "deleting"
      /\ \A b \in Actors \ {h} : pc'[b] = pc[b]
  BY <1>0 DEF Delete
<1>2. Waiting' /\ Made'
  BY <1>0, <1>1 DEF ViewsKept, Waiting, Waits, Made
<1>3. SessionInv'
  <2>0. /\ ~overlapped' => Alone /\ \A b \in Actors \ {h} : ~Updating(b)
        /\ ClosesScope /\ Counted
    BY DEF Delete, OthersUpdate, ViewsKept, SessionInv
  <2>1. ~overlapped' => Alone'
    BY <1>1, <2>0 DEF Alone, Updating
  <2>2. ClosesScope'
    BY <1>0, <1>1, <2>0 DEF ClosesScope, Closing
  <2>3. Counted'
    BY <1>0, <2>0 DEF Counted, Open
  <2>. QED
    BY <2>1, <2>2, <2>3 DEF SessionInv
<1>. QED
  BY <1>2, <1>3 DEF ViewsKept

\* The tasks on the loop open and close no session that is not theirs, or let go.
LEMMA BackgroundKeeps ==
    ASSUME ViewsTypeOK, ViewsKept, Background
    PROVE  ViewsKept'
<1>0. /\ session \in Sessions /\ late \subseteq Scopes
      /\ made \in Nat /\ scope \in 0..MaxScopes /\ models \in 0..MaxScopes
      /\ MaxScopes \in Nat /\ at \in [Actors -> 0..MaxScopes]
      /\ (~overlapped => Alone) /\ ClosesScope /\ Counted
  BY ViewAssumption DEF ViewsTypeOK, Sessions, ViewsKept, SessionInv
\* A query opens the session of the view's scope, of the model list's, or of one that was left.
<1>1. ASSUME NEW s \in Scopes,
             \A t \in Scopes \ {s} : session'[t] = session[t],
             session[s] # "closing", s = scope \/ s = models \/ s \in late' \/ Open(s),
             late \subseteq late', UNCHANGED <<scope, made, actors, models, overlapped>>
      PROVE  ViewsKept'
  <2>0. UNCHANGED <<pc, at, wanted>>
    BY <1>1 DEF actors
  <2>1. Waiting' /\ Made'
    BY <1>1, <2>0 DEF ViewsKept, Waiting, Waits, Made
  <2>2. ~overlapped' => Alone'
    BY <1>0, <1>1, <2>0 DEF Alone, Updating
  <2>3. ClosesScope'
    BY <1>0, <1>1, <2>0 DEF ClosesScope, Closing, ViewsKept, Waiting, Waits
  <2>4. Counted'
    BY <1>0, <1>1 DEF Counted, Open
  <2>. QED
    BY <2>1, <2>2, <2>3, <2>4 DEF ViewsKept, SessionInv
<1>2. ASSUME NEW s \in Scopes, Load(s)
      PROVE  ViewsKept'
  <2>1. CASE Query(s) /\ late' = IF s = scope THEN late ELSE late \cup {s}
    <3>1. /\ \A t \in Scopes \ {s} : session'[t] = session[t]
          /\ session[s] # "closing" /\ late \subseteq late' /\ (s = scope \/ s \in late')
      BY <1>0, <2>1 DEF Query, Sessions
    <3>2. UNCHANGED <<scope, made, actors, models, overlapped>>
      BY <1>2 DEF Load
    <3>. QED
      BY <1>1, <3>1, <3>2
  <2>2. CASE UNCHANGED <<session, late>>
    BY <1>2, <2>2, StillKeeps DEF Load, sessions
  <2>. QED
    BY <1>2, <2>1, <2>2 DEF Load
<1>3. ASSUME NEW s \in Scopes, Connected(s)
      PROVE  ViewsKept'
  <2>1. /\ \A t \in Scopes \ {s} : session'[t] = session[t]
        /\ session[s] # "closing" /\ Open(s)
    BY <1>0, <1>3 DEF Connected, Open, Sessions
  <2>2. late' = late /\ UNCHANGED <<scope, made, actors, models, overlapped>>
    BY <1>3 DEF Connected, viewHistory
  <2>. QED
    BY <1>1, <2>1, <2>2
<1>4. CASE RefreshModels
  <2>0. /\ models = 0 /\ models' = made + 1 /\ made' = made + 1
        /\ UNCHANGED <<scope, session, pc, at, wanted, overlapped, late>>
    BY <1>4 DEF RefreshModels, actors, viewHistory
  <2>1. Waiting' /\ Made'
    BY <1>0, <2>0 DEF ViewsKept, Waiting, Waits, Made
  <2>2. SessionInv'
    BY <1>0, <2>0 DEF SessionInv, Alone, Updating, ClosesScope, Closing, Counted, Open, Scopes
  <2>. QED
    BY <2>1, <2>2 DEF ViewsKept
<1>5. CASE ReadInfo
  <2>0. models \in Scopes
    BY <1>0, <1>5 DEF ReadInfo, Scopes
  <2>1. /\ \A t \in Scopes \ {models} : session'[t] = session[t]
        /\ session[models] # "closing"
    BY <1>0, <1>5 DEF ReadInfo, Query, Sessions
  <2>2. late' = late /\ UNCHANGED <<scope, made, actors, models, overlapped>>
    BY <1>5 DEF ReadInfo, viewHistory
  <2>. QED
    BY <1>1, <2>0, <2>1, <2>2
<1>6. CASE CloseModels
  <2>0. /\ models \in Scopes
        /\ \A t \in Scopes \ {models} : session'[t] = session[t]
        /\ models' = models \/ (models' = 0 /\ session'[models] = "idle")
        /\ UNCHANGED <<scope, made, pc, at, wanted, overlapped, late>>
    BY <1>0, <1>6 DEF CloseModels, Scopes, Sessions, actors, viewHistory
  <2>1. Waiting' /\ Made'
    BY <1>0, <2>0 DEF ViewsKept, Waiting, Waits, Made
  <2>2. scope # models
    BY <2>0 DEF ViewsKept, Made, Scopes
  <2>3. ~overlapped' => Alone'
    BY <1>0, <2>0 DEF Alone, Updating
  <2>4. ClosesScope'
    BY <1>0, <2>0, <2>2 DEF ClosesScope, Closing, ViewsKept, Waiting, Waits
  <2>5. Counted'
    BY <1>0, <2>0, <2>2 DEF Counted, Open
  <2>. QED
    BY <2>1, <2>3, <2>4, <2>5 DEF ViewsKept, SessionInv
<1>. QED
  BY <1>2, <1>3, <1>4, <1>5, <1>6 DEF Background

\* Every step keeps the types and the sessions accounted for.
LEMMA StepKeeps ==
    ASSUME ViewsTypeOK, ViewsKept, [ViewsNext]_viewVars
    PROVE  ViewsTypeOK' /\ ViewsKept'
<1>a. Waiting
  BY DEF ViewsKept
<1>b. Handlers \subseteq Actors /\ Worker \in Actors /\ Chronicles \cup {NoChronicle} = Places
  BY DEF Actors, Places
<1>1. ASSUME NEW h \in Handlers, Clicked(h)
      PROVE  ViewsTypeOK' /\ ViewsKept'
  <2>1. CASE \/ Start(h) \/ GoBack(h) \/ Refresh(h) \/ Deleted(h)
             \/ \E v \in {"archive", "tasks", "settings"} : Navigate(h, v)
             \/ \E c \in Chronicles : OpenChronicle(h, c)
    BY <1>b, <2>1, BeginTypes, BeginKeeps
  <2>2. CASE \/ Delete(h) \/ ReloadList(h) \/ ToggleEdit(h)
             \/ CleanUp(h) \/ Release(h) \/ Released(h)
             \/ \E c \in Chronicles : DeleteCard(h, c)
    <3>1. ViewsTypeOK'
      BY <1>a, <2>2, OtherTypes
    <3>2. CASE \/ ReloadList(h) \/ ToggleEdit(h) \/ \E c \in Chronicles : DeleteCard(h, c)
      <4>. UNCHANGED <<sessions, actors, models, late, overlapped>>
        BY <3>2 DEF ReloadList, ToggleEdit, DeleteCard, viewHistory
      <4>. QED
        BY <3>1, StillKeeps
    <3>. QED
      BY <2>2, <3>1, <3>2, DeleteKeeps, CleanUpKeeps, ReleaseKeeps
  <2>. QED
    BY <1>1, <2>1, <2>2 DEF Clicked
<1>2. ASSUME NEW a \in Actors, Continue(a)
      PROVE  ViewsTypeOK' /\ ViewsKept'
  BY <1>2, <1>a, ReadTypes, ScopeClosedKeeps, ChronicleReadKeeps DEF Continue
<1>3. CASE WorkerStep
  BY <1>b, <1>2, <1>3, BeginTypes, BeginKeeps DEF WorkerStep
<1>4. CASE Background
  BY <1>4, BackgroundTypes, BackgroundKeeps
<1>5. CASE UNCHANGED viewVars
  <2>1. ViewsKept'
    BY <1>5, StillKeeps DEF viewVars, viewHistory
  <2>2. ViewsTypeOK'
    BY <1>5 DEF ViewsTypeOK, viewVars, place, screen, sessions, actors, viewHistory, ending
  <2>. QED
    BY <2>1, <2>2
<1>. QED
  BY <1>b, <1>1, <1>2, <1>3, <1>4, <1>5 DEF ViewsNext
-----------------------------------------------------------------------------
(* The place and the screen *)

\* _build_view shows the place it is asked for, or asks through the scope it has made.
LEMMA BuildPlaces ==
    ASSUME ViewsTypeOK, NEW a \in Actors, NEW v \in Views, NEW c \in Places,
           NEW sess \in Sessions, BuildView(a, v, c, sess),
           lit' = IF v = "transcript" THEN "archive" ELSE v,
           \A b \in Actors \ {a} : ~Updating(b)
    PROVE  Placed'
<1>. DEFINE to == IF v = "transcript" /\ c = NoChronicle THEN "archive" ELSE v
<1>0. /\ pc \in [Actors -> {"idle", "closing", "asking", "deleting", "stopping", "releasing"}]
      /\ at \in [Actors -> 0..MaxScopes] /\ wanted \in [Actors -> Places]
  BY DEF ViewsTypeOK, Places
<1>1. view' = to /\ selected' = c /\ lit' = IF to = "transcript" THEN "archive" ELSE to
  BY DEF BuildView
<1>2. \A b \in Actors \ {a} : pc'[b] = pc[b]
  BY <1>0 DEF BuildView, Leave
<1>3. \A b \in Actors \ {a} : pc'[b] \notin {"closing", "asking", "deleting"}
  BY <1>2 DEF Updating
<1>4. ASSUME NEW s, to # "transcript", Show(to, NoChronicle, s), scope' = s, Leave(a)
      PROVE  Placed'
  <2>1. pc'[a] = "idle"
    BY <1>0, <1>4 DEF Leave
  <2>2. IsShown'
    BY <1>1, <1>4 DEF IsShown, Show
  <2>. QED
    BY <1>1, <1>3, <2>1, <2>2 DEF Placed
<1>5. ASSUME to = "transcript", scope' = made + 1, pc' = [pc EXCEPT ![a] = "asking"],
             at' = [at EXCEPT ![a] = made + 1], wanted' = [wanted EXCEPT ![a] = c]
      PROVE  Placed'
  <2>1. pc'[a] = "asking" /\ at'[a] = made + 1 /\ wanted'[a] = c
    BY <1>0, <1>5
  <2>. QED
    BY <1>1, <1>3, <1>5, <2>1 DEF Placed
<1>. QED
  BY <1>4, <1>5 DEF BuildView, NewScope

\* update_view shows the place it is asked for, if nothing else was under way.
LEMMA UpdatePlaces ==
    ASSUME ViewsTypeOK, NEW a \in Actors, NEW v \in Views, NEW c \in Places, Update(a, v, c),
           lit' = IF v = "transcript" THEN "archive" ELSE v, ~overlapped', ~failed'
    PROVE  Placed'
<1>0. /\ pc \in [Actors -> {"idle", "closing", "asking", "deleting", "stopping", "releasing"}]
      /\ session \in Sessions
  BY DEF ViewsTypeOK, Sessions
<1>1. \A b \in Actors \ {a} : ~Updating(b)
  BY DEF Update, OthersUpdate
<1>2. CASE BuildView(a, v, c, session)
  BY <1>0, <1>1, <1>2, BuildPlaces
<1>3. CASE view' = v /\ pc' = [pc EXCEPT ![a] = "closing"]
  <2>1. pc'[a] = "closing" /\ \A b \in Actors \ {a} : pc'[b] = pc[b]
    BY <1>0, <1>3
  <2>. QED
    BY <1>1, <1>3, <2>1 DEF Placed, Updating
<1>. QED
  BY <1>2, <1>3 DEF Update

\* What an idle actor finds on screen, when nobody else is in an update.
LEMMA IdleSees ==
    ASSUME PlaceIsKept, app = "running", ~overlapped, ~failed, NEW a \in Actors,
           pc[a] = "idle", ~OthersUpdate(a)
    PROVE  IsShown /\ lit = IF view = "transcript" THEN "archive" ELSE view
BY DEF PlaceIsKept, Placed, OthersUpdate, Updating

\* Where the sidebar, a card, the arrow and a refresh lead is where the sidebar says.
LEMMA BeginPlaces ==
    ASSUME ViewsTypeOK, NotStarted, PlaceIsKept, NEW a \in Actors,
           \/ Start(a) \/ GoBack(a) \/ Refresh(a) \/ Deleted(a)
           \/ \E v \in {"archive", "tasks", "settings"} : Navigate(a, v)
           \/ \E c \in Chronicles : OpenChronicle(a, c)
           \/ a = Worker /\ \E c \in Places : TaskCompleted(c),
           app' = "running", ~overlapped', ~failed'
    PROVE  Placed'
<1>0. /\ view \in Views /\ selected \in Places /\ NoChronicle \in Places
      /\ Chronicles \subseteq Places
      /\ "archive" \in Views /\ "transcript" \in Views
      /\ \A v \in {"archive", "tasks", "settings"} : v \in Views
  BY DEF ViewsTypeOK, Places, Views
<1>1. ASSUME NEW v, NEW c, Update(a, v, c)
      PROVE  ~overlapped /\ ~failed /\ ~OthersUpdate(a)
  <2>1. ~overlapped /\ ~OthersUpdate(a)
    BY <1>1 DEF Update
  <2>2. ~failed
    BY <1>1 DEF Update, ViewsTypeOK
  <2>. QED
    BY <2>1, <2>2
<1>2. CASE Start(a)
  BY <1>0, <1>2, UpdatePlaces DEF Start, Goes, NotStarted
<1>3. CASE GoBack(a)
  BY <1>0, <1>1, <1>3, UpdatePlaces, IdleSees DEF GoBack, Goes, IsShown
<1>4. CASE Refresh(a)
  BY <1>0, <1>1, <1>4, UpdatePlaces, IdleSees DEF Refresh, Goes
<1>5. CASE Deleted(a)
  <2>1. Update(a, "archive", NoChronicle) /\ pc[a] = "deleting" /\ app = "running" /\ lit' = lit
    BY <1>5 DEF Deleted
  <2>2. Placed
    BY <1>1, <2>1 DEF PlaceIsKept
  <2>3. lit = "archive"
    BY <2>1, <2>2 DEF Placed
  <2>. QED
    BY <1>0, <2>1, <2>3, UpdatePlaces
<1>6. ASSUME NEW v \in {"archive", "tasks", "settings"}, Navigate(a, v)
      PROVE  Placed'
  BY <1>0, <1>6, UpdatePlaces DEF Navigate, Goes
<1>7. ASSUME NEW c \in Chronicles, OpenChronicle(a, c)
      PROVE  Placed'
  BY <1>0, <1>1, <1>7, UpdatePlaces, IdleSees DEF OpenChronicle, Goes, IsShown
<1>8. ASSUME NEW c, TaskCompleted(c), a = Worker
      PROVE  Placed'
  BY <1>0, <1>1, <1>8, UpdatePlaces, IdleSees DEF TaskCompleted, Goes
<1>. QED
  BY <1>2, <1>3, <1>4, <1>5, <1>6, <1>7, <1>8

\* The steps that come back to update_view build what the state asked for.
LEMMA ReadPlaces ==
    ASSUME ViewsTypeOK, ViewsKept, PlaceIsKept, NEW a \in Actors,
           ScopeClosed(a) \/ ChronicleRead(a),
           app' = "running", ~overlapped', ~failed'
    PROVE  Placed'
<1>0. /\ view \in Views /\ selected \in Places /\ session \in Sessions
      /\ pc \in [Actors -> {"idle", "closing", "asking", "deleting", "stopping", "releasing"}]
      /\ app = "running" /\ ~failed /\ ~overlapped /\ UNCHANGED lit
  BY DEF ViewsTypeOK, Places, Sessions, ScopeClosed, ChronicleRead, Update, BuildView, viewHistory
<1>1. Placed /\ Alone /\ Updating(a)
  BY <1>0 DEF PlaceIsKept, ViewsKept, SessionInv, ScopeClosed, ChronicleRead, Updating
<1>2. \A b \in Actors \ {a} : ~Updating(b)
  BY <1>1 DEF Alone
<1>3. CASE ScopeClosed(a)
  <2>1. [session EXCEPT ![at[a]] = "idle"] \in Sessions
    BY <1>0 DEF Sessions
  <2>. QED
    BY <1>0, <1>1, <1>2, <1>3, <2>1, BuildPlaces DEF ScopeClosed, Placed
<1>4. CASE ChronicleRead(a)
  <2>0. /\ pc[a] = "asking" /\ view = "transcript" /\ lit = "archive"
        /\ selected = wanted[a] /\ at[a] = scope
    BY <1>1, <1>4 DEF ChronicleRead, Placed
  <2>1. CASE Show("transcript", wanted[a], at[a]) /\ selected' = wanted[a] /\ Leave(a)
             /\ UNCHANGED <<view, sessions>>
    <3>1. pc'[a] = "idle" /\ \A b \in Actors \ {a} : pc'[b] = pc[b]
      BY <1>0, <2>1 DEF Leave
    <3>2. IsShown'
      BY <2>0, <2>1 DEF IsShown, Show, sessions
    <3>. QED
      BY <1>0, <1>2, <2>0, <2>1, <3>1, <3>2 DEF Placed, Updating
  <2>2. CASE Update(a, "archive", NoChronicle)
    BY <1>0, <2>0, <2>2, UpdatePlaces DEF Views, Places
  <2>. QED
    BY <1>4, <2>1, <2>2 DEF ChronicleRead
<1>. QED
  BY <1>3, <1>4

\* What leaves the place, the screen and the actors alone.
LEMMA StillPlaces ==
    ASSUME PlaceIsKept, UNCHANGED <<place, lit, shown, scope, actors, failed, overlapped>>,
           app' = "running" => app = "running"
    PROVE  PlaceIsKept'
BY DEF PlaceIsKept, Placed, IsShown, place, actors

\* Every step keeps the place and the screen together.
LEMMA StepPlaces ==
    ASSUME ViewsTypeOK, ViewsKept, NotStarted, PlaceIsKept, [ViewsNext]_viewVars
    PROVE  PlaceIsKept'
<1>0. Handlers \subseteq Actors /\ Worker \in Actors /\ Chronicles \cup {NoChronicle} = Places
  BY DEF Actors, Places
<1>1. ASSUME NEW h \in Handlers, Clicked(h)
      PROVE  PlaceIsKept'
  <2>1. CASE \/ Start(h) \/ GoBack(h) \/ Refresh(h) \/ Deleted(h)
             \/ \E v \in {"archive", "tasks", "settings"} : Navigate(h, v)
             \/ \E c \in Chronicles : OpenChronicle(h, c)
    BY <1>0, <2>1, BeginPlaces DEF PlaceIsKept
  <2>2. CASE \/ ReloadList(h) \/ ToggleEdit(h) \/ \E c \in Chronicles : DeleteCard(h, c)
    <3>. UNCHANGED <<place, lit, shown, scope, actors, failed, overlapped, app>>
      BY <2>2 DEF ReloadList, ToggleEdit, DeleteCard, viewHistory, screen, sessions
    <3>. QED
      BY StillPlaces
  <2>3. CASE Delete(h)
    <3>. SUFFICES ASSUME app' = "running", ~overlapped', ~failed'
                  PROVE  Placed'
      BY DEF PlaceIsKept
    <3>0. /\ pc \in [Actors -> {"idle", "closing", "asking", "deleting", "stopping", "releasing"}]
          /\ app = "running" /\ ~overlapped /\ ~failed /\ ~OthersUpdate(h) /\ pc[h] = "idle"
          /\ shown.view = "transcript"
          /\ UNCHANGED <<view, selected, lit, shown, scope, at, wanted>>
      BY <2>3 DEF ViewsTypeOK, Delete, place, screen, sessions
    <3>1. IsShown /\ Placed
      BY <1>0, <3>0, IdleSees DEF PlaceIsKept
    <3>2. pc'[h] = "deleting" /\ \A b \in Actors \ {h} : pc'[b] = pc[b]
      BY <1>0, <2>3, <3>0 DEF Delete
    <3>. QED
      BY <3>0, <3>1, <3>2 DEF Placed, IsShown
  <2>4. CASE CleanUp(h) \/ Released(h)
    BY <2>4 DEF CleanUp, Released, PlaceIsKept
  <2>5. CASE Release(h)
    <3>. SUFFICES ASSUME app' = "running", ~overlapped', ~failed'
                  PROVE  Placed'
      BY DEF PlaceIsKept
    <3>0. /\ pc \in [Actors -> {"idle", "closing", "asking", "deleting", "stopping", "releasing"}]
          /\ at \in [Actors -> 0..MaxScopes]
          /\ pc[h] = "stopping" /\ pc' = [pc EXCEPT ![h] = "releasing"]
          /\ at' = [at EXCEPT ![h] = scope]
          /\ app = "running" /\ ~overlapped /\ ~failed
          /\ UNCHANGED <<view, selected, lit, shown, scope, wanted>>
      BY <2>5 DEF ViewsTypeOK, Release, place, screen
    <3>1. /\ pc'[h] = "releasing"
          /\ \A b \in Actors \ {h} : pc'[b] = pc[b] /\ at'[b] = at[b]
      BY <1>0, <3>0
    <3>. QED
      BY <3>0, <3>1 DEF PlaceIsKept, Placed, IsShown
  <2>. QED
    BY <1>1, <2>1, <2>2, <2>3, <2>4, <2>5 DEF Clicked
<1>2. ASSUME NEW a \in Actors, Continue(a)
      PROVE  PlaceIsKept'
  BY <1>2, ReadPlaces DEF Continue, PlaceIsKept
<1>3. CASE WorkerStep
  BY <1>0, <1>2, <1>3, BeginPlaces DEF WorkerStep, PlaceIsKept
<1>4. CASE Background \/ UNCHANGED viewVars
  <2>. UNCHANGED <<place, lit, shown, scope, actors, failed, overlapped, app>>
    BY <1>4 DEF Background, Load, Connected, RefreshModels, ReadInfo, CloseModels, viewHistory,
                screen, sessions, viewVars
  <2>. QED
    BY StillPlaces
<1>. QED
  BY <1>0, <1>1, <1>2, <1>3, <1>4 DEF ViewsNext

\* What leaves the actors, the scope and the end of the window alone.
LEMMA StillEnded ==
    ASSUME Ended, UNCHANGED <<pc, scope, app, crossed>>
    PROVE  Ended'
BY DEF Ended, AfterEnd, Cleaning, Updating

\* An update, of the running window or one that came through its end, leaves the end as it is.
LEMMA UpdateEnded ==
    ASSUME ViewsTypeOK, Ended, NEW a \in Actors, ~Cleaning(a),
           \/ \E v, c : Update(a, v, c)
           \/ \E v, c, sess : BuildView(a, v, c, sess)
           \/ Leave(a),
           app \in {"new", "running"} \/ Updating(a),
           app' = app \/ (app = "new" /\ app' = "running"), UNCHANGED crossed
    PROVE  Ended'
<1>0. pc \in [Actors -> {"idle", "closing", "asking", "deleting", "stopping", "releasing"}]
      /\ app \in {"new", "running", "closing", "closed"}
  BY DEF ViewsTypeOK
<1>1. /\ \A b \in Actors \ {a} : pc'[b] = pc[b]
      /\ pc'[a] \in {"idle", "closing", "asking"}
  BY <1>0 DEF Update, BuildView, Leave
<1>2. app \in {"closing", "closed"} => crossed
  BY <1>0 DEF Ended, AfterEnd
<1>. QED
  BY <1>0, <1>1, <1>2 DEF Ended, Cleaning

\* Nothing begins once the window is closing, and the last cleanup leaves no scope.
LEMMA StepEnd ==
    ASSUME ViewsTypeOK, Ended, [ViewsNext]_viewVars
    PROVE  Ended'
<1>0. /\ Handlers \subseteq Actors /\ Worker \in Actors /\ Actors = Handlers \cup {Worker}
      /\ pc \in [Actors -> {"idle", "closing", "asking", "deleting", "stopping", "releasing"}]
      /\ app \in {"new", "running", "closing", "closed"} /\ crossed \in BOOLEAN
  BY DEF Actors, ViewsTypeOK
<1>1. ASSUME NEW h \in Handlers, Clicked(h)
      PROVE  Ended'
  <2>1. CASE \/ Start(h) \/ GoBack(h) \/ Refresh(h) \/ Deleted(h)
             \/ \E v \in {"archive", "tasks", "settings"} : Navigate(h, v)
             \/ \E c \in Chronicles : OpenChronicle(h, c)
    <3>1. /\ \E v, c : Update(h, v, c)
          /\ pc[h] \in {"idle", "deleting"} /\ UNCHANGED crossed
          /\ app \in {"new", "running"} \/ pc[h] = "deleting"
          /\ app' = app \/ (app = "new" /\ app' = "running")
      BY <2>1 DEF Start, GoBack, Refresh, Deleted, Navigate, OpenChronicle, Goes, ending
    <3>. QED
      BY <1>0, <3>1, UpdateEnded DEF Cleaning, Updating
  <2>2. CASE \/ ReloadList(h) \/ ToggleEdit(h) \/ \E c \in Chronicles : DeleteCard(h, c)
    BY <2>2, StillEnded
    DEF ReloadList, ToggleEdit, DeleteCard, viewHistory, ending, actors, sessions
  <2>3. CASE Delete(h)
    <3>1. /\ app = "running" /\ app' = "running"
          /\ pc'[h] = "deleting" /\ \A b \in Actors \ {h} : pc'[b] = pc[b]
      BY <1>0, <2>3 DEF Delete
    <3>. QED
      BY <3>1 DEF Ended, Cleaning
  <2>4. CASE CleanUp(h)
    <3>1. /\ pc'[h] = "stopping" /\ pc[h] = "idle" /\ pc'[Worker] = "idle"
          /\ \A b \in Actors \ {h, Worker} : pc'[b] = pc[b]
          /\ app' = (IF app = "running" THEN "closing" ELSE app) /\ app # "new"
          /\ crossed' = (crossed \/ BusyHandlers # {}) /\ scope' = scope
      BY <1>0, <2>4, ViewAssumption DEF CleanUp
    <3>2. ASSUME ~crossed'
          PROVE  AfterEnd'
      <4>1. ~crossed /\ \A b \in Handlers : pc[b] = "idle"
        BY <3>1, <3>2 DEF BusyHandlers
      <4>2. \A b \in Actors \ {h} : pc'[b] = "idle"
        BY <1>0, <3>1, <4>1
      <4>3. app' = "closed" => scope' = 0
        BY <3>1, <4>1 DEF Ended, AfterEnd
      <4>. QED
        BY <3>1, <4>2, <4>3 DEF AfterEnd, Updating, Cleaning
    <3>. QED
      BY <1>0, <3>1, <3>2 DEF Ended
  <2>5. CASE Release(h) \/ Released(h)
    <3>1. /\ Cleaning(h) /\ app \in {"closing", "closed"} /\ UNCHANGED crossed
          /\ \A b \in Actors \ {h} : pc'[b] = pc[b]
          /\ pc'[h] \in {"idle", "releasing"} /\ app' \in {app, "closed"}
      BY <1>0, <2>5 DEF Release, Released, Leave, Cleaning, Ended, viewHistory, ending
    <3>2. ASSUME ~crossed
          PROVE  AfterEnd'
      <4>0. AfterEnd
        BY <1>0, <3>1, <3>2 DEF Ended
      <4>1. /\ \A b \in Actors : ~Updating(b)'
            /\ \A b, d \in Actors : Cleaning(b)' /\ Cleaning(d)' => b = d
            /\ \A b \in Actors \ {h} : pc'[b] # "releasing"
        BY <1>0, <3>1, <4>0 DEF AfterEnd, Updating, Cleaning
      <4>2. CASE Leave(h)
        <5>1. pc'[h] = "idle"
          BY <1>0, <4>2 DEF Leave
        <5>2. app' = "closed" => scope' = 0
          BY <2>5, <4>0 DEF Release, Released, AfterEnd
        <5>. QED
          BY <4>1, <5>1, <5>2 DEF AfterEnd
      <4>3. CASE Release(h) /\ ViewSession = "open" /\ UNCHANGED app
        <5>1. app # "closed"
          BY <4>0, <4>3 DEF AfterEnd, ViewSession
        <5>. QED
          BY <4>1, <4>3, <5>1 DEF AfterEnd
      <4>. QED
        BY <2>5, <4>2, <4>3 DEF Release, Released
    <3>. QED
      BY <1>0, <3>1, <3>2 DEF Ended
  <2>. QED
    BY <1>1, <2>1, <2>2, <2>3, <2>4, <2>5 DEF Clicked
<1>2. ASSUME NEW a \in Actors, Continue(a)
      PROVE  Ended'
  <2>1. /\ \/ \E v, c : Update(a, v, c)
           \/ \E v, c, sess : BuildView(a, v, c, sess)
           \/ Leave(a)
        /\ pc[a] \in {"closing", "asking"} /\ UNCHANGED <<app, crossed>>
    BY <1>2 DEF Continue, ScopeClosed, ChronicleRead, viewHistory, ending
  <2>. QED
    BY <2>1, UpdateEnded DEF Cleaning, Updating
<1>3. CASE WorkerStep
  <2>1. ASSUME NEW c, TaskCompleted(c)
        PROVE  Ended'
    <3>1. /\ Update(Worker, view, selected) /\ pc[Worker] = "idle"
          /\ app = "running" /\ UNCHANGED <<app, crossed>>
      BY <2>1 DEF TaskCompleted, Goes, ending
    <3>. QED
      BY <1>0, <3>1, UpdateEnded DEF Cleaning
  <2>. QED
    BY <1>0, <1>2, <1>3, <2>1 DEF WorkerStep
<1>4. CASE Background \/ UNCHANGED viewVars
  BY <1>4, StillEnded
  DEF Background, Load, Connected, RefreshModels, ReadInfo, CloseModels, viewHistory, ending,
      actors, sessions, viewVars
<1>. QED
  BY <1>0, <1>1, <1>2, <1>3, <1>4 DEF ViewsNext

\* Before the start no step changes the place or an actor.
LEMMA StepNew ==
    ASSUME NotStarted, [ViewsNext]_viewVars
    PROVE  NotStarted'
<1>1. ASSUME NEW h \in Handlers, Clicked(h)
      PROVE  NotStarted'
  BY <1>1 DEF Clicked, Start, GoBack, Refresh, Delete, Deleted, ReloadList, ToggleEdit, CleanUp,
              Release, Released, Navigate, OpenChronicle, DeleteCard, Goes, NotStarted, Actors
<1>2. ASSUME NEW a \in Actors, Continue(a)
      PROVE  NotStarted'
  BY <1>2 DEF Continue, ScopeClosed, ChronicleRead, NotStarted
<1>3. CASE WorkerStep
  BY <1>2, <1>3 DEF WorkerStep, TaskCompleted, NotStarted, Actors
<1>4. CASE Background \/ UNCHANGED viewVars
  <2>. UNCHANGED <<view, lit, pc, app>>
    BY <1>4 DEF Background, Load, Connected, RefreshModels, ReadInfo, CloseModels, place, actors,
                viewVars
  <2>. QED
    BY DEF NotStarted
<1>. QED
  BY <1>1, <1>2, <1>3, <1>4 DEF ViewsNext, Actors

\* The application as it is made satisfies the invariant.
LEMMA FirstState ==
    ViewsInit => ViewsInv
<1>. SUFFICES ASSUME ViewsInit
              PROVE  ViewsInv
  OBVIOUS
<1>1. ViewsTypeOK
  <2>0. 0 \in 0..MaxScopes /\ 0 \in 0..3 /\ 0 \in 0..2 /\ NoChronicle \in Places
    BY ViewAssumption DEF Places
  <2>1. Aside
    BY <2>0 DEF ViewsInit, Aside, Views
  <2>2. ActorTypes
    BY <2>0 DEF ViewsInit, ActorTypes
  <2>3. PlaceTypes
    BY <2>0 DEF ViewsInit, PlaceTypes, Views
  <2>4. ScopeTypes
    BY <2>0 DEF ViewsInit, ScopeTypes, Sessions
  <2>. QED
    BY <2>1, <2>2, <2>3, <2>4, TypeParts
<1>2. Waiting /\ Made
  BY DEF ViewsInit, Waiting, Waits, Made
<1>3. SessionInv
  BY DEF ViewsInit, SessionInv, Alone, Updating, ClosesScope, Closing, Counted, Open
<1>4. Ended /\ NotStarted /\ PlaceIsKept
  BY DEF ViewsInit, Ended, Cleaning, NotStarted, PlaceIsKept
<1>. QED
  BY <1>1, <1>2, <1>3, <1>4 DEF ViewsInv

\* The inductive invariant: the types, the scopes in use, the sessions and the place.
THEOREM ViewsInductive == ViewsSpec => []ViewsInv
<1>1. ViewsInv /\ [ViewsNext]_viewVars => ViewsInv'
  BY StepKeeps, StepEnd, StepNew, StepPlaces DEF ViewsInv, ViewsKept
<1>. QED
  BY <1>1, FirstState, PTL DEF ViewsSpec

\* Type correctness of the views, their scopes and the actors of the event loop.
THEOREM ViewsTypes == ViewsSpec => []ViewsTypeOK
<1>1. ViewsInv => ViewsTypeOK
  BY DEF ViewsInv
<1>. QED
  BY <1>1, ViewsInductive, PTL

\* update_view, go_back and cleanup lose no session: one that has a connection is the
\* view's, the model list's, or was opened again by a view that had been left, and the
\* view's is closed too when the engines are disposed, if nothing crossed the cleanup; for
\* any number of handlers and scopes.
THEOREM NoSessionIsLost == ViewsSpec => []SessionsAccounted
<1>1. ViewsInv => SessionsAccounted
  BY DEF ViewsInv, SessionInv, Counted, Ended, AfterEnd, SessionsAccounted, Accounted, Scopes
<1>. QED
  BY <1>1, ViewsInductive, PTL

\* The screen, the state and the sidebar name one place whenever no update is under way and
\* none failed or began inside another, for any number of handlers and chronicles.
THEOREM ScreenIsCurrent == ViewsSpec => []ShownIsCurrent
<1>1. ViewsInv => ShownIsCurrent
  BY DEF ViewsInv, PlaceIsKept, Placed, IsShown, ShownIsCurrent, Updating
<1>. QED
  BY <1>1, ViewsInductive, PTL
==============================================================================
