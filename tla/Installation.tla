---------------------------- MODULE Installation -----------------------------
(***************************************************************************)
(* `af setup [--check]` and `af service` (crates/af-cli/src/cmd/setup.rs,  *)
(* service.rs): make the resident receiver run under launchd or systemd,   *)
(* then inspect the agents' configuration files, and replace those that    *)
(* need a change, each after a backup.  A run may fail or be killed at any *)
(* step and be started again; the user may edit the files at any time.     *)
(*                                                                         *)
(* The service manager, the user and the agents are the environment.       *)
(***************************************************************************)
EXTENDS Naturals, Sequences, FiniteSets

CONSTANTS
    Managers,     \* the service managers: {"launchd", "systemd"} or one of them
    Wanted,       \* the service definitions (binary, address) runs may install
    Nothing,      \* no file, no definition
    MaxRuns,      \* bound: times the installer is started
    MaxStumbles,  \* bound: failed steps and kills
    MaxEdits      \* bound: edits by the user

VARIABLES
    manager,   \* the service manager of this machine
    step,      \* the installer: "idle" or what it does next
    run,       \* its arguments, and what it found: see StartRun
    changes,   \* the changes it planned and has not finished
    unitFile,  \* the service definition on disk; "torn" after half a write
    loaded,    \* the definition the service manager holds
    running,   \* the definition the running receiver was started from
    disk,      \* file -> contents or Nothing
    backups,   \* file -> contents saved beside it
    executable, \* may the hook file be executed?
    lastEdit,  \* history: file -> number of the user's latest edit
    raced,     \* history: files edited between the backup and the replacement
    stumbles   \* failed steps and kills so far

serviceVars == <<manager, unitFile, loaded, running>>
fileVars == <<disk, backups, executable>>
instVars == <<step, run, changes, serviceVars, fileVars, lastEdit, raced, stumbles>>

ConfigFiles == {"codex", "hook", "settings"}
Edits == lastEdit.codex + lastEdit.hook + lastEdit.settings
Stumble == stumbles < MaxStumbles /\ stumbles' = stumbles + 1
Step(s) == step' = s

(* The contents of a file: `edit` is the user's edit it stems from.  A Codex  *)
(* configuration has an exporter; the Claude settings an OTLP endpoint and,   *)
(* for a hook event, entries, each a list of commands: "af" is the command    *)
(* setup registers, "oldaf" one an earlier version did.                       *)
CodexFile(edit, exporter) == [edit |-> edit, exporter |-> exporter]
HookFile(edit, script) == [edit |-> edit, script |-> script]
SettingsFile(edit, endpoint, entries) == [edit |-> edit, endpoint |-> endpoint, entries |-> entries]

Endpoints == {"none", "af", "other"}
Scripts == {"old", "af", "mine"}
Entries == Seq(Seq({"user", "af", "oldaf"}))
Contents == [edit : Nat, exporter : Endpoints] \cup [edit : Nat, script : Scripts]
              \cup [edit : Nat, endpoint : Endpoints, entries : Entries]

ASSUME InstAssumption ==
    /\ Managers \subseteq {"launchd", "systemd"}
    /\ Nothing \notin Wanted \cup {"torn"} /\ Nothing \notin Contents

-----------------------------------------------------------------------------
(* What setup wants the files to be.                                       *)

ManagedHooks == {"af", "oldaf"}
ManagedIn(entries) == {i \in DOMAIN entries : Head(entries[i]) \in ManagedHooks}

\* The elements of a sequence at some places, in their order.
Picked(seq, places) ==
    [n \in 1..Cardinality(places) |->
        seq[CHOOSE i \in places : Cardinality({j \in places : j <= i}) = n]]

\* merge_claude_settings: entries whose first command is af's are replaced by
\* one entry at the end; the user's stay, in their order.
MergeEntries(entries) ==
    Append(Picked(entries, DOMAIN entries \ ManagedIn(entries)), <<"af">>)
MergeSettings(settings) ==
    LET old == IF settings = Nothing THEN SettingsFile(0, "none", <<>>) ELSE settings
    IN  SettingsFile(old.edit, "af", MergeEntries(old.entries))

DesiredContents(file) ==
    CASE file = "codex" -> CodexFile(IF disk.codex = Nothing THEN 0 ELSE disk.codex.edit, "af")
      [] file = "hook" -> HookFile(0, "af")
      [] file = "settings" -> MergeSettings(disk.settings)

\* An exporter or endpoint that is not af's is the user's to resolve.
ConflictsIn(files) ==
    \/ "codex" \in files /\ disk.codex # Nothing /\ disk.codex.exporter = "other"
    \/ "settings" \in files /\ disk.settings # Nothing /\ disk.settings.endpoint = "other"

\* The hook is compared by its contents alone.
UpToDate(file) ==
    IF file = "hook" THEN disk.hook # Nothing /\ disk.hook.script = "af"
                     ELSE disk[file] = DesiredContents(file)

-----------------------------------------------------------------------------
InstInit ==
    /\ step = "idle" /\ changes = <<>>
    /\ run = [command |-> Nothing, want |-> Nothing, files |-> {}, number |-> 0,
              clean |-> TRUE, changed |-> FALSE, touched |-> FALSE]
    /\ manager \in Managers
    /\ unitFile = Nothing /\ loaded = Nothing /\ running = Nothing
    /\ disk \in [codex : {Nothing}, hook : {Nothing, HookFile(0, "old")},
                 settings : {Nothing, SettingsFile(0, "none", << <<"user">>, <<"oldaf">> >>)}]
    /\ backups = [file \in ConfigFiles |-> {}]
    /\ executable = (disk.hook # Nothing)
    /\ lastEdit = [file \in ConfigFiles |-> 0]
    /\ raced = {} /\ stumbles = 0

\* Half-way states an earlier run can leave: a definition on disk that the
\* manager does not hold, and a hook that was put there and not made executable.
LeftHalfway ==
    \/ loaded \notin {Nothing, unitFile}
    \/ disk.hook # Nothing /\ disk.hook.script = "af" /\ ~executable

\* `af service install` always installs the service, `af service start` only
\* restarts what the manager holds; `af setup` installs it when the receiver
\* does not answer, and `af setup --check` never does (prepare_receiver).
FirstStep(command) ==
    CASE command = "install" -> "define"
      [] command = "start" /\ loaded # Nothing -> "kickstart"
      [] command \in {"setup", "check"} /\ running # Nothing -> "inspect"
      [] command = "setup" /\ running = Nothing -> "define"
      [] OTHER -> "idle"

\* The agents that are on the PATH decide which files a setup looks at.
StartRun(command, want, files) ==
    /\ step = "idle" /\ run.number < MaxRuns
    /\ run' = [command |-> command, want |-> want, files |-> files, number |-> run.number + 1,
               clean |-> ~LeftHalfway, changed |-> FALSE, touched |-> FALSE]
    /\ Step(FirstStep(command))
    /\ changes' = <<>>
    /\ UNCHANGED <<serviceVars, fileVars, lastEdit, raced, stumbles>>

-----------------------------------------------------------------------------
(* The service.                                                            *)

\* write_if_changed.
WriteDefinition ==
    /\ step = "define"
    /\ unitFile' = run.want
    /\ run' = [run EXCEPT !.changed = unitFile # run.want]
    /\ Step(IF manager = "launchd" THEN "update" ELSE "reload")
    /\ UNCHANGED <<changes, manager, loaded, running, fileVars, lastEdit, raced, stumbles>>

\* launchd_update: (loaded, definition changed).
LaunchdUpdateIgnoresChange(isLoaded, changed) == IF isLoaded THEN "kickstart" ELSE "bootstrap"
LaunchdUpdate(isLoaded, changed) ==
    CASE isLoaded /\ ~changed -> "kickstart"
      [] isLoaded /\ changed -> "bootout"
      [] OTHER -> "bootstrap"

UpdateLaunchd ==
    /\ step = "update"
    /\ Step(LaunchdUpdate(loaded # Nothing, run.changed))
    /\ UNCHANGED <<run, changes, serviceVars, fileVars, lastEdit, raced, stumbles>>

\* bootout, and the wait until the manager has let go of the service.
Bootout ==
    /\ step = "bootout"
    /\ loaded' = Nothing /\ running' = Nothing
    /\ Step("bootstrap")
    /\ UNCHANGED <<run, changes, manager, unitFile, fileVars, lastEdit, raced, stumbles>>

Bootstrap ==
    /\ step = "bootstrap"
    /\ loaded' = unitFile
    /\ Step("kickstart")
    /\ UNCHANGED <<run, changes, manager, unitFile, running, fileVars, lastEdit, raced, stumbles>>

\* kickstart -k, or enable --now and restart: the receiver is started from the
\* definition the manager holds.
Kickstart ==
    /\ step = "kickstart"
    /\ running' = loaded
    /\ Step("reach")
    /\ UNCHANGED <<run, changes, manager, unitFile, loaded, fileVars, lastEdit, raced, stumbles>>

\* systemd: daemon-reload takes the definition on disk.
DaemonReload ==
    /\ step = "reload"
    /\ loaded' = unitFile
    /\ Step("kickstart")
    /\ UNCHANGED <<run, changes, manager, unitFile, running, fileVars, lastEdit, raced, stumbles>>

\* service_active and wait_until_reachable; setup goes on to the agents.
Reach ==
    /\ step = "reach"
    /\ Step(IF run.command = "setup" THEN "inspect" ELSE "done")
    /\ UNCHANGED <<run, changes, serviceVars, fileVars, lastEdit, raced, stumbles>>

-----------------------------------------------------------------------------
(* The agents' files.                                                      *)

\* One change for every file that is not what setup wants, in this order.
SetupOrder == <<"codex", "hook", "settings">>
Plans ==
    LET stale == Picked(SetupOrder, {i \in DOMAIN SetupOrder : /\ SetupOrder[i] \in run.files
                                                             /\ ~UpToDate(SetupOrder[i])})
    IN  [i \in 1..Len(stale) |-> [file |-> stale[i], contents |-> DesiredContents(stale[i])]]

\* inspect: any conflict stops the run before anything is written; otherwise
\* the contents are planned now and written after the user's confirmation.
\* With --check anything to do is a failure.
InspectAgents ==
    /\ step = "inspect"
    /\ IF ConflictsIn(run.files)
         THEN Step("idle") /\ UNCHANGED changes
         ELSE /\ changes' = IF run.command = "check" THEN <<>> ELSE Plans
              /\ Step(CASE Plans = <<>> -> "done"
                        [] run.command = "check" /\ Plans # <<>> -> "idle"
                        [] OTHER -> "confirm")
    /\ UNCHANGED <<run, serviceVars, fileVars, lastEdit, raced, stumbles>>

Confirm ==
    /\ step = "confirm"
    /\ \/ Step("backup") /\ UNCHANGED changes
       \/ Step("idle") /\ changes' = <<>>
    /\ UNCHANGED <<run, serviceVars, fileVars, lastEdit, raced, stumbles>>

\* write_config: copy what is there now, then replace it in one rename.
CopiesOnce(file) == IF disk[file] = Nothing \/ backups[file] # {} THEN {} ELSE {disk[file]}
Copies(file) == IF disk[file] = Nothing THEN {} ELSE {disk[file]}

BackUp ==
    /\ step = "backup"
    /\ LET file == Head(changes).file IN
         backups' = [backups EXCEPT ![file] = @ \cup Copies(file)]
    /\ Step("replace")
    /\ UNCHANGED <<run, changes, serviceVars, disk, executable, lastEdit, raced, stumbles>>

\* The new file has the mode of the one it replaces, and is private otherwise.
Replace ==
    /\ step = "replace"
    /\ LET change == Head(changes) IN
         /\ disk' = [disk EXCEPT ![change.file] = change.contents]
         /\ executable' = IF change.file = "hook" THEN disk.hook # Nothing /\ executable
                                                  ELSE executable
         /\ Step(IF change.file = "hook" THEN "chmod" ELSE "next")
    /\ UNCHANGED <<run, changes, serviceVars, backups, lastEdit, raced, stumbles>>

MakeExecutable ==
    /\ step = "chmod"
    /\ executable' = TRUE
    /\ Step("next")
    /\ UNCHANGED <<run, changes, serviceVars, disk, backups, lastEdit, raced, stumbles>>

NextChange ==
    /\ step = "next"
    /\ changes' = Tail(changes)
    /\ Step(IF Len(changes) = 1 THEN "done" ELSE "backup")
    /\ UNCHANGED <<run, serviceVars, fileVars, lastEdit, raced, stumbles>>

FinishRun ==
    /\ step = "done" /\ Step("idle")
    /\ UNCHANGED <<run, changes, serviceVars, fileVars, lastEdit, raced, stumbles>>

-----------------------------------------------------------------------------
\* A step fails, or the run is killed before it: everything done so far stays.
\* A definition is written in place, so that a kill may leave a part of it.
Stop ==
    /\ step \notin {"idle", "done"} /\ Stumble
    /\ unitFile' \in IF step = "define" THEN {unitFile, "torn"} ELSE {unitFile}
    /\ Step("idle") /\ changes' = <<>>
    /\ UNCHANGED <<manager, run, loaded, running, fileVars, lastEdit, raced>>

\* The user saves a file of their own making, in one rename or write.
UserVersions(file, edit) ==
    CASE file = "codex" -> {CodexFile(edit, "none"), CodexFile(edit, "other")}
      [] file = "hook" -> {HookFile(edit, "mine")}
      [] file = "settings" ->
            {SettingsFile(edit, "none", << <<"user">> >>), SettingsFile(edit, "other", <<>>),
             SettingsFile(edit, "af", << <<"af">>, <<"user", "af">> >>)}

EditFile(file) ==
    /\ Edits < MaxEdits
    /\ lastEdit' = [lastEdit EXCEPT ![file] = Edits + 1]
    /\ \E version \in UserVersions(file, Edits + 1) : disk' = [disk EXCEPT ![file] = version]
    /\ executable' = IF file = "hook" THEN TRUE ELSE executable
    /\ raced' = IF step = "replace" /\ Head(changes).file = file THEN raced \cup {file}
                                                                ELSE raced \ {file}
    /\ run' = [run EXCEPT !.touched = TRUE]
    /\ UNCHANGED <<step, changes, serviceVars, backups, stumbles>>

-----------------------------------------------------------------------------
InstStart ==
    \/ \E want \in Wanted : StartRun("install", want, {})
    \/ StartRun("start", Nothing, {})
    \/ \E files \in {ConfigFiles, {"hook", "settings"}} :
         \/ \E want \in Wanted : StartRun("setup", want, files)
         \/ StartRun("check", Nothing, files)
ServiceStep == WriteDefinition \/ UpdateLaunchd \/ Bootout \/ Bootstrap \/ DaemonReload
                 \/ Kickstart \/ Reach
SetupStep == InspectAgents \/ Confirm \/ BackUp \/ Replace \/ MakeExecutable
               \/ NextChange \/ FinishRun
UserStep == \E file \in ConfigFiles : EditFile(file)

InstNext == InstStart \/ ServiceStep \/ SetupStep \/ Stop \/ UserStep

InstSpec == InstInit /\ [][InstNext]_instVars

-----------------------------------------------------------------------------
Registered == Picked(disk.settings.entries, ManagedIn(disk.settings.entries))

\* A run that ends with its success message has installed what it was asked
\* to: the service it defined is the one that runs; the files it looked at are
\* as it wants them, so that the next run finds nothing to do; and the hook
\* that the settings name can be executed.  That holds of a run that did not
\* start from what a failed run left half-way, and that the user let finish.
SuccessMeansInstalled ==
    step = "done" /\ run.clean /\ ~run.touched =>
        /\ running # Nothing
        /\ run.command = "install" => running = run.want
        /\ run.command \in {"setup", "check"} =>
             /\ \A file \in run.files : UpToDate(file)
             /\ "hook" \in run.files => executable
             /\ "settings" \in run.files => Registered = << <<"af">> >>

\* write_config: what the user last saved is on disk or in a backup, unless
\* they saved it in the moment between the two.
EditsSurvive ==
    \A file \in ConfigFiles \ raced :
        lastEdit[file] > 0 =>
            \E contents \in backups[file] \cup {disk[file]} :
                contents # Nothing /\ contents.edit = lastEdit[file]
=============================================================================
