------------------------------ MODULE StudioSync ------------------------------
(***************************************************************************)
(* uipath push and uipath pull: workspaces that synchronise with one       *)
(* project of Studio Web.  Nothing locks the project for the length of a   *)
(* command: what keeps one developer from undoing the work of another is   *)
(* the codeVersion of .uipath/studio_metadata.json, which a push compares  *)
(* and increments.                                                         *)
(*                                                                         *)
(* A file's content is a number, a fresh one for every edit, 0 if there is *)
(* no such file.  A version is the patch number plus one, 0 if there is no *)
(* metadata file.  Developers edit while no command of theirs runs.        *)
(*                                                                         *)
(* A definition marked `variant' is a plausible mistake in the one below   *)
(* it; no action uses it.                                                  *)
(***************************************************************************)
EXTENDS Naturals, FiniteSets

CONSTANTS
    Workspaces,
    Files,        \* source files, without the metadata file
    InFolder,     \* those in the evaluations folder
    Prefixed,     \* those whose path starts with that folder's name
    Binary,       \* those that are no UTF-8 text
    Meta,         \* the metadata file
    MaxEdits,     \* bound: local changes
    MaxCommands   \* bound: commands

Initial == 1      \* AGENT_INITIAL_CODE_VERSION
Trees == [Files -> Nat]

ASSUME SyncAssumption ==
    /\ InFolder \subseteq Prefixed /\ Prefixed \subseteq Files /\ Binary \subseteq Files
    /\ Meta \notin Files
    /\ MaxEdits \in Nat /\ MaxCommands \in Nat

VARIABLES
    remote,     \* the project's files
    remoteVer,  \* the codeVersion of its metadata file
    folder,     \* it has the evaluations folder
    local,      \* the files of each workspace
    dir,        \* the workspace has the evaluations folder
    ver,        \* the codeVersion of its metadata file
    cmd,        \* the command that runs in it
    edits,
    commands,
    base,       \* history: what each developer last knew the project's files to be
    blind       \* history: the workspace's version says nothing about base

project == <<remote, remoteVer, folder>>
workspace == <<local, dir, ver>>
bounds == <<edits, commands>>
history == <<base, blind>>
vars == <<project, workspace, cmd, bounds, history>>

\* asked: the developer has agreed to overwrite; seen, meta: the structure the
\* client has cached; unread: the remote metadata could not be read; overlap,
\* history: another command has changed the project since this one began.
Idle == [pc |-> "idle", kind |-> "push", asked |-> FALSE, seen |-> {}, meta |-> FALSE,
         todo |-> {}, mods |-> {}, unread |-> FALSE, overlap |-> FALSE]

Init ==
    /\ remote = [p \in Files |-> 0] /\ remoteVer = 0 /\ folder = FALSE
    /\ local = [w \in Workspaces |-> [p \in Files |-> 0]]
    /\ dir = [w \in Workspaces |-> FALSE]
    /\ ver \in [Workspaces -> {0, Initial}]     \* uipath init writes the file
    /\ cmd = [w \in Workspaces |-> Idle]
    /\ edits = 0 /\ commands = 0
    /\ base = [w \in Workspaces |-> [p \in Files |-> 0]]
    /\ blind = [w \in Workspaces |-> ver[w] # 0]

Present(tree) == {p \in Files : tree[p] # 0}
At(w, pc) == cmd[w].pc = pc
Becomes(w, c) == cmd' = [cmd EXCEPT ![w] = c]
Ends(w) == Becomes(w, Idle)

\* A step that changes the project overlaps every other command in progress.
Overlapped(w, c) ==
    [x \in Workspaces |->
        IF x = w THEN c ELSE IF cmd[x] = Idle THEN Idle ELSE [cmd[x] EXCEPT !.overlap = TRUE]]

-------------------------------------------------------------------------------
(***************************************************************************)
(* The developer.                                                          *)
(***************************************************************************)
Edit(w, p) ==
    /\ At(w, "idle") /\ edits < MaxEdits
    /\ edits' = edits + 1
    /\ \/ local' = [local EXCEPT ![w][p] = edits + 1]
       \/ local[w][p] # 0 /\ local' = [local EXCEPT ![w][p] = 0]
    /\ dir' = [dir EXCEPT ![w] = @ \/ p \in InFolder]
    /\ UNCHANGED <<project, ver, cmd, commands, history>>

RemoveFolder(w) ==
    /\ At(w, "idle") /\ dir[w] /\ edits < MaxEdits
    /\ edits' = edits + 1
    /\ dir' = [dir EXCEPT ![w] = FALSE]
    /\ local' = [local EXCEPT ![w] = [p \in Files |-> IF p \in InFolder THEN 0 ELSE @[p]]]
    /\ UNCHANGED <<project, ver, cmd, commands, history>>

-------------------------------------------------------------------------------
(***************************************************************************)
(* Both commands: the structure is fetched once, by                        *)
(* ensure_coded_agent_project, and everything up to the clean-up works     *)
(* from that copy.                                                         *)
(***************************************************************************)
\* The files a command goes through.
Items(w, c) ==
    IF c.kind = "push" THEN Present(local[w]) \cap c.seen
    ELSE c.seen \cup {m \in {Meta} : c.meta}
Started(w, c) ==
    [c EXCEPT !.pc = IF c.kind = "push" THEN "compare" ELSE "download", !.todo = Items(w, c)]

Begin(w, kind, overwrite) ==
    /\ At(w, "idle") /\ commands < MaxCommands
    /\ commands' = commands + 1
    /\ LET c == [Idle EXCEPT !.pc = "check", !.kind = kind, !.asked = overwrite,
                             !.seen = Present(remote), !.meta = (remoteVer # 0)]
       IN Becomes(w, IF overwrite THEN Started(w, c) ELSE c)
    /\ UNCHANGED <<project, workspace, edits, history>>

\* may_override_files: nothing to ask for when the local version is not behind.
\* variant: the local version only has to be set
Versioned(w) == ver[w] # 0
UpToDate(w) == ver[w] >= remoteVer
NeedNotAsk(w) == ~cmd[w].meta \/ (ver[w] # 0 /\ UpToDate(w))

\* The metadata cannot be fetched, or the developer says no: the command ends.
MayOverride(w) ==
    /\ At(w, "check")
    /\ \/ NeedNotAsk(w) /\ Becomes(w, Started(w, cmd[w]))
       \/ ~NeedNotAsk(w) /\ Becomes(w, Started(w, [cmd[w] EXCEPT !.asked = TRUE]))
       \/ cmd[w].meta /\ Ends(w)
    /\ UNCHANGED <<project, workspace, bounds, history>>

-------------------------------------------------------------------------------
(***************************************************************************)
(* push.                                                                   *)
(***************************************************************************)
\* A file that cannot be downloaded or decoded is updated.
Differs(w, p) == {TRUE, remote[p] # local[w][p] \/ p \in Binary}

Compare(w, p) ==
    /\ At(w, "compare") /\ p \in cmd[w].todo
    /\ \E modified \in Differs(w, p) :
          Becomes(w, [cmd[w] EXCEPT !.todo = @ \ {p},
                                    !.mods = IF modified THEN @ \cup {p} ELSE @])
    /\ UNCHANGED <<project, workspace, bounds, history>>

\* variant: the local version is incremented instead of the remote one
OwnIncrement(w) == ver[w] + 1
NextVersion(w) == remoteVer + 1

\* _prepare_metadata_file writes the local file before anything is sent.
PrepareMetadata(w) ==
    /\ At(w, "compare") /\ cmd[w].todo = {}
    /\ LET own == IF ver[w] = 0 THEN Initial ELSE ver[w]
       IN \/ /\ ver' = [ver EXCEPT ![w] = IF cmd[w].meta THEN NextVersion(w) ELSE own]
             /\ Becomes(w, [cmd[w] EXCEPT !.pc = "migrate"])
          \/ /\ cmd[w].meta                          \* it cannot be read or parsed
             /\ ver' = [ver EXCEPT ![w] = own]
             /\ Becomes(w, [cmd[w] EXCEPT !.pc = "migrate", !.unread = TRUE])
    /\ UNCHANGED <<project, local, dir, bounds, history>>

\* _collect_deleted_files skips the paths that start with the name of a folder
\* the workspace does not have.
Ignored(w) == IF dir[w] THEN {} ELSE Prefixed
Adds(w) == Present(local[w]) \ cmd[w].seen
Deletes(w) == (cmd[w].seen \ Present(local[w])) \ Ignored(w)

\* What the service makes of the migration.  A file that another push has
\* deleted has lost its id: the service refuses the request or passes over it.
Migrated(w) ==
    [p \in Files |->
        CASE p \in Adds(w) -> local[w][p]
          [] p \in cmd[w].mods /\ remote[p] # 0 -> local[w][p]
          [] p \in Deletes(w) -> 0
          [] OTHER -> remote[p]]

\* Applied: either the answer arrives or it is lost, and then the push reports
\* a failure.
Migrate(w) ==
    /\ At(w, "migrate")
    /\ remote' = Migrated(w)
    /\ remoteVer' = ver[w]
    /\ folder' = (folder \/ Adds(w) \cap InFolder # {})
    /\ \E next \in {Idle, [cmd[w] EXCEPT !.pc = "clean"]} : cmd' = Overlapped(w, next)
    /\ base' = [base EXCEPT ![w] = [p \in Files |-> IF remote'[p] = local[w][p] THEN remote'[p] ELSE @[p]]]
    /\ blind' = [x \in Workspaces |->
                    IF x = w THEN \E p \in Files : remote'[p] # local[w][p]
                    ELSE blind[x] \/ cmd[w].overlap \/ cmd[w].unread]
    /\ UNCHANGED <<workspace, bounds>>

\* variant: a locked project is tried again until it is free
UntilFree(w) == [cmd[w] EXCEPT !.pc = "compare"]
\* with_lock_retry turns a 423 into an error and tries nothing again.
AfterLocked(w) == Idle

\* The lock cannot be had, or the request fails.
MigrateFails(w) ==
    /\ At(w, "migrate")
    /\ \E next \in {Idle, AfterLocked(w)} : Becomes(w, next)
    /\ blind' = [blind EXCEPT ![w] = TRUE]
    /\ UNCHANGED <<project, workspace, bounds, base>>

\* variant: a folder is taken for empty when this push left nothing in it
NothingOfMine(w) == Present(local[w]) \cap InFolder = {}
FolderEmpty(w) == Present(remote) \cap InFolder = {}

\* _cleanup_empty_folders fetches the structure again ...
FindEmptyFolders(w) ==
    /\ At(w, "clean")
    /\ IF folder /\ FolderEmpty(w) THEN Becomes(w, [cmd[w] EXCEPT !.pc = "rmdir", !.overlap = FALSE])
                                   ELSE Ends(w)
    /\ UNCHANGED <<project, workspace, bounds, history>>

\* ... and deletes the folders it found empty, with whatever is in them by then.
DeleteFolder(w) ==
    /\ At(w, "rmdir")
    /\ folder' = FALSE
    /\ remote' = [p \in Files |-> IF p \in InFolder THEN 0 ELSE remote[p]]
    /\ cmd' = Overlapped(w, Idle)
    /\ UNCHANGED <<remoteVer, workspace, bounds, history>>

CleanupFails(w) ==
    /\ cmd[w].pc \in {"clean", "rmdir"}
    /\ Ends(w)
    /\ UNCHANGED <<project, workspace, bounds, history>>

-------------------------------------------------------------------------------
(***************************************************************************)
(* pull.                                                                   *)
(***************************************************************************)
Downloaded(w, p) == remote[p]

\* download_folder_files: the root's files first, then those of the folders.
RootFirst(w, f) == f \in Files \ InFolder \/ cmd[w].todo \subseteq InFolder \cup {Meta}

DownloadFile(w, p) ==
    /\ At(w, "download") /\ p \in cmd[w].todo /\ RootFirst(w, p)
    /\ remote[p] # 0 /\ p \notin Binary
    /\ local' = [local EXCEPT ![w][p] = Downloaded(w, p)]
    /\ dir' = [dir EXCEPT ![w] = @ \/ p \in InFolder]
    /\ base' = [base EXCEPT ![w][p] = remote[p]]
    /\ Becomes(w, [cmd[w] EXCEPT !.todo = @ \ {p}])
    /\ UNCHANGED <<project, ver, bounds, blind>>

DownloadMetadata(w) ==
    /\ At(w, "download") /\ Meta \in cmd[w].todo /\ RootFirst(w, Meta)
    /\ ver' = [ver EXCEPT ![w] = remoteVer]
    /\ blind' = [blind EXCEPT ![w] = TRUE]
    /\ Becomes(w, [cmd[w] EXCEPT !.todo = @ \ {Meta}])
    /\ UNCHANGED <<project, local, dir, bounds, base>>

\* A file is gone, cannot be decoded, or the service fails: the rest is not
\* downloaded, and what was stays.
PullFails(w) ==
    /\ At(w, "download") /\ cmd[w].todo # {}
    /\ Ends(w)
    /\ UNCHANGED <<project, workspace, bounds, history>>

PullEnds(w) ==
    /\ At(w, "download") /\ cmd[w].todo = {}
    /\ Ends(w)
    /\ blind' = [blind EXCEPT ![w] = @ /\ (cmd[w].overlap \/ ~cmd[w].meta)]
    /\ UNCHANGED <<project, workspace, bounds, base>>

-------------------------------------------------------------------------------
Developer(w) == (\E p \in Files : Edit(w, p)) \/ RemoveFolder(w)
Starts(w) == \E kind \in {"push", "pull"}, overwrite \in BOOLEAN : Begin(w, kind, overwrite)
Pushes(w) ==
    \/ (\E p \in Files : Compare(w, p))
    \/ PrepareMetadata(w) \/ Migrate(w) \/ MigrateFails(w)
    \/ FindEmptyFolders(w) \/ DeleteFolder(w) \/ CleanupFails(w)
Pulls(w) ==
    \/ (\E p \in Files : DownloadFile(w, p))
    \/ DownloadMetadata(w) \/ PullFails(w) \/ PullEnds(w)
Continues(w) == MayOverride(w) \/ Pushes(w) \/ Pulls(w)

Next == \E w \in Workspaces : Developer(w) \/ Starts(w) \/ Continues(w)
Spec == Init /\ [][Next]_vars

\* A command runs on until it ends; its requests time out and its developer
\* answers the prompt.
LiveSpec == Spec /\ \A w \in Workspaces : WF_vars(Continues(w))

-------------------------------------------------------------------------------
(***************************************************************************)
(* Properties.                                                             *)
(***************************************************************************)
Commands ==
    [pc : {"idle", "check", "compare", "migrate", "clean", "rmdir", "download"},
     kind : {"push", "pull"}, asked : BOOLEAN, seen : SUBSET Files, meta : BOOLEAN,
     todo : SUBSET (Files \cup {Meta}), mods : SUBSET Files, unread : BOOLEAN, overlap : BOOLEAN]

TypeOK ==
    /\ remote \in Trees /\ remoteVer \in Nat /\ folder \in BOOLEAN
    /\ local \in [Workspaces -> Trees] /\ dir \in [Workspaces -> BOOLEAN]
    /\ ver \in [Workspaces -> Nat]
    /\ cmd \in [Workspaces -> Commands]
    /\ edits \in Nat /\ commands \in Nat
    /\ base \in [Workspaces -> Trees] /\ blind \in [Workspaces -> BOOLEAN]

Steps(w) == cmd'[w] \notin {cmd[w], [cmd[w] EXCEPT !.overlap = TRUE]}
Overwrites(p) == remote[p] # 0 /\ remote'[p] # remote[p]

\* What the version check is for: a push that did not ask overwrites and
\* deletes only contents its developer has pushed or pulled.  It holds for a
\* workspace that is not `blind' (it is after init, a failed push, a broken
\* pull, or a push that raced another or could not read the version) and when
\* no other command changed the project meanwhile (_common.py:152-194,
\* sw_file_handler.py:251-285, 460-489).
NoSilentLoss ==
    [][\A w \in Workspaces :
          Steps(w) /\ ~cmd[w].asked /\ ~cmd[w].overlap /\ ~blind[w] =>
            \A p \in Files : Overwrites(p) => base[w][p] = remote[p]]_vars

\* Without the exceptions: whoever has not agreed to it, by the flag or at the
\* prompt, overwrites nobody's work (cli_push.py:207-211).
NeverUnasked ==
    [][\A w \in Workspaces :
          Steps(w) /\ ~cmd[w].asked /\ ~cmd[w].overlap =>
            \A p \in Files : Overwrites(p) => base[w][p] = remote[p]]_vars

\* Every push that reaches the project raises its version, so that all other
\* workspaces are behind; only one that raced another, or did not get to read
\* the version it is to increment, may fail to (sw_file_handler.py:460-489).
VersionGrows ==
    [][\A w \in Workspaces :
          Steps(w) /\ At(w, "migrate") /\ ~cmd[w].overlap /\ ~cmd[w].unread /\ remote' # remote =>
            remoteVer' > remoteVer]_vars

\* A push that no other command disturbs leaves in the project what is in the
\* workspace, but for the files whose path starts like that of an evaluations
\* folder the workspace does not have (sw_file_handler.py:130-285).
PushMirrors ==
    [][\A w \in Workspaces :
          Steps(w) /\ At(w, "migrate") /\ ~cmd[w].overlap /\ project' # project =>
            \A p \in Files : dir[w] \/ p \notin Prefixed => remote'[p] = local[w][p]]_vars

\* A pull that runs to its end undisturbed has brought every file of the
\* project, and its version (_project_files.py:585-663).
PullBringsAll ==
    [][\A w \in Workspaces :
          At(w, "download") /\ cmd[w].todo = {} /\ Steps(w) /\ ~cmd[w].overlap =>
            /\ \A p \in Present(remote) : local[w][p] = remote[p]
            /\ remoteVer # 0 => ver[w] = remoteVer]_vars

\* The clean-up after a push deletes no file, unless another push put one into
\* the folder after it was found empty (sw_file_handler.py:337-396).
CleanupHarmless ==
    [][\A w \in Workspaces :
          At(w, "rmdir") /\ Steps(w) /\ ~cmd[w].overlap => remote' = remote]_vars

\* Together: a command nobody disturbs does to the project and to the workspace
\* what it is for, and no more (sw_file_handler.py:130-396, _project_files.py:585-663).
Undisturbed == PushMirrors /\ PullBringsAll /\ CleanupHarmless

\* Every command ends: nothing in it waits for another developer's command.
CommandEnds == \A w \in Workspaces : cmd[w] # Idle ~> cmd[w] = Idle

===============================================================================
