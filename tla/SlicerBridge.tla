---------------------------- MODULE SlicerBridge ----------------------------
(***************************************************************************)
(* The local bridge that installs presets for the slicers of its computer: *)
(* apps/bridge/src/presets.rs and slicers.rs, with the handlers of main.rs.*)
(* It is seen twice, file by file and folder by folder.                    *)
(*                                                                         *)
(* Files.  A preset is two files, a json and an info, and nothing locks    *)
(* them: a request is a sequence of file operations, each of which may     *)
(* fail, its thread runs beside those of the others, and the bridge may be *)
(* stopped between two.  Before a preset is replaced or removed it is      *)
(* copied to a directory named by the second, which every request of that  *)
(* second shares.  A file's content is a number that says who wrote it: 0  *)
(* the user, n the n-th request.                                           *)
(*                                                                         *)
(* Folders.  A slicer makes folders of its own while the bridge runs: one  *)
(* for each version of it and each account that signs in.  The bridge      *)
(* remembers none; every request looks for them anew and takes the first.  *)
(***************************************************************************)
EXTENDS Integers, FiniteSets

CONSTANTS
    Presets,           \* file names, without the extension
    NoPreset,
    Absent, Torn,      \* no file; a file cut off while it was written
    Handlers,          \* threads that serve requests
    MaxSecond,         \* bound: the clock stops here
    MaxRequests        \* bound: requests begun

ASSUME PresetParameters ==
    /\ NoPreset \notin Presets
    /\ MaxSecond \in Nat /\ MaxRequests \in Nat
    /\ {Absent, Torn} \cap (0..MaxRequests) = {}

VARIABLES
    second,            \* the clock
    file,              \* the slicer's directory
    backup,            \* .open-filament-backups, by second
    request,           \* of each thread: its request and the operation it reached
    begun,             \* requests begun so far
    overwritten,       \* history: json files that a request replaced or removed
    crossed            \* history: presets two requests were at work on at once, or
                       \* that were backed up twice in one second

presetVars == <<second, file, backup, request, begun, overwritten, crossed>>

Kinds == {"json", "info"}
Versions == 0..MaxRequests
Written == Versions \cup {Absent, Torn}
NoRequest ==
    [doing |-> "nothing", at |-> "end", preset |-> NoPreset, second |-> 0, version |-> 0]
Pair == [json |-> Absent, info |-> Absent]

PresetsTypeOK ==
    /\ second \in 0..MaxSecond /\ begun \in Versions
    /\ file \in [Presets -> [Kinds -> Written]]
    /\ backup \in [0..MaxSecond -> [Presets -> [Kinds -> Written]]]
    /\ request \in [Handlers ->
                       [doing : {"nothing", "install", "remove", "rollback"},
                        at : {"backup", "backup_info", "json", "info", "end"},
                        preset : Presets \cup {NoPreset}, second : 0..MaxSecond,
                        version : Versions]]
    /\ overwritten \subseteq Presets \X Versions /\ crossed \subseteq Presets
-----------------------------------------------------------------------------
(* The parts of a request, of the thread h.                                *)

Begin(h, r) ==
    /\ begun < MaxRequests /\ begun' = begun + 1
    /\ request[h] = NoRequest /\ request' = [request EXCEPT ![h] = r]

Goto(h, at) == request' = [request EXCEPT ![h].at = at]

Answer(h) == request' = [request EXCEPT ![h] = NoRequest]

\* The operation fails and the request is answered with the error.
Fail(h) == Answer(h) /\ UNCHANGED <<file, backup, overwritten>>

\* A request for p begins, while another may be at work on it.
Cross(p) ==
    crossed' = IF \E h \in Handlers : request[h].preset = p
               THEN crossed \cup {p} ELSE crossed

\* What the slicer lost if p is replaced now.
Lose(p) ==
    overwritten' = IF file[p].json \in Versions
                   THEN overwritten \cup {<<p, file[p].json>>} ELSE overwritten
-----------------------------------------------------------------------------
(* Install and remove.                                                     *)

\* backup_existing looks whether there is something to copy.
BeginInstall(h, p) ==
    /\ Begin(h, [doing |-> "install", preset |-> p, second |-> second,
                 version |-> begun + 1,
                 at |-> IF file[p].json = Absent THEN "json" ELSE "backup"])
    /\ Cross(p)
    /\ UNCHANGED <<second, file, backup, overwritten>>

\* remove_preset refuses what is not there or does not say Open Filament: the
\* user's own preset and a torn file do not.
BeginRemove(h, p) ==
    /\ file[p].json \notin {Absent, Torn, 0}
    /\ Begin(h, [doing |-> "remove", preset |-> p, second |-> second, version |-> 0,
                 at |-> "backup"])
    /\ Cross(p)
    /\ UNCHANGED <<second, file, backup, overwritten>>

\* Mutant of BackupJson: a copy that fails is ignored, like the info's.
BackupJson_Ignored(h) ==
    LET p == request[h].preset
        s == request[h].second
    IN  /\ request[h].at = "backup" /\ Goto(h, "backup_info")
        /\ \/ backup' = [backup EXCEPT ![s][p].json = file[p].json]
           \/ UNCHANGED backup
        /\ UNCHANGED <<second, file, begun, overwritten, crossed>>

\* backup_existing, into the directory of the second, over a copy of that second.
BackupJson(h) ==
    LET p == request[h].preset
        s == request[h].second
    IN  /\ request[h].at = "backup"
        /\ \/ /\ file[p].json # Absent
              /\ backup' = [backup EXCEPT ![s][p].json = file[p].json]
              /\ crossed' = IF backup[s][p].json = Absent THEN crossed ELSE crossed \cup {p}
              /\ Goto(h, "backup_info")
              /\ UNCHANGED <<file, overwritten>>
           \/ Fail(h) /\ UNCHANGED crossed
        /\ UNCHANGED <<second, begun>>

\* Whether the info could be copied is not looked at.
BackupInfo(h) ==
    LET p == request[h].preset
        s == request[h].second
    IN  /\ request[h].at = "backup_info" /\ Goto(h, "json")
        /\ \/ /\ file[p].info # Absent
              /\ backup' = [backup EXCEPT ![s][p].info = file[p].info]
           \/ UNCHANGED backup
        /\ UNCHANGED <<second, file, begun, overwritten, crossed>>

\* The json is written anew and read again; the writing may be cut off, or fail
\* before it begins.
WriteJson(h) ==
    LET p == request[h].preset IN
    /\ request[h].doing = "install" /\ request[h].at = "json"
    /\ \/ /\ Lose(p)
          /\ \/ /\ file' = [file EXCEPT ![p].json = request[h].version]
                /\ Goto(h, "info")
             \/ file' = [file EXCEPT ![p].json = Torn] /\ Answer(h)
          /\ UNCHANGED backup
       \/ Fail(h)
    /\ UNCHANGED <<second, begun, crossed>>

\* Without an infoText nor a user id the info of the old preset stays.
WriteInfo(h, text) ==
    LET p == request[h].preset IN
    /\ request[h].doing = "install" /\ request[h].at = "info"
    /\ \/ /\ file' = IF text THEN [file EXCEPT ![p].info = request[h].version] ELSE file
          /\ Answer(h) /\ UNCHANGED <<backup, overwritten>>
       \/ text /\ Fail(h)
    /\ UNCHANGED <<second, begun, crossed>>

\* The json, then the info when there is one.
RemoveFiles(h) ==
    LET p == request[h].preset IN
    /\ request[h].doing = "remove"
    /\ \/ /\ request[h].at = "json" /\ Goto(h, "info")
          /\ file[p].json # Absent /\ Lose(p)
          /\ file' = [file EXCEPT ![p].json = Absent]
          /\ UNCHANGED backup
       \/ /\ request[h].at = "info" /\ Answer(h)
          /\ file' = [file EXCEPT ![p].info = Absent]
          /\ UNCHANGED <<backup, overwritten>>
       \/ request[h].at \in {"json", "info"} /\ Fail(h)
    /\ UNCHANGED <<second, begun, crossed>>
-----------------------------------------------------------------------------
(* Rollback.                                                               *)

InBackup(s, p, k) == backup[s][p][k] # Absent

BeginRollback(h, s) ==
    /\ \E p \in Presets, k \in Kinds : InBackup(s, p, k)
    /\ Begin(h, [doing |-> "rollback", preset |-> NoPreset, second |-> s, version |-> 0,
                 at |-> "json"])
    /\ UNCHANGED <<second, file, backup, overwritten, crossed>>

\* Every file of the directory is copied back, of whichever preset, in the
\* order the directory lists them; what is there now is not kept.
Restore(h, p, k) ==
    LET s == request[h].second IN
    /\ request[h].doing = "rollback" /\ InBackup(s, p, k)
    /\ file[p][k] # backup[s][p][k]
    /\ file' = [file EXCEPT ![p][k] = backup[s][p][k]]
    /\ UNCHANGED <<second, backup, request, begun, overwritten, crossed>>

\* The copies are done, or one failed.
EndRollback(h) ==
    /\ request[h].doing = "rollback" /\ Answer(h)
    /\ UNCHANGED <<second, file, backup, begun, overwritten, crossed>>
-----------------------------------------------------------------------------
TickSecond ==
    /\ second < MaxSecond /\ second' = second + 1
    /\ UNCHANGED <<file, backup, request, begun, overwritten, crossed>>

AllIdle == [h \in Handlers |-> NoRequest]

StopBridge ==
    /\ request # AllIdle /\ request' = AllIdle
    /\ UNCHANGED <<second, file, backup, begun, overwritten, crossed>>

\* A preset of the user's own may be there.
PresetsInit ==
    /\ second = 0 /\ begun = 0 /\ overwritten = {} /\ crossed = {}
    /\ file \in [Presets -> {Pair, [json |-> 0, info |-> 0]}]
    /\ backup = [s \in 0..MaxSecond |-> [p \in Presets |-> Pair]]
    /\ request = AllIdle

PresetsNext ==
    \/ \E h \in Handlers :
          \/ \E p \in Presets : BeginInstall(h, p) \/ BeginRemove(h, p)
          \/ BackupJson(h) \/ BackupInfo(h) \/ WriteJson(h)
          \/ \E text \in BOOLEAN : WriteInfo(h, text)
          \/ RemoveFiles(h)
          \/ \E s \in 0..MaxSecond : BeginRollback(h, s)
          \/ \E p \in Presets, k \in Kinds : Restore(h, p, k)
          \/ EndRollback(h)
    \/ TickSecond \/ StopBridge

PresetsSpec == PresetsInit /\ [][PresetsNext]_presetVars
-----------------------------------------------------------------------------
(* What must hold.                                                         *)

InPlaceOrBackup(p, c) ==
    file[p].json = c \/ \E s \in 0..MaxSecond : backup[s][p].json = c

\* Whatever fails or is interrupted, and whatever other requests do meanwhile, a
\* preset that an install or a remove replaced can be found: it is in place again
\* or in a backup; unless two requests were at work on that preset at once, or it
\* was backed up twice in one second.
PresetsAreBackedUp ==
    \A w \in overwritten : w[1] \in crossed \/ InPlaceOrBackup(w[1], w[2])
-----------------------------------------------------------------------------
(* The folders: which a preset is installed in, and found again.            *)

CONSTANTS
    Slicers,           \* those that run here
    PresetNames,       \* without the extension
    NoFolder, Missing,
    Roots,             \* candidates for a slicer's directory, in order: 1..Roots
    Releases,          \* 1..Releases, and user/ at the root itself, come as paths sort
    SignIns,           \* accounts of a slicer: 1..SignIns, as their names sort
    MaxFolders, MaxSaves \* bounds: folders made, files saved or removed

ASSUME FolderParameters ==
    /\ Slicers \subseteq {"creality_print", "orca", "prusaslicer", "bambu_studio"}
    /\ {Roots, Releases, SignIns, MaxFolders, MaxSaves} \subseteq Nat

VARIABLES
    override,          \* whether OF_BRIDGE_FILAMENT_ROOT_OVERRIDE is set
    roots,             \* a slicer's directories that exist, as <<slicer, root>>
    folders,           \* the filament folders in them
    saved,             \* files, with the save they are from
    saves,             \* saves so far
    known,             \* what the bridge's answers said: installs and their backups
    displaced          \* history: slicers of which a directory came that sorts before
                       \* one the bridge had used

folderVars == <<override, roots, folders, saved, saves, known, displaced>>

\* root/release/user/account/filament, or root/user/account/filament, which
\* sorts last; Prusa's has neither release nor account.
Folder(s) ==
    [slicer : {s}, root : 1..Roots,
     release : IF s = "prusaslicer" THEN {0} ELSE 1..(Releases + 1),
     account : IF s = "prusaslicer" THEN {0} ELSE 1..SignIns]
Over == [slicer |-> "any", root |-> 0, release |-> 0, account |-> 0]

Path(d) == (d.root * (Releases + 2) + d.release) * (SignIns + 1) + d.account

ASSUME NoFolderIsNone ==
    NoFolder \notin {Over} \cup UNION {Folder(s) : s \in Slicers}

Name == [stem : PresetNames, ext : {"json", "ini"}]
-----------------------------------------------------------------------------
(* slicers.rs                                                              *)

\* Of Prusa's directories the folder is told of before it is made.
FindFilamentDirs(s) ==
    IF s = "prusaslicer" THEN {d \in Folder(s) : <<s, d.root>> \in roots}
    ELSE {d \in folders : d.slicer = s}

DetectDirs(s) == FindFilamentDirs(s) \cup IF override THEN {Over} ELSE {}

\* What /health and /v1/slicers say.
Found(s) ==
    IF s = "prusaslicer" THEN override \/ \E r \in 1..Roots : <<s, r>> \in roots
    ELSE DetectDirs(s) # {}

\* Mutant of FirstDir: in the order the file system lists them.
FirstDir_Unsorted(dirs) ==
    CHOOSE d \in dirs : \A e \in dirs : Path(d) >= Path(e)

\* The directories in order, their folders sorted.
FirstDir(dirs) ==
    CHOOSE d \in dirs : \A e \in dirs : Path(d) <= Path(e)

ResolveInstallDir(s) ==
    IF override THEN Over
    ELSE IF DetectDirs(s) = {} THEN NoFolder ELSE FirstDir(DetectDirs(s))

IsPathAllowlisted(d, s) == IF override THEN d = Over ELSE d \in DetectDirs(s)
-----------------------------------------------------------------------------
(* presets.rs                                                              *)

SanitizeFileName(p, s) ==
    [stem |-> p, ext |-> IF s = "prusaslicer" THEN "ini" ELSE "json"]

At(d, n) == {f \in saved : f.folder = d /\ f.name = n}

Contents(d, n) ==
    IF At(d, n) = {} THEN Missing
    ELSE LET f == CHOOSE g \in At(d, n) : TRUE IN [save |-> f.save, by |-> f.by]

Put(d, n, c) ==
    saved' = (saved \ At(d, n)) \cup {[folder |-> d, name |-> n, save |-> c.save, by |-> c.by]}

\* Whether it says Open Filament.
ByBridge(d, n) == \E f \in At(d, n) : f.by = "bridge"

\* list_presets, of two slicers, by their json files; those of Open Filament
\* only, if asked.
CanList(s) == s \in {"creality_print", "orca"}
ListPresets(s, ofOnly) ==
    {f.name : f \in {g \in saved : /\ g.folder = ResolveInstallDir(s)
                                   /\ g.name.ext = "json"
                                   /\ ofOnly => g.by = "bridge"}}

\* rollback_preset looks for the backup below the folder of the moment.
CanRollBack(s, k) ==
    CanList(s) /\ k.backup # Missing /\ ResolveInstallDir(s) = k.folder

InstallPreset(s, p) ==
    LET d == ResolveInstallDir(s)
        n == SanitizeFileName(p, s)
        c == [save |-> saves + 1, by |-> "bridge"]
    IN  /\ saves < MaxSaves /\ saves' = saves + 1
        /\ d # NoFolder /\ IsPathAllowlisted(d, s)
        /\ folders' = folders \cup {d} /\ Put(d, n, c)
        /\ known' = known \cup {[slicer |-> s, folder |-> d, name |-> n, left |-> c,
                                 backup |-> Contents(d, n)]}
        /\ UNCHANGED <<override, roots, displaced>>

\* The backup of a removed preset is answered too.
RemovePreset(s, p) ==
    LET d == ResolveInstallDir(s)
        n == SanitizeFileName(p, s)
    IN  /\ saves < MaxSaves /\ saves' = saves + 1
        /\ d # NoFolder /\ ByBridge(d, n)
        /\ saved' = saved \ At(d, n)
        /\ known' = known \cup {[slicer |-> s, folder |-> d, name |-> n, left |-> Missing,
                                 backup |-> Contents(d, n)]}
        /\ UNCHANGED <<override, roots, folders, displaced>>

RollbackPreset(s, k) ==
    /\ saves < MaxSaves /\ saves' = saves + 1
    /\ k \in known /\ CanRollBack(s, k) /\ IsPathAllowlisted(k.folder, s)
    /\ Put(k.folder, k.name, k.backup)
    /\ UNCHANGED <<override, roots, folders, known, displaced>>
-----------------------------------------------------------------------------
(* The slicers.                                                            *)

\* A directory of s comes, at this place among the others.
Comes(s, path) ==
    displaced' = IF \E k \in known : k.slicer = s /\ path < Path(k.folder)
                 THEN displaced \cup {s} ELSE displaced

\* A slicer starts for the first time, somewhere.
SlicerStarts(s, r) ==
    /\ <<s, r>> \notin roots
    /\ roots' = roots \cup {<<s, r>>}
    /\ Comes(s, Path([slicer |-> s, root |-> r, release |-> 0, account |-> 0]))
    /\ UNCHANGED <<override, folders, saved, saves, known>>

\* A release is run, or an account signs in, for the first time.
FolderComes(d) ==
    /\ Cardinality(folders) < MaxFolders
    /\ d \notin folders /\ <<d.slicer, d.root>> \in roots
    /\ folders' = folders \cup {d} /\ Comes(d.slicer, Path(d))
    /\ UNCHANGED <<override, roots, saved, saves, known>>

\* The user saves a preset in the slicer.
UserSaves(s, d, p) ==
    /\ saves < MaxSaves /\ saves' = saves + 1 /\ d \in folders
    /\ Put(d, SanitizeFileName(p, s), [save |-> saves + 1, by |-> "user"])
    /\ UNCHANGED <<override, roots, folders, known, displaced>>

FoldersInit ==
    /\ override \in BOOLEAN
    /\ roots = {} /\ folders = {} /\ saved = {} /\ saves = 0 /\ known = {}
    /\ displaced = {}

FoldersNext ==
    \E s \in Slicers :
        \/ \E p \in PresetNames : InstallPreset(s, p) \/ RemovePreset(s, p)
        \/ \E k \in known : RollbackPreset(s, k)
        \/ \E r \in 1..Roots : SlicerStarts(s, r)
        \/ \E d \in Folder(s) : FolderComes(d)
        \/ \E d \in Folder(s), p \in PresetNames : UserSaves(s, d, p)

FoldersSpec == FoldersInit /\ [][FoldersNext]_folderVars
-----------------------------------------------------------------------------
\* What the slicers are said to be found is what a preset can be installed for.
FoundCanInstall ==
    \A s \in Slicers : Found(s) <=> ResolveInstallDir(s) # NoFolder

\* A preset the bridge installed for a slicer, and that nobody changed, is listed,
\* can be removed, and what it replaced can be brought back, whatever folders the
\* slicer made in the meantime; unless one came that sorts before one in use.
InstalledIsReached ==
    \A k \in known : k.slicer \notin displaced =>
        LET d == ResolveInstallDir(k.slicer) IN
        /\ k.left # Missing /\ Contents(k.folder, k.name) = k.left =>
              /\ d = k.folder /\ ByBridge(d, k.name)
              /\ CanList(k.slicer) => k.name \in ListPresets(k.slicer, TRUE)
        /\ CanList(k.slicer) /\ k.backup # Missing => CanRollBack(k.slicer, k)

FoldersAreSound == FoundCanInstall /\ InstalledIsReached

\* Both: a preset or its backup is there, and it is found where the bridge looks.
BridgeIsSound == PresetsAreBackedUp /\ FoldersAreSound
=============================================================================
