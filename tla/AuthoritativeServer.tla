------------------------ MODULE AuthoritativeServer ------------------------
(***************************************************************************)
(* The authoritative server with its players' profiles and its ban list,   *)
(* the admin service that edits both, and the profile store                *)
(* (FilePlayerProfileStore) that keeps a profile as a directory which a    *)
(* save replaces: written aside as .tmp, the old one parked as .old.       *)
(*                                                                         *)
(* Everything runs on the server's thread, one operation at a time.  One   *)
(* step is one file-system operation with the memory it changes; each may  *)
(* fail, and the process may die between any two.  A profile is its        *)
(* revision and one cell of its map: a changed name or role shows as a     *)
(* changed revision.                                                       *)
(***************************************************************************)
EXTENDS Naturals, FiniteSets, FileMarkers

CONSTANTS
  Uuids,              \* the players
  SharedAddress,      \* the players who join from one and the same address
  MaxRevision,        \* the largest profile revision
  FilesMayFail        \* whether file operations of the store may fail

VARIABLES
  stored,             \* uuid -> the directory and its .old and .tmp
  players,            \* players_, by uuid: [profile, dirty]
  banned,             \* bans_: uuids, each with the address of its player
  banFile,            \* bans.txt
  initialized,        \* ServerAdminService::initialized_
  running,            \* AuthoritativeServer::is_running
  task,               \* the operation under way, or None
  step,               \* its next step, or "idle"
  latest,             \* history: uuid -> the last profile the server had, or None
  promised,           \* history: uuid -> the last one reported as saved, or None
  overwritten         \* history: uuids saved to while only their .old was there

store == <<stored, promised, overwritten>>
bans == <<banned, banFile, initialized>>
serverVars ==
  <<stored, players, banned, banFile, initialized, running, task, step, latest,
    promised, overwritten>>

Profiles == [revision : 1 .. MaxRevision, map : BOOLEAN]

\* The profile load_or_create makes.
NewProfile == [revision |-> 1, map |-> FALSE]

\* An operation under way: the player and the profile it is about, if any, and
\* for a flush the players it has still to visit.
TaskKinds == {"join", "create", "leave", "stop", "flush", "edit", "ban", "unban"}

Tasks == [kind : TaskKinds, uuid : Uuids \cup {None},
          profile : Profiles \cup {None}, todo : SUBSET Uuids]

\* What the constants must be: a new profile is one, and the markers are no data.
ServerConstants ==
  /\ MaxRevision \in Nat \ {0}
  /\ None # Broken
  /\ None \notin Profiles /\ Broken \notin Profiles
  /\ None \notin Uuids
  /\ None \notin Tasks

ASSUME ServerAssumption == ServerConstants

ServerInit ==
  /\ stored = [u \in Uuids |-> [directory |-> None, previous |-> None, staging |-> None]]
  /\ players = <<>>
  /\ banned = {}
  /\ banFile = {}
  /\ initialized = FALSE
  /\ running = FALSE
  /\ task = None
  /\ step = "idle"
  /\ latest = [u \in Uuids |-> None]
  /\ promised = [u \in Uuids |-> None]
  /\ overwritten = {}

Connected == DOMAIN players

\* What load finds: it puts a parked directory back first.
Loadable(u) ==
  IF stored[u].directory = None THEN stored[u].previous ELSE stored[u].directory

IsBanned(u) ==
  \/ ~initialized
  \/ u \in banned
  \/ u \in SharedAddress /\ banned \cap SharedAddress # {}

-----------------------------------------------------------------------------
(* Tasks and their steps.                                                  *)

BeginTask(kind, u, profile) ==
  task' = [kind |-> kind, uuid |-> u, profile |-> profile, todo |-> {}]

Go(next) == step' = next

EndTask ==
  /\ task' = None
  /\ step' = "idle"

\* A removal of a whole directory may stop half way.
LeftOf(directory) == IF directory = None THEN {None} ELSE {directory, Broken}

SetStored(field, content) == stored' = [stored EXCEPT ![task.uuid][field] = content]

\* The save has failed: so has the operation it was for.
SaveFails ==
  /\ FilesMayFail
  /\ EndTask
  /\ UNCHANGED <<promised, overwritten>>

-----------------------------------------------------------------------------
(* save_unlocked of task.profile.                                          *)

ClearTmp ==
  /\ step = "clear_staging"
  /\ \/ /\ SetStored("staging", None)
        /\ Go("write_profile")
        /\ UNCHANGED <<task, promised, overwritten>>
     \/ \E left \in LeftOf(stored[task.uuid].staging) :
          SetStored("staging", left) /\ SaveFails

\* A write that fails leaves nothing of the staging directory but what its
\* removal leaves.
WriteProfile ==
  /\ step = "write_profile"
  /\ \/ /\ SetStored("staging", Broken)
        /\ Go("write_map")
        /\ UNCHANGED <<task, promised, overwritten>>
     \/ \E left \in {None, Broken} : SetStored("staging", left) /\ SaveFails

WriteMap ==
  /\ step = "write_map"
  /\ \/ /\ SetStored("staging", task.profile)
        /\ Go("drop_previous")
        /\ UNCHANGED <<task, promised, overwritten>>
     \/ \E left \in {None, Broken} : SetStored("staging", left) /\ SaveFails

DropPrevious ==
  /\ step = "drop_previous"
  /\ overwritten' = IF stored[task.uuid].directory = None /\ stored[task.uuid].previous # None
                      THEN overwritten \cup {task.uuid}
                      ELSE overwritten
  /\ UNCHANGED promised
  /\ \/ /\ SetStored("previous", None)
        /\ Go("park")
        /\ UNCHANGED task
     \/ /\ FilesMayFail
        /\ \E left \in LeftOf(stored[task.uuid].previous) : SetStored("previous", left)
        /\ EndTask

\* Faulty variant: the old directory is removed to make room.
ParkNothing ==
  /\ step = "park"
  /\ SetStored("directory", None)
  /\ Go("install")
  /\ UNCHANGED <<task, promised, overwritten>>

Park ==
  /\ step = "park"
  /\ \/ /\ stored' = [stored EXCEPT ![task.uuid].previous = stored[task.uuid].directory,
                                    ![task.uuid].directory = None]
        /\ Go("install")
        /\ UNCHANGED <<task, promised, overwritten>>
     \/ /\ stored[task.uuid].directory # None
        /\ UNCHANGED stored
        /\ SaveFails

\* From here on the operation goes on with a saved profile: a failure to remove
\* the parked directory goes unseen.
Install ==
  /\ step = "install"
  /\ stored' = [stored EXCEPT ![task.uuid].directory = stored[task.uuid].staging,
                              ![task.uuid].staging = None]
  /\ Go("clean_up")
  /\ UNCHANGED <<task, promised, overwritten>>

\* What was parked is put back, if that works.
InstallFails ==
  /\ step = "install"
  /\ \E left \in {None, stored[task.uuid].staging, Broken},
        back \in {TRUE, FALSE} :
       stored' = [stored EXCEPT ![task.uuid] =
                    [directory |-> IF back THEN @.previous ELSE @.directory,
                     previous |-> IF back THEN None ELSE @.previous,
                     staging |-> left]]
  /\ SaveFails

CleanUp ==
  /\ step = "clean_up"
  /\ \/ SetStored("previous", None)
     \/ FilesMayFail /\ \E left \in LeftOf(stored[task.uuid].previous) : SetStored("previous", left)
  /\ promised' = [promised EXCEPT ![task.uuid] = task.profile]
  /\ overwritten' = overwritten \ {task.uuid}
  /\ Go("saved")
  /\ UNCHANGED task

Save ==
  /\ \/ ClearTmp
     \/ WriteProfile
     \/ WriteMap
     \/ DropPrevious
     \/ Park
     \/ Install
     \/ InstallFails
     \/ CleanUp
  /\ UNCHANGED <<players, bans, running, latest>>

-----------------------------------------------------------------------------
(* The server.                                                             *)

Start ==
  /\ step = "idle" /\ ~running
  /\ running' = TRUE
  /\ UNCHANGED <<store, players, bans, task, step, latest>>

\* load_unlocked: puts a parked directory back, then reads.
Load(u) ==
  /\ stored' = [stored EXCEPT ![u] =
                  IF @.directory = None
                    THEN [directory |-> @.previous, previous |-> None, staging |-> @.staging]
                    ELSE @]
  /\ UNCHANGED <<promised, overwritten>>

\* join, to load_or_create, which looks for profile.dat before load could put a
\* parked directory back.
Join(u) ==
  /\ step = "idle" /\ running
  /\ ~IsBanned(u)
  /\ u \notin Connected
  /\ \/ /\ stored[u].directory \in Profiles
        /\ BeginTask("join", u, stored[u].directory)
        /\ Go("enter")
     \/ /\ stored[u].directory \in {None, Broken}
        /\ BeginTask("create", u, NewProfile)
        /\ Go("clear_staging")
  /\ UNCHANGED <<store, players, bans, running, latest>>

\* The rest of join: a new display name is a new revision, and unless the
\* connection, a message or the log fails, the player is in.
Enter ==
  /\ \/ step = "enter"
     \/ step = "saved" /\ task.kind = "create"
  /\ \/ /\ \E renamed \in IF task.kind = "join" THEN {0, 1} ELSE {0} :
             LET profile == [task.profile EXCEPT !.revision = @ + renamed]
             IN  /\ profile.revision <= MaxRevision
                 /\ players' = [u \in Connected \cup {task.uuid} |->
                                  IF u = task.uuid THEN [profile |-> profile, dirty |-> TRUE]
                                                 ELSE players[u]]
                 /\ latest' = [latest EXCEPT ![task.uuid] = profile]
     \/ /\ UNCHANGED players
        /\ latest' = [latest EXCEPT ![task.uuid] = task.profile]
  /\ EndTask
  /\ UNCHANGED <<store, bans, running>>

\* leave, and kick with its audit entry before it.
Leave(u) ==
  /\ step = "idle"
  /\ u \in Connected
  /\ BeginTask("leave", u, players[u].profile)
  /\ Go("clear_staging")
  /\ UNCHANGED <<store, players, bans, running, latest>>

\* The profile is saved; unless the log fails the player is gone.
Gone ==
  /\ step = "saved" /\ task.kind \in {"leave", "stop"}
  /\ \/ /\ players' = [u \in Connected \ {task.uuid} |-> players[u]]
        /\ IF task.kind = "leave" THEN EndTask ELSE Go("stop") /\ UNCHANGED task
     \/ UNCHANGED players /\ EndTask
  /\ UNCHANGED <<store, bans, running, latest>>

\* stop: one leave after another, of which the first that fails ends it.
Stop ==
  /\ step = "idle" /\ running
  /\ BeginTask("stop", None, None)
  /\ Go("stop")
  /\ UNCHANGED <<store, players, bans, running, latest>>

StopStep ==
  /\ step = "stop"
  /\ \/ \E u \in Connected :
          /\ BeginTask("stop", u, players[u].profile)
          /\ Go("clear_staging")
          /\ UNCHANGED running
     \/ /\ Connected = {}
        /\ running' = FALSE
        /\ EndTask
  /\ UNCHANGED <<store, players, bans, latest>>

\* discover, of a cell that is new to the player.
Discover(u) ==
  /\ step = "idle"
  /\ u \in Connected
  /\ players[u].profile.revision < MaxRevision
  /\ ~players[u].profile.map
  /\ players' = [players EXCEPT ![u] =
                   [profile |-> [revision |-> @.profile.revision + 1, map |-> TRUE],
                    dirty |-> TRUE]]
  /\ latest' = [latest EXCEPT ![u] = players'[u].profile]
  /\ UNCHANGED <<store, bans, running, task, step>>

\* flush_dirty_profiles: `todo' are the players the loop has still to visit.
Flush ==
  /\ step = "idle"
  /\ task' = [kind |-> "flush", uuid |-> None, profile |-> None,
              todo |-> Connected]
  /\ Go("flush")
  /\ UNCHANGED <<store, players, bans, running, latest>>

\* Faulty variant: a player is clean once its turn has come.
FlushStepCleaning ==
  /\ step = "flush"
  /\ LET dirty == {u \in task.todo : players[u].dirty}
     IN  \/ \E u \in dirty :
              /\ task' = [task EXCEPT !.uuid = u, !.profile = players[u].profile,
                                    !.todo = @ \ {u}]
              /\ players' = [players EXCEPT ![u].dirty = FALSE]
              /\ Go("clear_staging")
         \/ dirty = {} /\ EndTask /\ UNCHANGED players
  /\ UNCHANGED <<store, bans, running, latest>>

FlushStep ==
  /\ step = "flush"
  /\ LET dirty == {u \in task.todo : players[u].dirty}
     IN  \/ \E u \in dirty :
              /\ task' = [task EXCEPT !.uuid = u, !.profile = players[u].profile,
                                    !.todo = @ \ {u}]
              /\ Go("clear_staging")
         \/ dirty = {} /\ EndTask
  /\ UNCHANGED <<store, players, bans, running, latest>>

Flushed ==
  /\ step = "saved" /\ task.kind = "flush"
  /\ players' = [players EXCEPT ![task.uuid].dirty = FALSE]
  /\ Go("flush")
  /\ UNCHANGED <<store, bans, running, task, latest>>

-----------------------------------------------------------------------------
(* The admin service.                                                      *)

\* export_profile, and an edit that is refused once the profile is loaded.
Export(u) ==
  /\ step = "idle" /\ initialized
  /\ u \notin Connected
  /\ Load(u)
  /\ UNCHANGED <<players, bans, running, task, step, latest>>

\* Of a profile: grant_role, revoke_role and reset_map.
Edited(profile) ==
  {[revision |-> profile.revision + 1, map |-> map] : map \in {profile.map, FALSE}}

\* An edit starts from the connected player's profile or from the stored one.
Edit(u) ==
  /\ step = "idle" /\ initialized
  /\ \/ /\ u \in Connected
        /\ \E profile \in Edited(players[u].profile) : BeginTask("edit", u, profile)
        /\ UNCHANGED store
     \/ /\ u \notin Connected
        /\ Load(u)
        /\ stored'[u].directory \in Profiles
        /\ \E profile \in Edited(stored'[u].directory) : BeginTask("edit", u, profile)
  /\ task'.profile.revision <= MaxRevision
  /\ Go("clear_staging")
  /\ UNCHANGED <<players, bans, running, latest>>

\* import_profile: whatever the file says, and no map, which exports leave out.
Import(u) ==
  /\ step = "idle" /\ initialized
  /\ \E profile \in Profiles :
       /\ ~profile.map
       /\ BeginTask("edit", u, profile)
  /\ Go("clear_staging")
  /\ UNCHANGED <<store, players, bans, running, latest>>

\* replace_profile, once saved; a message or an audit entry that fails changes
\* nothing any more.
Replaced ==
  /\ step = "saved" /\ task.kind = "edit"
  /\ players' = [u \in Connected |->
                   IF u = task.uuid THEN [profile |-> task.profile, dirty |-> FALSE]
                                  ELSE players[u]]
  /\ latest' = [latest EXCEPT ![task.uuid] = task.profile]
  /\ EndTask
  /\ UNCHANGED <<store, bans, running>>

LoadBans ==
  /\ step = "idle"
  /\ banned' = banFile
  /\ initialized' = TRUE
  /\ UNCHANGED <<store, players, banFile, running, task, step, latest>>

\* save_bans replaces the file or fails.
SaveBans(list) ==
  /\ banned' = list
  /\ banFile' = list

\* ban and unban change the list, save it and write an audit entry; if that
\* fails they take the change back, unless that cannot be saved.
ChangeBans(kind, u, list) ==
  /\ step = "idle" /\ initialized
  /\ SaveBans(list)
  /\ BeginTask(kind, u, None)
  /\ Go("audit")
  /\ UNCHANGED <<store, players, initialized, running, latest>>

Ban(u) ==
  /\ u \in Connected
  /\ ~IsBanned(u)
  /\ ChangeBans("ban", u, banned \cup {u})

Unban(u) ==
  /\ u \in banned
  /\ ChangeBans("unban", u, banned \ {u})

Audited ==
  /\ step = "audit"
  /\ IF task.kind = "ban"
       THEN BeginTask("leave", task.uuid, players[task.uuid].profile) /\ Go("clear_staging")
       ELSE EndTask
  /\ UNCHANGED <<store, players, bans, running, latest>>

\* Faulty variant: the list in memory is restored whether or not the file is.
AuditFailsHalf ==
  /\ step = "audit"
  /\ banned' = IF task.kind = "ban" THEN banned \ {task.uuid} ELSE banned \cup {task.uuid}
  /\ banFile' \in {banFile, banned'}
  /\ EndTask
  /\ UNCHANGED <<store, players, initialized, running, latest>>

AuditFails ==
  /\ step = "audit"
  /\ \/ SaveBans(IF task.kind = "ban" THEN banned \ {task.uuid} ELSE banned \cup {task.uuid})
     \/ UNCHANGED <<banned, banFile>>
  /\ EndTask
  /\ UNCHANGED <<store, players, initialized, running, latest>>

-----------------------------------------------------------------------------

\* The process dies; what was promised is what the store still has, and what
\* only memory knew is gone.
ServerDies ==
  /\ players' = <<>>
  /\ banned' = {}
  /\ initialized' = FALSE
  /\ running' = FALSE
  /\ task' = None
  /\ step' = "idle"
  /\ promised' = [u \in Uuids |->
                    IF task # None /\ task.uuid = u /\ Loadable(u) = task.profile
                      THEN Loadable(u) ELSE promised[u]]
  /\ latest' = promised'
  /\ UNCHANGED <<stored, banFile, overwritten>>

ServerNext ==
  \/ Save
  \/ Start
  \/ Stop
  \/ StopStep
  \/ Flush
  \/ FlushStep
  \/ Flushed
  \/ Enter
  \/ Gone
  \/ Replaced
  \/ LoadBans
  \/ Audited
  \/ AuditFails
  \/ \E u \in Uuids :
       \/ Join(u)
       \/ Leave(u)
       \/ Discover(u)
       \/ Export(u)
       \/ Edit(u)
       \/ Import(u)
       \/ Ban(u)
       \/ Unban(u)
  \/ ServerDies

ServerSpec == ServerInit /\ [][ServerNext]_serverVars

-----------------------------------------------------------------------------
(* Properties.                                                             *)

\* The variables keep their types, and between operations no step is under way.
ServerTypeOK ==
  /\ \A u \in Uuids :
       /\ stored[u] \in [{"directory", "previous", "staging"} -> Profiles \cup {None, Broken}]
       /\ {latest[u], promised[u]} \subseteq Profiles \cup {None}
  /\ Connected \subseteq Uuids
  /\ \A u \in Connected : players[u] \in [profile : Profiles, dirty : BOOLEAN]
  /\ banned \cup banFile \cup overwritten \subseteq Uuids
  /\ step = "idle" <=> task = None
  /\ running \in BOOLEAN /\ initialized \in BOOLEAN

\* What the save under way, if it updates a profile, puts in its place.
Update(u) ==
  IF task # None /\ task.uuid = u /\ task.kind # "create" THEN {task.profile} ELSE {}

\* A player whose profile was reported as saved is not given a new one.
SavedProfileIsRestored ==
  task # None /\ task.kind = "create" /\ step # "saved" => promised[task.uuid] = None

\* A profile that was reported as saved can be loaded until a save has replaced
\* it, whatever fails and wherever the process dies; but for the one case in
\* which that does not hold: a save that starts while the profile is there only
\* as .old removes it first.
SavedProfileIsKept ==
  \A u \in Uuids \ overwritten :
    promised[u] # None => Loadable(u) \in {promised[u]} \cup Update(u)

\* What the server knows of a player is stored, or the player is connected and
\* marked for the next flush: no order of joins, leaves, discoveries, flushes,
\* admin edits and stops, each of which may fail half way, drops a change.
ChangesAreStoredOrDirty ==
  step = "idle" =>
    \A u \in Uuids \ overwritten :
      \/ latest[u] = Loadable(u)
      \/ u \in Connected /\ players[u] = [profile |-> latest[u], dirty |-> TRUE]

\* The ban list in memory is the one on disk after every ban and unban, however
\* far the operation or the rollback of it came.
BansAreOnDisk == step = "idle" /\ initialized => banned = banFile
=============================================================================
