------------------------------ MODULE Upgrade ------------------------------
(***************************************************************************)
(* The manager: the `tokenpanel` shell commands that start, back up,        *)
(* restore, rebuild and update one installation (manager/bin, manager/lib). *)
(*                                                                          *)
(* Releases are numbered 1..Latest along one history; release v ships the   *)
(* pre and post migrations 1..v.  The commands are sequences of external    *)
(* calls (docker, mongodump, mongorestore, git), one action per call, and   *)
(* each call may fail, in some places without the command noticing (`||     *)
(* true', or a function called where `set -e' is off): such a failure is a  *)
(* branch that goes on.  The API container runs on its own: it boots (pre   *)
(* migrations of its image), serves and writes between any two calls.  A    *)
(* command may be interrupted (its EXIT trap runs) or cut off by a power    *)
(* loss (no trap runs; docker restarts what was running and systemd runs    *)
(* `tokenpanel start`).  Every command but the installer takes the manager  *)
(* lock, so one command runs at a time: `cmd' is the holder.                *)
(***************************************************************************)
EXTENDS Naturals, FiniteSets, FiniteSetsExt

CONSTANTS Latest,       \* the newest release
          Commands,     \* the commands the operator may issue
          MaxCommands,  \* bound: commands issued
          MaxWrites,    \* bound: writes the API accepts
          MaxCuts,      \* bound: interrupts and power losses
          MaxKeep       \* bound: archives compute_retention_count may allow

ASSUME UpgradeAssumption ==
  /\ Latest \in Nat \ {0} /\ MaxKeep \in Nat \ {0}
  /\ MaxCommands \in Nat /\ MaxWrites \in Nat /\ MaxCuts \in Nat

VARIABLES db,        \* the live database
          archives,  \* mongodump archives in BACKUP_DIR
          api,       \* the api container: image and status
          tags,      \* tokenpanel/app:current and :previous
          checkout,  \* the release INSTALL_DIR is checked out at
          config,    \* release that rendered the generated config; the latest snapshot's
          cmd,       \* the running command
          last,      \* how the previous command ended; empty while one runs
          ran, cuts, \* bounds
          astray     \* history: what took the installation off its way (see Causes)

vars == <<db, archives, api, tags, checkout, config, cmd, last, ran, cuts, astray>>

Releases == 1..Latest
None == 0
Kinds == {"start", "stop", "restart", "rebuild", "destroy", "reset", "render",
          "migrate_pre", "migrate_post", "backup", "restore", "update", "setup"}

ASSUME CommandsAssumption == Commands \subseteq Kinds

\* straddled: a command ended with the container on another image than current;
\* untagged: an update went on although the image it replaces is not :previous;
\* wiped: a reset wiped the data beside a container that docker had not removed.
Causes == {"straddled", "untagged", "wiped"}

\* Calls of an update whose failure it does not notice.
Slips == {"previous", "config", "tag", "up"}

\* A database: migrations applied, what the API wrote to two collections it
\* updates together, and whether every collection is in place.
Fresh == [pre |-> 0, post |-> 0, usage |-> 0, balance |-> 0, whole |-> TRUE]

Idle == [kind |-> "idle", pc |-> "", target |-> None, file |-> None, safety |-> None,
         part |-> 0, wasUp |-> FALSE, from |-> None, cfg |-> None, swapped |-> FALSE,
         started |-> FALSE, slips |-> {}, sound |-> FALSE]

Running == api.status \in {"starting", "up"}
Serving == api.status = "up"
Ids == {a.id : a \in archives}
Archive(i) == CHOOSE a \in archives : a.id = i

\* deployed_image_id: the container's image, else what Compose would start.
Deployed == IF api.status # "none" THEN api.image ELSE tags.current

-----------------------------------------------------------------------------
(* docker compose, the migration worker and the health wait *)

\* Mutant: `compose start', which starts the container there is.
ComposeKeeps(recreate) ==
  api' = IF Running /\ ~recreate THEN api
         ELSE IF api.status = "stopped" /\ ~recreate THEN [api EXCEPT !.status = "starting"]
         ELSE [image |-> tags.current, status |-> "starting"]

\* `up -d' recreates a container whose image is not the one `current' names.
ComposeUp(recreate) ==
  api' = IF Running /\ api.image = tags.current /\ ~recreate THEN api
         ELSE [image |-> tags.current, status |-> "starting"]

\* A failing `up' leaves the container, or has replaced it and not started the new one.
UpLeaves(image) == {api, [image |-> image, status |-> "stopped"]}

ComposeStart == api' = IF api.status = "stopped" THEN [api EXCEPT !.status = "starting"] ELSE api
ComposeStop == api' = IF Running THEN [api EXCEPT !.status = "stopped"] ELSE api

\* Mutant: the exit code of the worker is not looked at.
MigrateDeaf(phase, image, ok) ==
  \E n \in db[phase] .. Max({db[phase], image}) : db' = [db EXCEPT ![phase] = n]

\* run_migration_worker: each file commits or not; the exit code says whether all did.
Migrate(phase, image, ok) ==
  \E n \in db[phase] .. Max({db[phase], image}) :
     /\ ok => n = Max({db[phase], image})
     /\ db' = [db EXCEPT ![phase] = n]

\* wait_for_health: 0 only when the container reports healthy; 180 s may pass
\* while the container already serves.
WaitForHealth(ok) == ok => Serving

Goto(pc) == cmd' = [cmd EXCEPT !.pc = pc]

\* The container runs one image and Compose would start another.
Strays(image, current) == image \notin {None, current}
Straddling == Strays(api.image, tags.current)

\* The process exits, the container on this image and that one current: the lock goes with it.
EndOn(how, image, current) ==
  /\ cmd' = Idle
  /\ last' = how
  /\ astray' = astray \cup (IF Strays(image, current) THEN {"straddled"} ELSE {})

End(how) == EndOn(how, api.image, tags.current)

Continue == UNCHANGED <<last, ran, cuts, astray>>
Stop(how) == End(how) /\ UNCHANGED <<ran, cuts>>

\* `up' failed and the command dies of it.
DiesOfUp ==
  \E left \in UpLeaves(tags.current) :
     api' = left /\ EndOn("died", left.image, tags.current) /\ UNCHANGED <<ran, cuts>>

\* A failure the command goes on after.
Slip(pc, what) == cmd' = [cmd EXCEPT !.pc = pc, !.slips = @ \cup what]

-----------------------------------------------------------------------------
(* The API container, running beside the commands *)

\* API boot applies pre migrations, never post ones, then listens.
Boot ==
  /\ api.status = "starting"
  /\ db' = [db EXCEPT !.pre = Max({db.pre, api.image})]
  /\ api' = [api EXCEPT !.status = "up"]
  /\ UNCHANGED <<archives, tags, checkout, config, cmd, last, ran, cuts, astray>>

\* A settled call: usage and balance change together.
Write ==
  /\ Serving /\ db.usage < MaxWrites /\ db.balance < MaxWrites
  /\ db' = [db EXCEPT !.usage = @ + 1, !.balance = @ + 1]
  /\ UNCHANGED <<archives, api, tags, checkout, config, cmd, last, ran, cuts, astray>>

-----------------------------------------------------------------------------
(* start, stop, restart, destroy, reset, migrate, config render *)

StopCommand ==
  /\ cmd.kind \in {"stop", "restart"} /\ cmd.pc = "stop"
  /\ \/ ComposeStop /\ IF cmd.kind = "stop" THEN Stop("done") ELSE Goto("up") /\ Continue
     \/ UNCHANGED api /\ Stop("died")
  /\ UNCHANGED <<db, archives, tags, checkout, config>>

StartUp ==
  /\ cmd.kind \in {"start", "restart", "setup"} /\ cmd.pc = "up"
  /\ \/ tags.current # None /\ ComposeUp(FALSE) /\ Goto("health") /\ Continue
     \/ tags.current # None /\ DiesOfUp
     \/ tags.current = None /\ UNCHANGED api /\ Stop("died")
  /\ UNCHANGED <<db, archives, tags, checkout, config>>

StartHealth ==
  /\ cmd.kind \in {"start", "restart", "rebuild", "setup"} /\ cmd.pc = "health"
  /\ \E ok \in BOOLEAN :
        /\ WaitForHealth(ok)
        /\ IF ok THEN Goto("post") /\ Continue ELSE Stop("died")
  /\ UNCHANGED <<db, archives, api, tags, checkout, config>>

\* run_migrations: the worker runs the image Compose would start.
PostMigrations ==
  /\ cmd.kind # "update" /\ cmd.pc = "post"
  /\ \E ok \in BOOLEAN :
        /\ ok => tags.current # None
        /\ Migrate("post", tags.current, ok) /\ Stop(IF ok THEN "done" ELSE "died")
  /\ UNCHANGED <<archives, api, tags, checkout, config>>

MigrateCommand ==
  /\ cmd.pc = "migrate" /\ tags.current # None
  /\ \E ok \in BOOLEAN :
        /\ Migrate(IF cmd.kind = "migrate_pre" THEN "pre" ELSE "post", tags.current, ok)
        /\ Stop(IF ok THEN "done" ELSE "died")
  /\ UNCHANGED <<archives, api, tags, checkout, config>>

\* A failing `down' has removed the container, stopped it or done neither.
DownLeaves == {[image |-> None, status |-> "none"], api,
               [api EXCEPT !.status = IF Running THEN "stopped" ELSE @]}

\* destroy dies of a failing `down'; reset goes on (`|| true').
ComposeDown ==
  /\ cmd.kind \in {"destroy", "reset"} /\ cmd.pc = "down"
  /\ \/ /\ api' = [image |-> None, status |-> "none"]
        /\ IF cmd.kind = "destroy" THEN Stop("done") ELSE Goto("wipe") /\ Continue
     \/ \E left \in DownLeaves :
           /\ api' = left
           /\ IF cmd.kind = "destroy"
              THEN EndOn("died", left.image, tags.current) /\ UNCHANGED <<ran, cuts>>
              ELSE Goto("wipe") /\ Continue
  /\ UNCHANGED <<db, archives, tags, checkout, config>>

ResetWipe ==
  /\ cmd.kind = "reset" /\ cmd.pc = "wipe"
  /\ \/ /\ db' = Fresh /\ archives' = {}
        /\ astray' = astray \cup (IF api.status = "none" THEN {} ELSE {"wiped"})
        /\ Goto("untag") /\ UNCHANGED <<last, ran, cuts>>
     \/ \* an unsafe path is refused; rm may stop half way
        /\ db' \in {db, [db EXCEPT !.whole = FALSE]} /\ archives' \in {archives, {}}
        /\ Stop("died")
  /\ UNCHANGED <<api, tags, checkout, config>>

\* `docker image rm ... || true': each tag may stay.
ResetUntag ==
  /\ cmd.kind = "reset" /\ cmd.pc = "untag"
  /\ \E current \in {None, tags.current}, previous \in {None, tags.previous} :
        /\ tags' = [current |-> current, previous |-> previous]
        /\ EndOn("done", api.image, current) /\ UNCHANGED <<ran, cuts>>
  /\ UNCHANGED <<db, archives, api, checkout, config>>

\* snapshot_config, then render_config_from_image; either may fail.
RenderConfig(image) ==
  \/ config' = [rendered |-> image, snapshot |-> config.rendered]
       /\ CASE cmd.kind = "render" -> Stop("done")
            [] cmd.kind = "rebuild" -> Goto("promote") /\ Continue
            [] cmd.kind = "update" -> Goto("pre") /\ Continue
  \/ config' = [config EXCEPT !.snapshot = config.rendered] /\ Stop("died")
  \/ UNCHANGED config /\ Stop("died")

ConfigRender ==
  /\ cmd.kind = "render" /\ cmd.pc = "config" /\ tags.current # None
  /\ RenderConfig(tags.current)
  /\ UNCHANGED <<db, archives, api, tags, checkout>>

-----------------------------------------------------------------------------
(* rebuild and the installer *)

\* require_checkout_matches_deployed, which --force passes.
MayBuild == \E force \in BOOLEAN : force \/ Deployed \in {checkout, None}

RebuildBuild ==
  /\ cmd.kind = "rebuild" /\ cmd.pc = "build"
  /\ \/ MayBuild /\ cmd' = [cmd EXCEPT !.pc = "config", !.from = api.image] /\ Continue
     \/ Stop("died")
  /\ UNCHANGED <<db, archives, api, tags, checkout, config>>

RebuildConfig ==
  /\ cmd.kind = "rebuild" /\ cmd.pc = "config"
  /\ RenderConfig(checkout)
  /\ UNCHANGED <<db, archives, api, tags, checkout>>

RebuildPromote ==
  /\ cmd.kind = "rebuild" /\ cmd.pc = "promote"
  /\ \/ tags' = [tags EXCEPT !.current = checkout] /\ Goto("retag") /\ Continue
     \/ UNCHANGED tags /\ Stop("died")
  /\ UNCHANGED <<db, archives, api, checkout, config>>

\* The tag of the old image may fail unnoticed.
RebuildRetag ==
  /\ cmd.kind = "rebuild" /\ cmd.pc = "retag"
  /\ \E previous \in ({cmd.from} \ {None}) \cup {tags.previous} :
        tags' = [tags EXCEPT !.previous = previous]
  /\ Goto("recreate") /\ Continue
  /\ UNCHANGED <<db, archives, api, checkout, config>>

RebuildUp ==
  /\ cmd.kind = "rebuild" /\ cmd.pc = "recreate"
  /\ \/ ComposeUp(TRUE) /\ Goto("health") /\ Continue
     \/ DiesOfUp
  /\ UNCHANGED <<db, archives, tags, checkout, config>>

\* tokenpanel-setup checks as rebuild does, builds the checkout and promotes.
SetupBuild ==
  /\ cmd.kind = "setup" /\ cmd.pc = "build"
  /\ \/ MayBuild /\ tags' = [tags EXCEPT !.current = checkout] /\ Goto("config") /\ Continue
     \/ UNCHANGED tags /\ Stop("died")
  /\ UNCHANGED <<db, archives, api, checkout, config>>

SetupConfig ==
  /\ cmd.kind = "setup" /\ cmd.pc = "config"
  /\ \/ config' = [config EXCEPT !.rendered = checkout] /\ Goto("up") /\ Continue
     \/ UNCHANGED config /\ Stop("died")
  /\ UNCHANGED <<db, archives, api, tags, checkout>>

-----------------------------------------------------------------------------
(* create_backup, inside backup, restore and update *)

\* What each caller does when create_backup returns.
BackupReturns(ok, file) ==
  CASE cmd.kind = "backup" -> Stop(IF ok THEN "done" ELSE "died")
    [] cmd.kind = "restore" ->
         IF ok THEN cmd' = [cmd EXCEPT !.pc = "stop", !.safety = file] /\ Continue ELSE Stop("died")
    [] cmd.kind = "update" ->
         /\ cmd' = [cmd EXCEPT !.pc = IF ok THEN "post" ELSE "abort", !.file = file]
         /\ Continue

\* _quiesce_writers: a failing `docker compose ps' is read as no API running,
\* and the dump goes on beside it.
QuiesceWriters ==
  /\ cmd.pc = "quiesce"
  /\ \/ Running /\ ComposeStop /\ Goto("flag") /\ Continue
     \/ UNCHANGED api /\ Goto("dump") /\ Continue
     \/ UNCHANGED api /\ BackupReturns(FALSE, None)   \* no space, mongo down, stop failed
  /\ UNCHANGED <<db, archives, tags, checkout, config>>

\* BACKUP_API_WAS_RUNNING=1, after the stop has returned.
QuiesceFlag ==
  /\ cmd.pc = "flag"
  /\ cmd' = [cmd EXCEPT !.pc = "dump", !.wasUp = TRUE] /\ Continue
  /\ UNCHANGED <<db, archives, api, tags, checkout, config>>

\* mongodump copies one collection after the other.
DumpFirst ==
  /\ cmd.pc = "dump"
  /\ cmd' = [cmd EXCEPT !.pc = "dump2", !.part = db.usage] /\ Continue
  /\ UNCHANGED <<db, archives, api, tags, checkout, config>>

\* The rest of the dump and the dry-run check; a failed one removes the file.
DumpRest ==
  /\ cmd.pc = "dump2"
  /\ \/ /\ archives' = archives \cup
              {[id |-> ran, db |-> [db EXCEPT !.usage = cmd.part], good |-> TRUE]}
        /\ cmd' = [cmd EXCEPT !.pc = "resume", !.file = ran, !.part = 0]
     \/ UNCHANGED archives /\ cmd' = [cmd EXCEPT !.pc = "resume", !.file = None, !.part = 0]
  /\ Continue
  /\ UNCHANGED <<db, api, tags, checkout, config>>

ResumeStart ==
  /\ cmd.pc = "resume"
  /\ \/ cmd.wasUp /\ ComposeStart /\ Goto("resumewait") /\ Continue
     \/ cmd.wasUp /\ UNCHANGED api /\ cmd' = [cmd EXCEPT !.pc = "resumefail"] /\ Continue
     \/ ~cmd.wasUp /\ UNCHANGED api /\ Goto("retain") /\ Continue
  /\ UNCHANGED <<db, archives, tags, checkout, config>>

ResumeWait ==
  /\ cmd.pc = "resumewait"
  /\ \E ok \in BOOLEAN : WaitForHealth(ok) /\ Goto(IF ok THEN "retain" ELSE "resumefail")
  /\ Continue
  /\ UNCHANGED <<db, archives, api, tags, checkout, config>>

\* apply_retention: the newest k archives stay, and the one a restore reads.
\* Mutant: no BACKUP_PROTECT.
NoneProtected == {}

Protected == IF cmd.kind = "restore" THEN {cmd.target} ELSE {}
Kept(k) ==
  LET counted == {a \in archives : a.id \notin Protected}
  IN {a \in archives : a.id \in Protected \/ Cardinality({b \in counted : b.id >= a.id}) <= k}

ApplyRetention ==
  /\ cmd.pc \in {"retain", "resumefail"}
  /\ IF cmd.file = None
     THEN UNCHANGED archives /\ BackupReturns(FALSE, None)
     ELSE /\ \E k \in 1..MaxKeep : archives' = Kept(k)
          /\ BackupReturns(cmd.pc = "retain", cmd.file)
  /\ UNCHANGED <<db, api, tags, checkout, config>>

-----------------------------------------------------------------------------
(* restore: into a temporary database, then a drop and rename swap *)

Source == IF cmd.kind = "restore" THEN cmd.target ELSE cmd.file

RestoreStop ==
  /\ cmd.kind = "restore" /\ cmd.pc = "stop"
  /\ \/ ComposeStop /\ Goto("load") /\ Continue
     \/ (ComposeStart \/ UNCHANGED api) /\ Stop("died")   \* set -e: the EXIT trap starts the API
  /\ UNCHANGED <<db, archives, tags, checkout, config>>

\* Mutant: an automatic restore that failed is taken for done.
GoOn ==
  /\ cmd' = [cmd EXCEPT !.pc = IF cmd.kind = "restore" THEN "restart" ELSE "rollback"]
  /\ UNCHANGED api /\ Continue

\* _restore_into_temp returns 1: the live database is untouched.
LoadFailed ==
  IF cmd.kind = "restore"
  THEN UNCHANGED api /\ cmd' = [cmd EXCEPT !.pc = "restart", !.swapped = FALSE] /\ Continue
  ELSE /\ IF cmd.started THEN UNCHANGED api ELSE ComposeStart \/ UNCHANGED api
       /\ Stop("died")

LoadTemp ==
  /\ cmd.pc = "load"
  /\ \/ Source \in Ids /\ Archive(Source).good /\ UNCHANGED api /\ Goto("swap") /\ Continue
     \/ LoadFailed
  /\ UNCHANGED <<db, archives, tags, checkout, config>>

\* Drop the live database and rename collection by collection.
SwapStart ==
  /\ cmd.pc = "swap"
  /\ db' = [Archive(Source).db EXCEPT !.whole = FALSE]
  /\ Goto("rename") /\ Continue
  /\ UNCHANGED <<archives, api, tags, checkout, config>>

\* Mutant: a swap that failed half way is answered like a load that failed.
SwapRetried ==
  IF cmd.kind = "restore" THEN cmd' = [cmd EXCEPT !.pc = "restart"] /\ Continue ELSE Stop("died")

\* A failed rename leaves the database partial and the API as it is, which is
\* stopped unless a stop failed unnoticed.
SwapFailed == Stop("partial")

SwapEnd ==
  /\ cmd.pc = "rename"
  /\ \/ /\ db' = [db EXCEPT !.whole = TRUE]
        /\ cmd' = [cmd EXCEPT !.pc = IF cmd.kind = "restore" THEN "restart" ELSE "rollback",
                              !.swapped = TRUE]
        /\ Continue
     \/ UNCHANGED db /\ SwapFailed
  /\ UNCHANGED <<archives, api, tags, checkout, config>>

RestoreRestart ==
  /\ cmd.kind = "restore" /\ cmd.pc = "restart"
  /\ \/ api.status # "none" /\ ComposeStart /\ Goto("rhealth") /\ Continue
     \/ UNCHANGED api /\ Stop("died")
  /\ UNCHANGED <<db, archives, tags, checkout, config>>

RestoreHealth ==
  /\ cmd.kind = "restore" /\ cmd.pc = "rhealth"
  /\ \E ok \in BOOLEAN :
        /\ WaitForHealth(ok)
        /\ IF ok /\ cmd.swapped THEN Goto("post") /\ Continue ELSE Stop("died")
  /\ UNCHANGED <<db, archives, api, tags, checkout, config>>

-----------------------------------------------------------------------------
(* update *)

\* update_gate against the deployed image; a refused or idle update moves the
\* checkout back to the deployed release (restore_deployed_checkout), if git can.
UpdateGate ==
  LET stable == cmd.target = None
      target == IF stable THEN Latest ELSE cmd.target
      from == IF Deployed = None THEN checkout ELSE Deployed
      go == target > from \/ (target = from /\ (~stable \/ Deployed = None))
  IN /\ cmd.kind = "update" /\ cmd.pc = "gate"
     /\ IF go
        THEN /\ cmd' = [cmd EXCEPT !.pc = "checkout", !.target = target]
             /\ UNCHANGED checkout /\ Continue
        ELSE /\ checkout' \in ({Deployed} \ {None}) \cup {checkout}
             /\ Stop("refused")
     /\ UNCHANGED <<db, archives, api, tags, config>>

\* Check out the target and hand over to its manager, which adopts the lock.
UpdateCheckout ==
  /\ cmd.kind = "update" /\ cmd.pc = "checkout"
  /\ \/ checkout' = cmd.target /\ Goto("build") /\ Continue
     \/ UNCHANGED checkout /\ Stop("died")
  /\ UNCHANGED <<db, archives, api, tags, config>>

\* build_update_image: the image running before the update, or the one
\* `current' names when docker does not tell which, becomes :previous; the tag may
\* fail unnoticed (2>/dev/null || true) and leave the one of an earlier update.
UpdateBuild ==
  /\ cmd.kind = "update" /\ cmd.pc = "build"
  /\ \/ \E previous \in ({Deployed, tags.current} \ {None}) \cup {tags.previous} :
           LET slips == IF previous = Deployed THEN {} ELSE {"previous"}
           IN /\ tags' = [tags EXCEPT !.previous = previous]
              /\ cmd' = [cmd EXCEPT !.pc = "config", !.from = Deployed, !.cfg = config.rendered,
                                    !.slips = slips]
              /\ astray' = astray \cup (IF slips = {} THEN {} ELSE {"untagged"})
              /\ UNCHANGED <<last, ran, cuts>>
     \/ UNCHANGED tags /\ Stop("died")
  /\ UNCHANGED <<db, archives, api, checkout, config>>

UpdateConfig ==
  /\ cmd.kind = "update" /\ cmd.pc = "config"
  /\ RenderConfig(cmd.target)
  /\ UNCHANGED <<db, archives, api, tags, checkout>>

UpdatePre ==
  /\ cmd.kind = "update" /\ cmd.pc = "pre"
  /\ \E ok \in BOOLEAN :
        /\ Migrate("pre", cmd.target, ok)
        /\ IF ok THEN Goto("promote") /\ Continue ELSE Stop("died")
  /\ UNCHANGED <<archives, api, tags, checkout, config>>

UpdatePromote ==
  /\ cmd.kind = "update" /\ cmd.pc = "promote"
  /\ \/ tags' = [tags EXCEPT !.current = cmd.target] /\ Goto("cutover") /\ Continue
     \/ UNCHANGED tags /\ Stop("died")
  /\ UNCHANGED <<db, archives, api, checkout, config>>

\* Mutant: the backup stops and resumes the API itself.
CutoverLive == UNCHANGED api

\* The downtime window begins.
Cutover == ComposeStop

UpdateStop ==
  /\ cmd.kind = "update" /\ cmd.pc = "cutover"
  /\ \/ Cutover /\ Goto("quiesce") /\ Continue
     \/ UNCHANGED api /\ Stop("died")
  /\ UNCHANGED <<db, archives, tags, checkout, config>>

\* The cutover backup failed: the old container starts again.
UpdateAbort ==
  /\ cmd.kind = "update" /\ cmd.pc = "abort"
  /\ (ComposeStart \/ UNCHANGED api) /\ Stop("died")
  /\ UNCHANGED <<db, archives, tags, checkout, config>>

\* Post migrations of the new image, retried once.
UpdatePost ==
  /\ cmd.kind = "update" /\ cmd.pc \in {"post", "retry"}
  /\ \E ok \in BOOLEAN :
        /\ Migrate("post", cmd.target, ok)
        /\ Goto(IF ok THEN "swapup" ELSE IF cmd.pc = "post" THEN "retry" ELSE "recover")
  /\ Continue
  /\ UNCHANGED <<archives, api, tags, checkout, config>>

\* `up' is a plain command under set -e: its failure ends the update here.
UpdateSwapUp ==
  /\ cmd.kind = "update" /\ cmd.pc = "swapup"
  /\ \/ ComposeUp(TRUE) /\ cmd' = [cmd EXCEPT !.pc = "uhealth", !.started = TRUE] /\ Continue
     \/ DiesOfUp
  /\ UNCHANGED <<db, archives, tags, checkout, config>>

\* `stop api || true': the new container may go on beside the recovery.
UpdateHealth ==
  /\ cmd.kind = "update" /\ cmd.pc = "uhealth"
  /\ \/ WaitForHealth(TRUE) /\ Stop("updated") /\ UNCHANGED api
     \/ (ComposeStop \/ UNCHANGED api) /\ Goto("recover") /\ Continue
  /\ UNCHANGED <<db, archives, tags, checkout, config>>

\* restore_backup_auto verifies, stops the API again (|| true), then loads and swaps.
UpdateRecover ==
  /\ cmd.kind = "update" /\ cmd.pc = "recover"
  /\ \/ (ComposeStop \/ UNCHANGED api) /\ Goto("load") /\ Continue
     \/ LoadFailed
  /\ UNCHANGED <<db, archives, tags, checkout, config>>

\* rollback_to_previous: config snapshot, then the :previous image.  The stop
\* and the snapshot (which is put back over a removed directory) may fail.
RollbackConfig ==
  /\ cmd.kind = "update" /\ cmd.pc = "rollback"
  /\ ComposeStop \/ UNCHANGED api
  /\ \/ config' = [config EXCEPT !.rendered = config.snapshot] /\ Goto("rollbacktag")
     \/ /\ \E left \in {config.rendered, None} : config' = [config EXCEPT !.rendered = left]
        /\ Slip("rollbacktag", {"config"})
  /\ Continue
  /\ UNCHANGED <<db, archives, tags, checkout>>

\* Mutant: the tag stays on the new image.
KeepCurrent == tags.current

\* The image the rolled back container runs.
RolledBackTo == tags.previous

\* The function is called where `set -e' is off: a failing tag or `up' is not
\* noticed, and health is asked of whatever container there is.
RollbackImage ==
  /\ cmd.kind = "update" /\ cmd.pc = "rollbacktag"
  /\ IF tags.previous = None
     THEN UNCHANGED <<api, tags>> /\ Stop("rollback_failed")
     ELSE /\ \E tagged \in BOOLEAN, up \in BOOLEAN :
               LET image == IF tagged THEN RolledBackTo ELSE tags.current
               IN /\ tags' = [tags EXCEPT !.current = image]
                  /\ IF up THEN api' = [image |-> image, status |-> "starting"]
                           ELSE api' \in UpLeaves(image)
                  /\ Slip("rollbackhealth", (IF tagged THEN {} ELSE {"tag"})
                                            \cup (IF up THEN {} ELSE {"up"}))
          /\ Continue
  /\ UNCHANGED <<db, archives, checkout, config>>

RollbackHealth ==
  /\ cmd.kind = "update" /\ cmd.pc = "rollbackhealth"
  /\ \E ok \in BOOLEAN : WaitForHealth(ok) /\ Stop(IF ok THEN "rolled_back" ELSE "rollback_failed")
  /\ UNCHANGED <<db, archives, api, tags, checkout, config>>

-----------------------------------------------------------------------------
(* Issuing a command, and cutting one off *)

FirstPc(kind) ==
  CASE kind = "start" -> "up" [] kind \in {"stop", "restart"} -> "stop"
    [] kind \in {"rebuild", "setup"} -> "build" [] kind \in {"destroy", "reset"} -> "down"
    [] kind = "render" -> "config" [] kind \in {"migrate_pre", "migrate_post"} -> "migrate"
    [] kind \in {"backup", "restore"} -> "quiesce" [] kind = "update" -> "gate"

\* A named release for `update <v>'; for `restore <f>' an archive that passes
\* the dry run, which comes before anything is changed.
Targets(kind) ==
  CASE kind = "update" -> Releases \cup {None}
    [] kind = "restore" -> {a.id : a \in {b \in archives : b.good}}
    [] OTHER -> {None}

\* acquire_manager_lock: while one command runs another is refused at once.
Issue(kind) ==
  /\ cmd.kind = "idle" /\ ran < MaxCommands
  /\ kind \in {"migrate_pre", "migrate_post", "render", "start", "restart", "rebuild"} =>
       tags.current # None
  /\ \E t \in Targets(kind) :
        cmd' = [Idle EXCEPT !.kind = kind, !.pc = FirstPc(kind), !.target = t, !.sound = db.whole]
  /\ ran' = ran + 1 /\ last' = ""
  /\ UNCHANGED <<db, archives, api, tags, checkout, config, cuts, astray>>

InBackup == cmd.pc \in {"dump", "dump2"}

InSafeRestore == cmd.kind = "restore" /\ cmd.pc \in {"stop", "load"}

\* The EXIT trap set by create_backup or restore_backup starts the API; both
\* remove it before they start the API themselves.
TrapStarts == (InBackup /\ cmd.wasUp) \/ InSafeRestore

\* A dump cut short leaves its file behind.
Truncated ==
  IF cmd.pc \in {"dump", "dump2"} THEN archives \cup {[id |-> ran, db |-> Fresh, good |-> FALSE]}
  ELSE archives

\* A signal to the command and its children: bash runs the EXIT trap and exits.
Interrupt ==
  /\ cmd.kind # "idle" /\ cuts < MaxCuts
  /\ \/ (IF TrapStarts THEN ComposeStart ELSE UNCHANGED api) /\ End("interrupted")
     \/ TrapStarts /\ UNCHANGED api /\ End("trap_failed")
  /\ archives' = Truncated /\ cuts' = cuts + 1
  /\ UNCHANGED <<db, tags, checkout, config, ran>>

\* Docker restarts what was not stopped; systemd runs `tokenpanel start'.
PowerLoss ==
  /\ cuts < MaxCuts /\ tags.current # None
  /\ api' = IF Running THEN [api EXCEPT !.status = "starting"] ELSE api
  /\ cuts' = cuts + 1
  /\ last' = ""
  /\ astray' = astray \cup (IF Straddling THEN {"straddled"} ELSE {})
  /\ cmd' = [Idle EXCEPT !.kind = "start", !.pc = "up", !.sound = db.whole]
  /\ archives' = Truncated
  /\ UNCHANGED <<db, tags, checkout, config, ran>>

-----------------------------------------------------------------------------
Init ==
  /\ db = [pre |-> 1, post |-> 1, usage |-> 0, balance |-> 0, whole |-> TRUE]
  /\ archives = {}
  /\ api = [image |-> 1, status |-> "up"]
  /\ tags = [current |-> 1, previous |-> None]
  /\ checkout = 1 /\ config = [rendered |-> 1, snapshot |-> 1]
  /\ cmd = Idle /\ last = "done"
  /\ ran = 0 /\ cuts = 0 /\ astray = {}

Step ==
  \/ StopCommand \/ StartUp \/ StartHealth \/ PostMigrations \/ MigrateCommand
  \/ ComposeDown \/ ResetWipe \/ ResetUntag \/ ConfigRender
  \/ RebuildBuild \/ RebuildConfig \/ RebuildPromote \/ RebuildRetag \/ RebuildUp
  \/ SetupBuild \/ SetupConfig
  \/ QuiesceWriters \/ QuiesceFlag \/ DumpFirst \/ DumpRest
  \/ ResumeStart \/ ResumeWait \/ ApplyRetention
  \/ RestoreStop \/ LoadTemp \/ SwapStart \/ SwapEnd \/ RestoreRestart \/ RestoreHealth
  \/ UpdateGate \/ UpdateCheckout \/ UpdateBuild \/ UpdateConfig \/ UpdatePre \/ UpdatePromote
  \/ UpdateStop \/ UpdateAbort \/ UpdatePost \/ UpdateSwapUp \/ UpdateHealth \/ UpdateRecover
  \/ RollbackConfig \/ RollbackImage \/ RollbackHealth

Next == Boot \/ Write \/ Step \/ (\E kind \in Commands : Issue(kind)) \/ Interrupt \/ PowerLoss

Spec == Init /\ [][Next]_vars

-----------------------------------------------------------------------------
(* Properties *)

Database == [pre : 0..Latest, post : 0..Latest, usage : 0..MaxWrites, balance : 0..MaxWrites,
             whole : BOOLEAN]

\* Database, archives, container and tags hold releases and counts in range,
\* and an archive has its number to itself.
TypeOK ==
  /\ db \in Database
  /\ archives \subseteq [id : 1..MaxCommands, db : Database, good : BOOLEAN]
  /\ \A a, b \in archives : a.id = b.id => a = b
  /\ api \in [image : 0..Latest, status : {"none", "stopped", "starting", "up"}]
  /\ api.image = None <=> api.status = "none"
  /\ tags \in [current : 0..Latest, previous : 0..Latest]
  /\ checkout \in Releases
  /\ config \in [rendered : 0..Latest, snapshot : 0..Latest]
  /\ cmd.kind \in Kinds \cup {"idle"}
  /\ cmd.file \in 0..MaxCommands /\ cmd.safety \in 0..MaxCommands
  /\ cmd.from \in 0..Latest /\ cmd.cfg \in 0..Latest /\ cmd.slips \subseteq Slips
  /\ ran \in 0..MaxCommands /\ cuts \in 0..MaxCuts /\ astray \subseteq Causes

\* An archive is the database at one moment: although mongodump reads the
\* collections one after the other, a dump with the API stopped is of the
\* database as it is when the dump ends.  The API runs beside a dump only where
\* `docker compose ps' failed.
ArchiveIsOneMoment == [][\A a \in archives' \ archives : a.good /\ ~Running => a.db = db]_vars

\* The archive a restore reads and the archive it made of the database it is
\* about to drop both outlive retention, at whatever count, until it is over.
WayBackKept ==
  cmd.kind = "restore" /\ cmd.pc \in {"stop", "load", "swap", "rename", "restart"} =>
    {cmd.target, cmd.safety} \subseteq Ids

\* Until the new container starts, the database holds exactly the writes of
\* the cutover archive: nothing is accepted that a recovery would drop.
CutoverQuiet ==
  cmd.kind = "update" /\ cmd.pc \in {"post", "retry", "swapup"} =>
    /\ cmd.file \in Ids
    /\ db.balance = Archive(cmd.file).db.balance

\* An update that reports it rolled back left the schema it found when it
\* started, whatever failed on the way.  Image and configuration are those it
\* found unless the call that puts them back failed unnoticed: a call that
\* fails costs what it is for and nothing else.
RollbackReturns ==
  [][cmd.kind = "update" /\ cmd'.kind = "idle" /\ last' = "rolled_back" =>
       /\ db.post = Archive(cmd.file).db.post
       /\ "config" \in cmd.slips \/ config.rendered = cmd.cfg
       /\ cmd.slips \cap {"previous", "tag"} # {} \/ tags.current = cmd.from
       /\ cmd.slips \cap {"previous", "tag", "up"} # {} \/ api.image = cmd.from]_vars

\* Destructive post migrations come after the additive ones of their release
\* (the boot or the update applied those), except when the operator runs
\* `tokenpanel migrate post', when a restore runs those of the image Compose
\* would start, which is not the one running, or after a reset that wiped the
\* data beside a container.
PostAfterPre ==
  [][db'.post > db.post /\ cmd.pc \in {"post", "retry"} =>
       \/ db.pre >= db'.post
       \/ cmd.kind # "update" /\ (Straddling \/ "wiped" \in astray)]_vars

\* Code older than the schema serves only after a command ended between moving
\* `current' and recreating the container, or after an update went on without
\* the old image tagged :previous: on every other path, recovery included and
\* whatever call fails, schema and image go together.
SchemaFits ==
  Serving /\ db.post > api.image => astray \cap {"straddled", "untagged"} # {}

\* Whatever ended half way before, no start, restart, rebuild, installation or
\* update takes the schema beyond the code that serves beside it: only
\* `tokenpanel migrate post' and the last step of a restore do, which run the
\* migrations of an image that is not the container's.
NoPostUnderOldCode ==
  [][Running /\ db'.post > db.post /\ db'.post > api.image =>
       cmd.kind \in {"migrate_post", "restore"}]_vars

CatchesUp == {"start", "restart", "rebuild", "setup"}

\* And a start, restart, rebuild or installation that ends well closes the gap:
\* the container runs what Compose would start, on that image's schema.
StartCatchesUp ==
  [][cmd.kind \in CatchesUp /\ cmd'.kind = "idle" /\ last' = "done" =>
       api'.image = tags'.current /\ db'.post >= tags'.current]_vars

\* What an aborted command left half done, the commands that serve neither widen nor leave.
GapsClose == NoPostUnderOldCode /\ StartCatchesUp

\* A backup that has noted that it stopped the API leaves it started when it
\* ends, by a signal too, unless docker refuses the start or the signal comes
\* after the trap is removed and before the start.
BackupResumes ==
  [][cmd.wasUp /\ cmd.kind = "backup" /\ cmd'.kind = "idle" /\ api'.status = "stopped" =>
       cmd.pc \in {"resume", "resumefail"} \/ last' = "trap_failed"]_vars

\* No command, by a step or by its trap, starts the API on a database that it
\* found whole and that its own swap left partial.
NeverStartedOnPartial == [][cmd.sound /\ ~Running /\ Running' => db'.whole]_vars
=============================================================================
