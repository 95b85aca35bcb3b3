--------------------------- MODULE UpgradeProofs ---------------------------
(***************************************************************************)
(* Proofs about Upgrade for any number of releases, commands, writes,      *)
(* interrupts and power losses: what an update or a restore leaves to go   *)
(* back to, whatever fails and whenever it is cut off.                     *)
(***************************************************************************)
EXTENDS Upgrade, FiniteSetTheorems, TLAPS

Pcs == {"", "stop", "up", "health", "post", "migrate", "down", "wipe", "untag", "config",
        "build", "promote", "recreate", "quiesce", "dump", "dump2", "resume", "resumewait",
        "retain", "resumefail", "load", "swap", "rename", "restart", "rhealth", "gate",
        "checkout", "pre", "cutover", "abort", "retry", "swapup", "uhealth", "recover",
        "rollback", "rollbacktag", "rollbackhealth", "flag", "retag"}

Cmd == [kind : Kinds \cup {"idle"}, pc : Pcs, target : Nat, file : 0..MaxCommands,
        safety : 0..MaxCommands, part : Nat, wasUp : BOOLEAN, from : 0..Latest,
        cfg : 0..Latest, swapped : BOOLEAN, started : BOOLEAN, slips : SUBSET Slips,
        sound : BOOLEAN]

BackupPcs == {"quiesce", "flag", "dump", "dump2", "resume", "resumewait", "retain", "resumefail"}
LoadPcs == {"load", "swap", "rename"}
EarlyPcs == {"gate", "checkout", "build", "config", "pre", "promote", "cutover"}

(* What an update passes between promoting its image and rolling back.     *)
MovedPcs == BackupPcs \cup LoadPcs \cup
            {"cutover", "abort", "post", "retry", "swapup", "uhealth", "recover", "rollback",
             "rollbacktag"}

(* Where the archive of an update is there to go back to.                  *)
HeldPcs == {"post", "retry", "swapup", "uhealth", "recover", "load", "swap"}

(* What holds whatever command runs: every variable has its type, archives *)
(* are numbered by their commands, and what serves has its additive        *)
(* migrations applied, unless a reset wiped the database beside it.        *)
World ==
  /\ db \in Database
  /\ archives \subseteq [id : 1..MaxCommands, db : Database, good : BOOLEAN]
  /\ \A a, b \in archives : a.id = b.id => a = b
  /\ \A a \in archives : a.id <= ran
  /\ api \in [image : 0..Latest, status : {"none", "stopped", "starting", "up"}]
  /\ api.image = None <=> api.status = "none"
  /\ Serving => db.pre >= api.image \/ "wiped" \in astray
  /\ tags \in [current : 0..Latest, previous : 0..Latest]
  /\ checkout \in Releases
  /\ config \in [rendered : 0..Latest, snapshot : 0..Latest]
  /\ ran \in 0..MaxCommands /\ cuts \in 0..MaxCuts /\ astray \subseteq Causes

(* Which command is at which step, and what its fields are by then.        *)
Typed ==
  /\ cmd \in Cmd
  /\ cmd.kind = "idle" => cmd.pc = ""
  /\ cmd.pc \in BackupPcs => cmd.kind \in {"backup", "restore", "update"}
  /\ cmd.kind = "backup" => cmd.pc \in BackupPcs
  /\ cmd.pc \in LoadPcs => cmd.kind \in {"restore", "update"}
  /\ cmd.pc = "migrate" => cmd.kind \in {"migrate_pre", "migrate_post"}
  /\ cmd.pc = "post" => cmd.kind \in CatchesUp \cup {"restore", "update"}
  /\ cmd.kind = "update" => cmd.target \in 0..Latest
  /\ cmd.kind = "update" /\ cmd.pc # "gate" => cmd.target # None
  /\ cmd.kind = "update" /\ cmd.pc \in MovedPcs => tags.current = cmd.target
  /\ cmd.kind \notin {"idle", "start"} => ran >= 1
  /\ cmd.pc = "dump2" => cmd.part \in 0..MaxWrites /\ (cmd.part = db.usage \/ Running)
  /\ cmd.kind = "rebuild" /\ cmd.pc \in {"retag", "recreate"} => tags.current # None

(* An archive that is being made is not there yet.                         *)
NotYet ==
  \/ cmd.pc \in {"quiesce", "flag", "dump", "dump2"}
  \/ cmd.kind = "update" /\ cmd.pc \in {"gate", "checkout", "build", "config", "pre",
                                        "promote", "cutover"}
  => ran \notin Ids

(* No API runs while a restore swaps the database, nor in an update from   *)
(* its cutover until the new container starts; what runs after that is the *)
(* new container, until the image is rolled back.                          *)
Still ==
  /\ cmd.kind = "restore" /\ cmd.pc \in LoadPcs => ~Running
  /\ cmd.pc \in {"quiesce", "flag"} => ~cmd.wasUp
  /\ cmd.kind = "update" =>
       /\ cmd.pc \in BackupPcs \cup {"post", "retry", "swapup"} => ~Running
       /\ cmd.pc \in BackupPcs \cup EarlyPcs => ~cmd.wasUp
       /\ cmd.pc \notin {"flag", "resumewait", "resumefail"}
       /\ cmd.pc \in {"uhealth", "recover", "rollback", "rollbacktag"} \cup LoadPcs =>
            (Running => api.image = cmd.target)

(* The archive of an update, against the database it goes on with.         *)
WayBack(a) ==
  a.db.pre >= cmd.target /\ a.db.post <= db.post

(* The archive of this command is there, and what a swap reads.            *)
Made ==
  /\ cmd.pc \in {"resume", "resumewait", "retain", "resumefail"} /\ cmd.file # None =>
       /\ cmd.file = ran
       /\ \E a \in archives :
             /\ a.id = cmd.file
             /\ cmd.kind = "update" => a.db.balance = db.balance /\ WayBack(a)
  /\ cmd.kind = "update" /\ cmd.pc \in HeldPcs =>
       \E a \in archives :
          /\ a.id = cmd.file /\ WayBack(a)
          /\ cmd.pc \in {"post", "retry", "swapup"} => a.db.balance = db.balance
  /\ cmd.pc \in {"swap", "rename"} => Source \in Ids

(* What a restore reads, and what it made before it.                       *)
BothThere ==
  cmd.kind = "restore" /\ cmd.pc \in BackupPcs \cup LoadPcs \cup {"stop", "restart"} =>
    /\ cmd.target \in Ids /\ cmd.target # ran
    /\ cmd.pc \notin BackupPcs => cmd.safety \in Ids

(* What an update found, from its build on, and what it puts back unless a *)
(* call fails unnoticed.                                                   *)
Remembered ==
  cmd.kind = "update" =>
    /\ cmd.pc \notin {"gate", "checkout", "build"} =>
         tags.previous = cmd.from \/ "previous" \in cmd.slips
    /\ cmd.pc = "config" => config.rendered = cmd.cfg
    /\ cmd.pc \notin {"gate", "checkout", "build", "config"} => config.snapshot = cmd.cfg
    /\ cmd.pc \in {"rename", "rollback", "rollbacktag", "rollbackhealth"} =>
         \E a \in archives : a.id = cmd.file /\ a.db.post = db.post
    /\ cmd.pc \in {"rollbacktag", "rollbackhealth"} =>
         config.rendered = cmd.cfg \/ "config" \in cmd.slips
    /\ cmd.pc = "rollbackhealth" =>
         /\ tags.current = cmd.from \/ cmd.slips \cap {"previous", "tag"} # {}
         /\ api.image = cmd.from \/ cmd.slips \cap {"previous", "tag", "up"} # {}

(* The additive migrations come before what is destructive.                *)
Additive ==
  /\ cmd.kind = "update" /\ cmd.pc \in {"promote", "cutover", "post", "retry"} \cup BackupPcs
       => db.pre >= cmd.target
  /\ cmd.kind # "update" /\ cmd.pc = "post" => Serving

(* A backup that stopped the API has it started before it ends well.       *)
Resumed ==
  cmd.kind = "backup" /\ cmd.wasUp /\ cmd.pc \in {"resumewait", "retain"} =>
    api.status # "stopped"

(* What a start, restart, rebuild or installation waits for runs the image *)
(* that Compose would start.                                               *)
Caught ==
  cmd.kind \in CatchesUp /\ cmd.pc \in {"health", "post"} => api.image = tags.current

(* Only its own swap leaves a database partial that a command found whole. *)
Sound == cmd.sound /\ cmd.pc # "rename" => db.whole

OfCommand == /\ Typed /\ NotYet /\ Still /\ Made /\ BothThere /\ Remembered /\ Additive
             /\ Resumed /\ Caught /\ Sound

IInv == World /\ OfCommand

LEMMA Bounds ==
  /\ Latest \in Nat /\ Latest >= 1 /\ MaxCommands \in Nat /\ MaxWrites \in Nat
  /\ MaxCuts \in Nat /\ MaxKeep \in Nat /\ MaxKeep >= 1
  BY UpgradeAssumption

LEMMA IdleTyped == Idle \in Cmd
  BY Bounds DEF Idle, Cmd, Pcs, Kinds, None, Slips

LEMMA InitIInv == Init => IInv
<1> SUFFICES ASSUME Init PROVE IInv
  OBVIOUS
<1>1. /\ db \in Database /\ archives = {} /\ config \in [rendered : 0..Latest, snapshot : 0..Latest]
      /\ checkout \in Releases /\ tags \in [current : 0..Latest, previous : 0..Latest]
  BY Bounds DEF Init, Database, Releases, None
<1>2. /\ api \in [image : 0..Latest, status : {"none", "stopped", "starting", "up"}]
      /\ api.image = None <=> api.status = "none"
  BY Bounds DEF Init, None
<1>3. ran \in 0..MaxCommands /\ cuts \in 0..MaxCuts
  BY Bounds DEF Init
<1>4. astray \subseteq Causes
  BY DEF Init
<1>5. db.pre >= api.image
  BY DEF Init
<1>6. World
  BY <1>1, <1>2, <1>3, <1>4, <1>5 DEF World
<1>7. cmd = Idle /\ cmd.kind = "idle" /\ cmd.pc = "" /\ cmd \in Cmd
  BY IdleTyped DEF Init, Idle
<1>8. Typed /\ NotYet /\ Still /\ Made
  BY <1>7 DEF Typed, BackupPcs, LoadPcs, NotYet, Still, Made, HeldPcs, MovedPcs
<1>9. BothThere /\ Remembered /\ Additive /\ Resumed /\ Caught /\ Sound
  BY <1>7 DEF BothThere, BackupPcs, LoadPcs, Remembered, Additive, Resumed, Caught, CatchesUp,
              Sound, Idle
<1>10. QED
  BY <1>6, <1>8, <1>9 DEF IInv, OfCommand

-----------------------------------------------------------------------------
(* The API, beside the commands.                                           *)
LEMMA MaxOf == \A m, n \in Nat : Max({m, n}) = IF m >= n THEN m ELSE n
<1> TAKE m, n \in Nat
<1>1. CASE m >= n
  BY <1>1 DEF Max
<1>2. CASE ~(m >= n)
  BY <1>2 DEF Max
<1>3. QED
  BY <1>1, <1>2

LEMMA BootStep == ASSUME IInv, Boot PROVE IInv'
<1>1. World /\ OfCommand
  BY DEF IInv
<1>2. /\ db.pre \in Nat /\ api.image \in Nat /\ Max({db.pre, api.image}) \in 0..Latest
      /\ Max({db.pre, api.image}) >= api.image /\ Max({db.pre, api.image}) >= db.pre
  BY <1>1, MaxOf, Bounds DEF World, Database
<1>3. /\ db' = [db EXCEPT !.pre = Max({db.pre, api.image})]
      /\ api' = [api EXCEPT !.status = "up"] /\ api.status = "starting"
      /\ UNCHANGED <<archives, tags, checkout, config, cmd, last, ran, cuts, astray>>
  BY DEF Boot
<1>4. /\ db'.usage = db.usage /\ db'.balance = db.balance /\ db'.post = db.post
      /\ db' \in Database /\ db'.pre >= api'.image /\ db'.pre >= db.pre
      /\ db'.whole = db.whole
      /\ api'.image = api.image /\ api'.status = "up"
  BY <1>1, <1>2, <1>3 DEF World, Database
<1>5. World'
  BY <1>1, <1>3, <1>4 DEF World, Serving
<1>6. Typed' /\ NotYet'
  BY <1>1, <1>3, <1>4 DEF OfCommand, Typed, NotYet, Ids, Running
<1>7. Still' /\ Made'
  <2>1. Running
    BY <1>3 DEF Running
  <2>2. Still'
    BY <1>1, <1>3, <2>1 DEF OfCommand, Still
  <2>3. Made'
    BY <1>1, <1>3, <1>4 DEF OfCommand, Made, Ids, Source, WayBack
  <2>4. QED
    BY <2>2, <2>3
<1>8. BothThere' /\ Resumed' /\ Caught' /\ Sound'
  BY <1>1, <1>3, <1>4 DEF OfCommand, BothThere, Resumed, Caught, Sound, Ids
<1>9. Remembered'
  <2>1. Remembered /\ UNCHANGED <<archives, tags, config, cmd>>
        /\ db'.post = db.post /\ api'.image = api.image
    BY <1>1, <1>3, <1>4 DEF OfCommand
  <2>2. QED
    BY <2>1 DEF Remembered
<1>10. Additive'
  <2>1. db.pre \in Nat /\ db'.pre \in Nat /\ (cmd.kind = "update" => cmd.target \in Nat)
    <3>1. db \in Database /\ db' \in Database /\ cmd \in Cmd
      BY <1>1, <1>4 DEF World, OfCommand, Typed
    <3>2. QED
      BY <3>1 DEF Database, Cmd
  <2>2. Additive /\ db'.pre >= db.pre /\ cmd' = cmd /\ ~Serving /\ Serving'
    BY <1>1, <1>3, <1>4 DEF OfCommand, Serving
  <2>3. QED
    BY <2>1, <2>2 DEF Additive
<1>11. QED
  BY <1>5, <1>6, <1>7, <1>8, <1>9, <1>10 DEF IInv, OfCommand

LEMMA WriteStep == ASSUME IInv, Write PROVE IInv'
<1>1. World /\ OfCommand
  BY DEF IInv
<1>2. /\ db' = [db EXCEPT !.usage = @ + 1, !.balance = @ + 1]
      /\ Serving /\ db.usage < MaxWrites /\ db.balance < MaxWrites
      /\ UNCHANGED <<archives, api, tags, checkout, config, cmd, last, ran, cuts, astray>>
  BY DEF Write
<1>3. /\ db'.whole = db.whole /\ db'.post = db.post /\ db'.pre = db.pre
      /\ db' \in Database
  <2>1. db \in Database /\ db.usage + 1 \in 0..MaxWrites /\ db.balance + 1 \in 0..MaxWrites
    BY <1>1, <1>2, Bounds DEF World, Database
  <2>2. db' = [db EXCEPT !.usage = db.usage + 1, !.balance = db.balance + 1]
    BY <1>2
  <2>3. QED
    BY <2>1, <2>2 DEF Database
<1>4. World'
  BY <1>1, <1>2, <1>3 DEF World, Serving
<1>5. Running
  BY <1>2 DEF Running, Serving
<1>6. Typed' /\ NotYet' /\ Still' /\ Made'
  <2>1. cmd.kind = "update" => cmd.pc \notin BackupPcs \cup {"post", "retry", "swapup"}
    BY <1>1, <1>5 DEF OfCommand, Still
  <2>2. Typed'
    BY <1>1, <1>2, <1>5 DEF OfCommand, Typed, Running
  <2>3. NotYet' /\ Still'
    BY <1>1, <1>2 DEF OfCommand, NotYet, Still, Running, Ids
  <2>4. Made'
    <3>1. Made /\ UNCHANGED <<archives, cmd, ran>>
      BY <1>1, <1>2 DEF OfCommand
    <3>2. QED
      BY <1>3, <2>1, <3>1 DEF Made, Source, BackupPcs, Ids, WayBack
  <2>5. QED
    BY <2>2, <2>3, <2>4
<1>7. BothThere' /\ Remembered' /\ Additive' /\ Resumed' /\ Caught' /\ Sound'
  BY <1>1, <1>2, <1>3
     DEF OfCommand, BothThere, Remembered, Additive, Resumed, Caught, Sound, Ids, Serving
<1>8. QED
  BY <1>4, <1>6, <1>7 DEF IInv, OfCommand

-----------------------------------------------------------------------------
(* The commands. What a call leaves alone, and what it does to the API.    *)
Left == /\ UNCHANGED <<ran, cuts>> /\ astray' \subseteq Causes
        /\ "wiped" \in astray => "wiped" \in astray'

LEMMA EndLeaves ==
  ASSUME World, NEW how, NEW image, NEW current, EndOn(how, image, current),
         UNCHANGED <<ran, cuts>>
  PROVE  Left /\ cmd' = Idle
  BY DEF EndOn, Left, World, Causes

LEMMA LeftAlone ==
  ASSUME World, Continue \/ (\E how : Stop(how)) PROVE Left
<1>1. CASE Continue
  BY <1>1 DEF Continue, Left, World
<1>2. CASE \E how : Stop(how)
  BY <1>2, EndLeaves DEF Stop, End
<1>3. QED
  BY <1>1, <1>2

LEMMA Goes ==
  ASSUME cmd \in Cmd, NEW p \in Pcs, Goto(p)
  PROVE  /\ cmd' \in Cmd /\ cmd'.pc = p /\ cmd'.kind = cmd.kind /\ cmd'.target = cmd.target
         /\ cmd'.file = cmd.file /\ cmd'.safety = cmd.safety /\ cmd'.part = cmd.part
         /\ cmd'.wasUp = cmd.wasUp /\ cmd'.from = cmd.from /\ cmd'.cfg = cmd.cfg
         /\ cmd'.swapped = cmd.swapped /\ cmd'.slips = cmd.slips /\ cmd'.sound = cmd.sound
  BY DEF Goto, Cmd

ApiTyped ==
  /\ api \in [image : 0..Latest, status : {"none", "stopped", "starting", "up"}]
  /\ api.image = None <=> api.status = "none"

LEMMA Compose ==
  ASSUME World,
         \/ UNCHANGED api \/ ComposeStop \/ ComposeStart
         \/ (tags.current # None /\ \E recreate : ComposeUp(recreate)),
         UNCHANGED tags
  PROVE  /\ ApiTyped' /\ (Serving' => api' = api)
         /\ UNCHANGED api \/ ComposeStop => (Running' => Running) /\ api'.image = api.image
         /\ ComposeStop => ~Running'
         /\ ComposeStart => api'.status # "stopped"
<1>1. ApiTyped /\ tags.current \in 0..Latest
  BY DEF World, ApiTyped
<1>2. CASE UNCHANGED api /\ ~ComposeStop /\ ~ComposeStart
  BY <1>1, <1>2 DEF ApiTyped, Running
<1>3. CASE ComposeStop /\ ~ComposeStart
  BY <1>1, <1>3 DEF ApiTyped, ComposeStop, Running, Serving, None
<1>4. CASE ComposeStart /\ ~ComposeStop
  BY <1>1, <1>4 DEF ApiTyped, ComposeStart, Running, Serving, None
<1>5. CASE ComposeStart /\ ComposeStop
  BY <1>1, <1>5 DEF ApiTyped, ComposeStart, ComposeStop, Running, Serving, None
<1>6. ASSUME NEW recreate, ComposeUp(recreate), tags.current # None, ~ComposeStart, ~ComposeStop
      PROVE  ApiTyped' /\ (Serving' => api' = api) /\ (UNCHANGED api => Running' = Running)
  BY <1>1, <1>6 DEF ApiTyped, ComposeUp, Running, Serving, None
<1>7. QED
  BY <1>2, <1>3, <1>4, <1>5, <1>6 DEF Running

(* A failing `up' or `down'.                                                *)
LEMMA Leaves ==
  ASSUME World, \/ \E image \in 1..Latest : api' \in UpLeaves(image)
                \/ api' \in DownLeaves
  PROVE  ApiTyped' /\ (Running' => api' = api) /\ (Serving' => api' = api)
<1>1. ApiTyped /\ 1..Latest \subseteq 0..Latest /\ None \in 0..Latest /\ None \notin 1..Latest
  BY Bounds DEF World, ApiTyped, None
<1>2. CASE api' = api
  BY <1>1, <1>2 DEF ApiTyped
<1>3. ASSUME NEW image \in 1..Latest, api' = [image |-> image, status |-> "stopped"]
      PROVE  ApiTyped' /\ ~Running' /\ ~Serving'
  BY <1>1, <1>3 DEF ApiTyped, Running, Serving
<1>4. CASE api' = [image |-> None, status |-> "none"]
  BY <1>1, <1>4 DEF ApiTyped, Running, Serving
<1>5. CASE api' = [api EXCEPT !.status = IF Running THEN "stopped" ELSE @]
  BY <1>1, <1>5 DEF ApiTyped, Running, Serving
<1>6. QED
  BY <1>2, <1>3, <1>4, <1>5 DEF UpLeaves, DownLeaves

LEMMA WorldKept ==
  ASSUME World, Left, ApiTyped', Serving' => api' = api,
         UNCHANGED <<db, archives, tags, checkout, config>>
  PROVE  World'
  BY DEF World, Left, ApiTyped, Serving

(* The other fields that a call changes with the step.                     *)
SameOrder == cmd'.kind = cmd.kind /\ cmd'.target = cmd.target /\ cmd'.safety = cmd.safety
             /\ cmd'.from = cmd.from /\ cmd'.cfg = cmd.cfg /\ cmd'.slips = cmd.slips
             /\ cmd'.sound = cmd.sound

LEMMA NotesUp ==
  ASSUME cmd \in Cmd, NEW p \in Pcs, NEW up \in BOOLEAN,
         cmd' = [cmd EXCEPT !.pc = p, !.wasUp = up]
  PROVE  /\ cmd' \in Cmd /\ cmd'.pc = p /\ SameOrder /\ cmd'.wasUp = up
         /\ cmd'.file = cmd.file
  BY DEF Cmd, SameOrder

LEMMA NotesFile ==
  ASSUME cmd \in Cmd, NEW p \in Pcs, NEW f \in 0..MaxCommands,
         cmd' = [cmd EXCEPT !.pc = p, !.file = f]
  PROVE  /\ cmd' \in Cmd /\ cmd'.pc = p /\ SameOrder /\ cmd'.wasUp = cmd.wasUp
         /\ cmd'.file = f
  BY DEF Cmd, SameOrder

LEMMA NotesPart ==
  ASSUME cmd \in Cmd, NEW p \in Pcs, NEW part \in Nat,
         cmd' = [cmd EXCEPT !.pc = p, !.part = part]
  PROVE  /\ cmd' \in Cmd /\ cmd'.pc = p /\ SameOrder /\ cmd'.wasUp = cmd.wasUp
         /\ cmd'.file = cmd.file /\ cmd'.part = part
  BY DEF Cmd, SameOrder

LEMMA NotesBoth ==
  ASSUME cmd \in Cmd, NEW p \in Pcs, NEW f \in 0..MaxCommands, NEW part \in Nat,
         cmd' = [cmd EXCEPT !.pc = p, !.file = f, !.part = part]
  PROVE  /\ cmd' \in Cmd /\ cmd'.pc = p /\ SameOrder /\ cmd'.wasUp = cmd.wasUp
         /\ cmd'.file = f
  BY DEF Cmd, SameOrder

(* A command that is over leaves nothing to look after.                    *)
LEMMA EndsIdle == ASSUME World', cmd' = Idle PROVE IInv'
<1>1. cmd'.kind = "idle" /\ cmd'.pc = "" /\ cmd' \in Cmd /\ ~cmd'.sound
  BY IdleTyped DEF Idle
<1>2. Typed' /\ NotYet' /\ Still' /\ Made'
  BY <1>1 DEF Typed, BackupPcs, LoadPcs, NotYet, Still, Made
<1>3. BothThere' /\ Remembered' /\ Additive' /\ Resumed' /\ Caught' /\ Sound'
  BY <1>1 DEF BothThere, BackupPcs, LoadPcs, Remembered, Additive, Resumed, Caught, CatchesUp,
              Sound
<1>4. QED
  BY <1>2, <1>3 DEF IInv, OfCommand

(* A command that neither dumps nor swaps looks after little.              *)
SimpleKinds == Kinds \ {"backup", "restore", "update"}

LEMMA SimpleKept ==
  ASSUME World', cmd' \in Cmd, cmd'.kind \in SimpleKinds,
         cmd'.pc \notin BackupPcs \cup LoadPcs,
         cmd'.kind = "start" \/ ran' >= 1,
         cmd'.pc = "post" => Serving',
         cmd'.pc = "migrate" => cmd'.kind \in {"migrate_pre", "migrate_post"},
         cmd'.pc = "post" => cmd'.kind \in CatchesUp,
         cmd'.kind = "rebuild" /\ cmd'.pc \in {"retag", "recreate"} => tags'.current # None,
         cmd'.pc \in {"health", "post"} => api'.image = tags'.current,
         cmd'.sound => db'.whole
  PROVE  IInv'
<1>1. cmd'.kind \notin {"backup", "restore", "update", "idle"}
  BY DEF SimpleKinds, Kinds
<1>2. Typed' /\ NotYet' /\ Still' /\ Made'
  BY <1>1 DEF Typed, BackupPcs, LoadPcs, NotYet, Still, Made
<1>3. BothThere' /\ Remembered' /\ Additive' /\ Resumed' /\ Caught' /\ Sound'
  BY <1>1 DEF BothThere, Remembered, Additive, Resumed, Caught, Sound
<1>4. QED
  BY <1>2, <1>3 DEF IInv, OfCommand

LEMMA StopCommandStep == ASSUME IInv, StopCommand PROVE IInv'
<1>1. World /\ cmd \in Cmd /\ cmd.kind \in {"stop", "restart"} /\ ran >= 1
      /\ (cmd.sound => db.whole)
  BY DEF IInv, OfCommand, Typed, StopCommand, Sound
<1>2. UNCHANGED <<db, archives, tags, checkout, config>> /\ (ComposeStop \/ UNCHANGED api)
  BY DEF StopCommand
<1>3. World' /\ Left
  BY <1>1, <1>2, LeftAlone, Compose, WorldKept DEF StopCommand
<1>4. CASE cmd' = Idle
  BY <1>3, <1>4, EndsIdle
<1>5. CASE Goto("up")
  BY <1>1, <1>2, <1>3, <1>5, Goes, SimpleKept
     DEF SimpleKinds, Kinds, Pcs, BackupPcs, LoadPcs, Left
<1>6. QED
  BY <1>4, <1>5 DEF StopCommand, Stop, End, EndOn

LEMMA UpTakes ==
  ASSUME NEW recreate, ComposeUp(recreate) PROVE api'.image = tags.current
  BY DEF ComposeUp

LEMMA DiesUp ==
  ASSUME World, tags.current # None, DiesOfUp,
         UNCHANGED <<db, archives, tags, checkout, config>>
  PROVE  IInv'
<1>1. PICK left \in UpLeaves(tags.current) :
          api' = left /\ EndOn("died", left.image, tags.current) /\ UNCHANGED <<ran, cuts>>
  BY DEF DiesOfUp
<1>2. Left /\ cmd' = Idle
  BY <1>1, EndLeaves
<1>3. tags.current \in 1..Latest
  BY Bounds DEF World, None
<1>4. ApiTyped' /\ (Serving' => api' = api)
  BY <1>1, <1>3, Leaves
<1>5. World'
  BY <1>2, <1>4, WorldKept
<1>6. QED
  BY <1>2, <1>5, EndsIdle

LEMMA StartUpStep == ASSUME IInv, StartUp PROVE IInv'
<1>1. World /\ cmd \in Cmd /\ cmd.kind \in {"start", "restart", "setup"}
      /\ (cmd.kind = "start" \/ ran >= 1) /\ (cmd.sound => db.whole)
  BY DEF IInv, OfCommand, Typed, StartUp, Sound
<1>2. UNCHANGED <<db, archives, tags, checkout, config>>
  BY DEF StartUp
<1>3. CASE tags.current # None /\ ComposeUp(FALSE) /\ Goto("health") /\ Continue
  <2>1. World' /\ Left
    BY <1>1, <1>2, <1>3, LeftAlone, Compose, WorldKept
  <2>2. api'.image = tags'.current
    BY <1>2, <1>3, UpTakes
  <2>3. QED
    BY <1>1, <1>2, <1>3, <2>1, <2>2, Goes, SimpleKept
       DEF SimpleKinds, Kinds, Pcs, BackupPcs, LoadPcs, Left
<1>4. CASE tags.current # None /\ DiesOfUp
  BY <1>1, <1>2, <1>4, DiesUp
<1>5. CASE UNCHANGED api /\ Stop("died")
  <2>1. World' /\ cmd' = Idle
    BY <1>1, <1>2, <1>5, LeftAlone, Compose, WorldKept DEF Stop, End, EndOn
  <2>2. QED
    BY <2>1, EndsIdle
<1>6. QED
  BY <1>3, <1>4, <1>5 DEF StartUp

LEMMA StartHealthStep == ASSUME IInv, StartHealth PROVE IInv'
<1>1. World /\ cmd \in Cmd /\ cmd.kind \in {"start", "restart", "rebuild", "setup"}
      /\ (cmd.kind = "start" \/ ran >= 1) /\ (cmd.sound => db.whole)
      /\ api.image = tags.current
  BY DEF IInv, OfCommand, Typed, StartHealth, Sound, Caught, CatchesUp
<1>2. World' /\ Left /\ UNCHANGED <<api, tags, db>>
  BY <1>1, LeftAlone, Compose, WorldKept DEF StartHealth
<1>3. CASE cmd' = Idle
  BY <1>2, <1>3, EndsIdle
<1>4. CASE Goto("post") /\ WaitForHealth(TRUE)
  <2>1. Serving'
    BY <1>2, <1>4 DEF WaitForHealth, Serving
  <2>2. QED
    BY <1>1, <1>2, <1>4, <2>1, Goes, SimpleKept
       DEF SimpleKinds, Kinds, Pcs, BackupPcs, LoadPcs, Left, CatchesUp
<1>5. QED
  BY <1>3, <1>4 DEF StartHealth, Stop, End, EndOn

(* Migrations only add, and a failed file leaves those before it.          *)
LEMMA Migrates ==
  ASSUME World, NEW phase \in {"pre", "post"}, NEW image \in 0..Latest, NEW ok \in BOOLEAN,
         Migrate(phase, image, ok)
  PROVE  /\ db' \in Database /\ db'.usage = db.usage /\ db'.balance = db.balance
         /\ db'.whole = db.whole
         /\ phase = "pre" => /\ db'.post = db.post /\ db'.pre >= db.pre
                             /\ ok => db'.pre >= image
         /\ phase = "post" => /\ db'.pre = db.pre /\ db'.post >= db.post
                              /\ db'.post <= db.post \/ db'.post <= image
                              /\ ok => db'.post >= image
<1>1. /\ db \in Database /\ db[phase] \in 0..Latest /\ db.pre \in 0..Latest
      /\ db.post \in 0..Latest
  BY DEF World, Database
<1>2. /\ Max({db[phase], image}) \in 0..Latest /\ Max({db[phase], image}) >= image
      /\ Max({db[phase], image}) >= db[phase]
      /\ Max({db[phase], image}) = db[phase] \/ Max({db[phase], image}) = image
  BY <1>1, MaxOf, Bounds
<1>3. PICK n \in db[phase] .. Max({db[phase], image}) :
          /\ ok => n = Max({db[phase], image})
          /\ db' = [db EXCEPT ![phase] = n]
  BY DEF Migrate
<1>4. n \in 0..Latest /\ n >= db[phase] /\ (ok => n >= image)
      /\ (n <= db[phase] \/ n <= image)
  BY <1>1, <1>2, <1>3, Bounds
<1>5. CASE phase = "pre"
  BY <1>1, <1>3, <1>4, <1>5 DEF Database
<1>6. CASE phase = "post"
  BY <1>1, <1>3, <1>4, <1>6 DEF Database
<1>7. QED
  BY <1>5, <1>6

LEMMA MigratedWorld ==
  ASSUME World, Left, NEW phase \in {"pre", "post"}, NEW image \in 0..Latest,
         NEW ok \in BOOLEAN, Migrate(phase, image, ok),
         UNCHANGED <<archives, api, tags, checkout, config>>
  PROVE  World'
<1>1. /\ db' \in Database /\ db'.usage = db.usage /\ db'.balance = db.balance
      /\ db'.pre >= db.pre
  <2>1. db.pre \in Nat
    BY DEF World, Database
  <2>2. QED
    BY <2>1, Migrates
<1>2. /\ db.pre \in Nat /\ db'.pre \in Nat /\ api.image \in Nat
  BY <1>1 DEF World, Database
<1>3. QED
  BY <1>1, <1>2 DEF World, Left, Serving

LEMMA PostMigrationsStep == ASSUME IInv, PostMigrations \/ MigrateCommand PROVE IInv'
<1>1. World /\ tags.current \in 0..Latest
  BY DEF IInv, World
<1>2. cmd' = Idle /\ Left
  BY <1>1, LeftAlone DEF PostMigrations, MigrateCommand, Stop, End, EndOn
<1>3. World'
  BY <1>1, <1>2, MigratedWorld DEF PostMigrations, MigrateCommand
<1>4. QED
  BY <1>2, <1>3, EndsIdle

LEMMA ComposeDownStep == ASSUME IInv, ComposeDown PROVE IInv'
<1>1. World /\ cmd \in Cmd /\ cmd.kind \in {"destroy", "reset"} /\ ran >= 1
      /\ (cmd.sound => db.whole)
  BY DEF IInv, OfCommand, Typed, ComposeDown, Sound
<1>2. api' \in DownLeaves /\ UNCHANGED <<db, archives, tags, checkout, config>>
  BY DEF ComposeDown, DownLeaves
<1>3. ApiTyped' /\ (Serving' => api' = api)
  BY <1>1, <1>2, Leaves
<1>4. Left
  BY <1>1, LeftAlone, EndLeaves DEF ComposeDown
<1>5. World'
  BY <1>1, <1>2, <1>3, <1>4, WorldKept
<1>6. CASE cmd' = Idle
  BY <1>5, <1>6, EndsIdle
<1>7. CASE Goto("wipe")
  BY <1>1, <1>2, <1>4, <1>5, <1>7, Goes, SimpleKept
     DEF SimpleKinds, Kinds, Pcs, BackupPcs, LoadPcs, Left
<1>8. QED
  BY <1>6, <1>7 DEF ComposeDown, Stop, End, EndOn

LEMMA ResetStep == ASSUME IInv, ResetWipe \/ ResetUntag PROVE IInv'
<1>1. World /\ cmd \in Cmd /\ cmd.kind = "reset" /\ ran >= 1 /\ (cmd.sound => db.whole)
  BY DEF IInv, OfCommand, Typed, ResetWipe, ResetUntag, Sound
<1>2. Fresh \in Database /\ Fresh.whole
  BY Bounds DEF Fresh, Database
<1>3. CASE /\ ResetWipe /\ db' = Fresh /\ archives' = {}
           /\ astray' = astray \cup (IF api.status = "none" THEN {} ELSE {"wiped"})
           /\ Goto("untag") /\ UNCHANGED <<last, ran, cuts>>
  <2>1. Left /\ (Serving => "wiped" \in astray')
    BY <1>1, <1>3 DEF Left, World, Causes, Serving
  <2>2. UNCHANGED <<api, tags, checkout, config>>
    BY <1>3 DEF ResetWipe
  <2>3. World'
    BY <1>1, <1>2, <1>3, <2>1, <2>2 DEF World, Left, Serving
  <2>4. QED
    BY <1>1, <1>2, <1>3, <2>1, <2>3, Goes, SimpleKept
       DEF SimpleKinds, Kinds, Pcs, BackupPcs, LoadPcs, Left
<1>4. CASE /\ ResetWipe /\ Stop("died") /\ archives' \in {archives, {}}
           /\ db' \in {db, [db EXCEPT !.whole = FALSE]}
  <2>1. Left /\ cmd' = Idle
    BY <1>1, <1>4, LeftAlone DEF Stop, End, EndOn
  <2>2. UNCHANGED <<api, tags, checkout, config>>
    BY <1>4 DEF ResetWipe
  <2>3. db' \in Database /\ db'.pre = db.pre
    BY <1>1, <1>4 DEF World, Database
  <2>4. World'
    BY <1>1, <1>4, <2>1, <2>2, <2>3 DEF World, Left, Serving
  <2>5. QED
    BY <2>1, <2>4, EndsIdle
<1>5. CASE ResetUntag
  <2>1. PICK current \in {None, tags.current}, previous \in {None, tags.previous} :
            /\ tags' = [current |-> current, previous |-> previous]
            /\ EndOn("done", api.image, current) /\ UNCHANGED <<ran, cuts>>
    BY <1>5 DEF ResetUntag
  <2>2. tags' \in [current : 0..Latest, previous : 0..Latest]
    BY <1>1, <2>1, Bounds DEF None, World
  <2>3. Left /\ cmd' = Idle /\ UNCHANGED <<db, archives, api, checkout, config>>
    BY <1>1, <1>5, <2>1, EndLeaves DEF ResetUntag
  <2>4. World'
    BY <1>1, <2>2, <2>3 DEF World, Left, Serving
  <2>5. QED
    BY <2>3, <2>4, EndsIdle
<1>6. QED
  BY <1>3, <1>4, <1>5 DEF ResetWipe

(* The generated configuration, with the snapshot of what was there.       *)
LEMMA Renders ==
  ASSUME World, Left, NEW image \in Releases,
         \/ config' = [rendered |-> image, snapshot |-> config.rendered]
         \/ config' = [config EXCEPT !.snapshot = config.rendered]
         \/ config' = [config EXCEPT !.rendered = image]
         \/ UNCHANGED config,
         UNCHANGED <<db, archives, api, tags, checkout>>
  PROVE  World'
<1>1. config' \in [rendered : 0..Latest, snapshot : 0..Latest]
  BY Bounds DEF World, Releases
<1>2. QED
  BY <1>1 DEF World, Left, Serving

LEMMA ConfigStep == ASSUME IInv, ConfigRender \/ RebuildConfig \/ SetupConfig PROVE IInv'
<1>1. World /\ cmd \in Cmd /\ cmd.kind \in {"render", "rebuild", "setup"} /\ ran >= 1
      /\ (cmd.sound => db.whole)
  <2>1. cmd.kind \in {"render", "rebuild", "setup"} /\ cmd.pc = "config"
    BY DEF ConfigRender, RebuildConfig, SetupConfig
  <2>2. World /\ Typed /\ Sound
    BY DEF IInv, OfCommand
  <2>3. QED
    BY <2>1, <2>2 DEF Typed, Sound
<1>2. checkout \in Releases /\ (tags.current # None => tags.current \in Releases)
  BY <1>1, Bounds DEF World, Releases, None
<1>3. Left
  BY <1>1, LeftAlone DEF ConfigRender, RebuildConfig, SetupConfig, RenderConfig
<1>4. World' /\ UNCHANGED db
  BY <1>1, <1>2, <1>3, Renders DEF ConfigRender, RebuildConfig, SetupConfig, RenderConfig
<1>5. CASE cmd' = Idle
  BY <1>4, <1>5, EndsIdle
<1>6. CASE \E p \in {"promote", "up"} : Goto(p)
  <2>1. PICK p \in {"promote", "up"} : Goto(p)
    BY <1>6
  <2>2. cmd' \in Cmd /\ cmd'.pc = p /\ cmd'.kind = cmd.kind /\ cmd'.sound = cmd.sound
    BY <1>1, <2>1, Goes DEF Pcs
  <2>3. QED
    BY <1>1, <1>3, <1>4, <2>2, SimpleKept DEF SimpleKinds, Kinds, BackupPcs, LoadPcs, Left
<1>7. QED
  BY <1>1, <1>5, <1>6
     DEF ConfigRender, RebuildConfig, SetupConfig, RenderConfig, Stop, End, EndOn

LEMMA RebuildBuildStep == ASSUME IInv, RebuildBuild PROVE IInv'
<1>1. World /\ cmd \in Cmd /\ cmd.kind = "rebuild" /\ ran >= 1 /\ (cmd.sound => db.whole)
  <2>1. cmd.kind = "rebuild" /\ cmd.pc = "build"
    BY DEF RebuildBuild
  <2>2. World /\ Typed /\ Sound
    BY DEF IInv, OfCommand
  <2>3. QED
    BY <2>1, <2>2 DEF Typed, Sound
<1>2. World' /\ Left /\ UNCHANGED db
  BY <1>1, LeftAlone, Compose, WorldKept DEF RebuildBuild
<1>3. CASE cmd' = Idle
  BY <1>2, <1>3, EndsIdle
<1>4. CASE cmd' = [cmd EXCEPT !.pc = "config", !.from = api.image]
  <2>1. api.image \in 0..Latest /\ "config" \in Pcs
    BY <1>1 DEF World, Pcs
  <2>2. cmd' \in Cmd /\ cmd'.pc = "config" /\ cmd'.kind = "rebuild" /\ cmd'.sound = cmd.sound
    BY <1>1, <1>4, <2>1 DEF Cmd
  <2>3. cmd'.kind \in SimpleKinds /\ cmd'.pc \notin BackupPcs \cup LoadPcs
    BY <2>2 DEF SimpleKinds, Kinds, BackupPcs, LoadPcs
  <2>4. QED
    BY <1>1, <1>2, <2>2, <2>3, SimpleKept DEF Left
<1>5. QED
  BY <1>3, <1>4 DEF RebuildBuild, Stop, End, EndOn

LEMMA TagStep == ASSUME IInv, RebuildPromote \/ RebuildRetag \/ SetupBuild PROVE IInv'
<1>1. World /\ cmd \in Cmd /\ cmd.kind \in {"rebuild", "setup"} /\ ran >= 1
      /\ (cmd.sound => db.whole)
  BY DEF IInv, OfCommand, Typed, Sound, RebuildPromote, RebuildRetag, SetupBuild
<1>2. Left /\ UNCHANGED <<db, archives, api, checkout, config>>
  BY <1>1, LeftAlone DEF RebuildPromote, RebuildRetag, SetupBuild
<1>3. checkout \in 0..Latest /\ checkout # None /\ cmd.from \in 0..Latest
  BY <1>1, Bounds DEF World, Releases, None, Cmd
<1>4. tags' \in [current : 0..Latest, previous : 0..Latest]
  BY <1>1, <1>3 DEF World, RebuildPromote, RebuildRetag, SetupBuild
<1>5. World'
  BY <1>1, <1>2, <1>3, <1>4 DEF World, Left, Serving
<1>6. CASE cmd' = Idle
  BY <1>5, <1>6, EndsIdle
<1>7. CASE Goto("config")
  BY <1>1, <1>2, <1>5, <1>7, Goes, SimpleKept
     DEF SimpleKinds, Kinds, Pcs, BackupPcs, LoadPcs, Left
<1>8. CASE RebuildPromote /\ Goto("retag") /\ tags' = [tags EXCEPT !.current = checkout]
  <2>1. tags'.current # None
    BY <1>1, <1>3, <1>8 DEF World
  <2>2. QED
    BY <1>1, <1>2, <1>5, <1>8, <2>1, Goes, SimpleKept
       DEF SimpleKinds, Kinds, Pcs, BackupPcs, LoadPcs, Left
<1>9. CASE RebuildRetag
  <2>1. tags'.current = tags.current /\ tags.current # None /\ Goto("recreate")
    BY <1>1, <1>9 DEF RebuildRetag, World, IInv, OfCommand, Typed
  <2>2. QED
    BY <1>1, <1>2, <1>5, <1>9, <2>1, Goes, SimpleKept
       DEF SimpleKinds, Kinds, Pcs, BackupPcs, LoadPcs, Left
<1>10. QED
  BY <1>6, <1>7, <1>8, <1>9 DEF SetupBuild, RebuildPromote, Stop, End, EndOn

LEMMA RebuildUpStep == ASSUME IInv, RebuildUp PROVE IInv'
<1>1. World /\ cmd \in Cmd /\ cmd.kind = "rebuild" /\ ran >= 1 /\ tags.current # None
      /\ (cmd.sound => db.whole)
  BY DEF IInv, OfCommand, Typed, RebuildUp, Sound
<1>2. UNCHANGED <<db, archives, tags, checkout, config>>
  BY DEF RebuildUp
<1>3. CASE DiesOfUp
  BY <1>1, <1>2, <1>3, DiesUp
<1>4. CASE ComposeUp(TRUE) /\ Goto("health") /\ Continue
  <2>1. World' /\ Left
    BY <1>1, <1>2, <1>4, LeftAlone, Compose, WorldKept
  <2>2. api'.image = tags'.current
    BY <1>2, <1>4, UpTakes
  <2>3. QED
    BY <1>1, <1>2, <1>4, <2>1, <2>2, Goes, SimpleKept
       DEF SimpleKinds, Kinds, Pcs, BackupPcs, LoadPcs, Left
<1>5. QED
  BY <1>3, <1>4 DEF RebuildUp

-----------------------------------------------------------------------------
(* create_backup, in whichever command.                                    *)
LEMMA InBackupFacts ==
  ASSUME IInv, cmd.pc \in BackupPcs
  PROVE  /\ World /\ OfCommand /\ cmd \in Cmd /\ ran \in 1..MaxCommands
         /\ cmd.kind \in {"backup", "restore", "update"}
<1>1. World /\ OfCommand /\ Typed
  BY DEF IInv, OfCommand
<1>2. cmd \in Cmd /\ cmd.kind \in {"backup", "restore", "update"}
  BY <1>1 DEF Typed
<1>3. ran >= 1 /\ ran \in 0..MaxCommands
  BY <1>1, <1>2 DEF Typed, World
<1>4. QED
  BY <1>1, <1>2, <1>3, Bounds

(* An archive of an id is the one.                                         *)
LEMMA TheArchive ==
  ASSUME World, NEW a \in archives PROVE Archive(a.id) = a
  BY DEF World, Archive

LEMMA AnArchive ==
  ASSUME World, NEW i \in Ids
  PROVE  Archive(i) \in archives /\ Archive(i).id = i
<1>1. PICK a \in archives : a.id = i
  BY DEF Ids
<1>2. QED
  BY <1>1, TheArchive

(* An update whose backup failed has only to start the old container.      *)
LEMMA Aborts ==
  ASSUME OfCommand, World', Left, cmd.kind = "update", cmd.pc \in BackupPcs,
         UNCHANGED <<db, tags, config>>,
         cmd' \in Cmd, cmd'.pc = "abort", SameOrder
  PROVE  IInv'
<1> USE DEF SameOrder
<1>1. Typed'
  BY DEF OfCommand, Typed, BackupPcs, LoadPcs, MovedPcs, Left
<1>2. NotYet' /\ Still' /\ Made' /\ BothThere' /\ Additive' /\ Resumed'
  BY DEF NotYet, Still, Made, BothThere, Additive, Resumed, BackupPcs, LoadPcs, EarlyPcs,
         HeldPcs
<1>3. Remembered' /\ Caught' /\ Sound'
  BY DEF OfCommand, Remembered, BackupPcs, Caught, CatchesUp, Sound
<1>4. QED
  BY <1>1, <1>2, <1>3 DEF IInv, OfCommand

LEMMA QuiesceStep == ASSUME IInv, QuiesceWriters PROVE IInv'
<1>1. World /\ OfCommand /\ cmd \in Cmd /\ cmd.pc = "quiesce" /\ ran >= 1
      /\ cmd.kind \in {"backup", "restore", "update"}
  BY InBackupFacts DEF QuiesceWriters, BackupPcs
<1>2. UNCHANGED <<db, archives, tags, checkout, config>>
  BY DEF QuiesceWriters
<1>3. ASSUME NEW p \in {"flag", "dump"}, Goto(p), Continue, ComposeStop \/ UNCHANGED api,
             p = "flag" => Running
      PROVE  IInv'
  <2>1. World' /\ Left /\ (Running' => Running)
    BY <1>1, <1>2, <1>3, LeftAlone, Compose, WorldKept
  <2>2. /\ cmd' \in Cmd /\ cmd'.pc = p /\ SameOrder /\ ~cmd'.wasUp
    BY <1>1, <1>3, Goes DEF Pcs, SameOrder, OfCommand, Still
  <2>3. cmd.kind = "update" => ~Running
    BY <1>1 DEF OfCommand, Still, BackupPcs
  <2>4. Typed'
    BY <1>1, <1>2, <2>1, <2>2
       DEF SameOrder, OfCommand, Typed, BackupPcs, LoadPcs, MovedPcs, Left
  <2>5. NotYet' /\ Made'
    BY <1>1, <1>2, <2>1, <2>2 DEF SameOrder, OfCommand, NotYet, Made, Ids, Left, HeldPcs
  <2>6. Still'
    BY <1>3, <2>1, <2>2, <2>3 DEF SameOrder, Still, BackupPcs, LoadPcs
  <2>7. BothThere'
    BY <1>1, <1>2, <2>1, <2>2 DEF SameOrder, OfCommand, BothThere, BackupPcs, Ids, Left
  <2>8. Remembered' /\ Additive' /\ Resumed' /\ Caught' /\ Sound'
    BY <1>1, <1>2, <2>2
       DEF SameOrder, OfCommand, Remembered, Additive, Resumed, Caught, Sound, BackupPcs
  <2>9. QED
    BY <2>1, <2>4, <2>5, <2>6, <2>7, <2>8 DEF IInv, OfCommand
<1>4. CASE UNCHANGED api /\ BackupReturns(FALSE, None)
  <2>1. CASE cmd' = Idle /\ Left
    BY <1>1, <1>2, <1>4, <2>1, Compose, WorldKept, EndsIdle
  <2>2. CASE /\ cmd.kind = "update" /\ Continue
             /\ cmd' = [cmd EXCEPT !.pc = "abort", !.file = None]
    <3>1. World' /\ Left
      BY <1>1, <1>2, <1>4, <2>2, LeftAlone, Compose, WorldKept
    <3>2. cmd' \in Cmd /\ cmd'.pc = "abort" /\ SameOrder
      <4>1. None \in 0..MaxCommands /\ "abort" \in Pcs
        BY Bounds DEF Pcs, None
      <4>2. QED
        BY <1>1, <2>2, <4>1, NotesFile
    <3>3. QED
      BY <1>1, <1>2, <2>2, <3>1, <3>2, Aborts DEF BackupPcs
  <2>3. Stop("died") => cmd' = Idle /\ Left
    BY <1>1, LeftAlone DEF Stop, End, EndOn
  <2>4. QED
    BY <1>1, <1>4, <2>1, <2>2, <2>3 DEF BackupReturns
<1>5. CASE Running /\ ComposeStop /\ Goto("flag") /\ Continue
  BY <1>3, <1>5
<1>6. CASE UNCHANGED api /\ Goto("dump") /\ Continue
  BY <1>3, <1>6
<1>7. QED
  BY <1>4, <1>5, <1>6 DEF QuiesceWriters

LEMMA QuiesceFlagStep == ASSUME IInv, QuiesceFlag PROVE IInv'
<1>1. World /\ OfCommand /\ cmd \in Cmd /\ cmd.pc = "flag" /\ ran >= 1
      /\ cmd.kind \in {"backup", "restore"}
  BY InBackupFacts DEF QuiesceFlag, BackupPcs, OfCommand, Still
<1>2. UNCHANGED <<db, archives, tags, checkout, config, api>> /\ Continue
  BY DEF QuiesceFlag
<1>3. World' /\ Left
  BY <1>1, <1>2, LeftAlone, Compose, WorldKept
<1>4. cmd' \in Cmd /\ cmd'.pc = "dump" /\ SameOrder /\ cmd'.wasUp
  BY <1>1, NotesUp DEF QuiesceFlag, Pcs
<1>5. Typed'
  BY <1>1, <1>2, <1>3, <1>4
     DEF SameOrder, OfCommand, Typed, BackupPcs, LoadPcs, MovedPcs, Left
<1>6. NotYet' /\ Made' /\ Still'
  BY <1>1, <1>2, <1>3, <1>4
     DEF SameOrder, OfCommand, NotYet, Made, Still, Ids, Left, HeldPcs, LoadPcs
<1>7. BothThere'
  BY <1>1, <1>2, <1>3, <1>4 DEF SameOrder, OfCommand, BothThere, BackupPcs, Ids, Left
<1>8. Remembered' /\ Additive' /\ Resumed' /\ Caught' /\ Sound'
  BY <1>1, <1>2, <1>4
     DEF SameOrder, OfCommand, Remembered, Additive, Resumed, Caught, Sound, BackupPcs
<1>9. QED
  BY <1>3, <1>5, <1>6, <1>7, <1>8 DEF IInv, OfCommand

LEMMA DumpFirstStep == ASSUME IInv, DumpFirst PROVE IInv'
<1>1. World /\ OfCommand /\ cmd \in Cmd /\ cmd.pc = "dump" /\ ran >= 1
      /\ cmd.kind \in {"backup", "restore", "update"}
  BY InBackupFacts DEF DumpFirst, BackupPcs
<1>2. UNCHANGED <<db, archives, api, tags, checkout, config>> /\ Continue
      /\ cmd' = [cmd EXCEPT !.pc = "dump2", !.part = db.usage]
  BY DEF DumpFirst
<1>3. World' /\ Left
  BY <1>1, <1>2, LeftAlone, Compose, WorldKept
<1>4. /\ cmd' \in Cmd /\ cmd'.pc = "dump2" /\ SameOrder /\ cmd'.wasUp = cmd.wasUp
      /\ cmd'.part = db.usage /\ db.usage \in 0..MaxWrites
  <2>1. db.usage \in Nat /\ "dump2" \in Pcs
    BY <1>1, Bounds DEF Pcs, World, Database
  <2>2. QED
    BY <1>1, <1>2, <2>1, NotesPart DEF World, Database
<1>5. Typed'
  BY <1>1, <1>2, <1>3, <1>4
     DEF SameOrder, OfCommand, Typed, BackupPcs, LoadPcs, MovedPcs, Left, Running
<1>6. NotYet' /\ Made'
  BY <1>1, <1>2, <1>3, <1>4 DEF SameOrder, OfCommand, NotYet, Made, Ids, Left, HeldPcs, WayBack
<1>7. Still'
  BY <1>1, <1>2, <1>4 DEF SameOrder, OfCommand, Still, BackupPcs, LoadPcs, Running
<1>8. BothThere'
  BY <1>1, <1>2, <1>3, <1>4 DEF SameOrder, OfCommand, BothThere, BackupPcs, Ids, Left
<1>9. Remembered' /\ Additive' /\ Resumed' /\ Caught' /\ Sound'
  BY <1>1, <1>2, <1>4
     DEF SameOrder, OfCommand, Remembered, Additive, Resumed, Caught, Sound, BackupPcs
<1>10. QED
  BY <1>3, <1>5, <1>6, <1>7, <1>8, <1>9 DEF IInv, OfCommand

(* The archive a whole dump leaves: what mongodump reads first may be older *)
(* than the rest only where the API ran beside it.                         *)
Dumped == [id |-> ran, db |-> [db EXCEPT !.usage = cmd.part], good |-> TRUE]

LEMMA DumpIsDatabase ==
  ASSUME IInv, cmd.pc = "dump2"
  PROVE  /\ Dumped.id = ran /\ Dumped.db \in Database
         /\ Dumped.db.pre = db.pre /\ Dumped.db.post = db.post
         /\ Dumped.db.balance = db.balance
         /\ ~Running => Dumped.db = db
<1>1. db \in Database /\ cmd.part \in 0..MaxWrites /\ (cmd.part = db.usage \/ Running)
  BY DEF IInv, OfCommand, Typed, World
<1>2. ~Running => [db EXCEPT !.usage = cmd.part] = db
  BY <1>1 DEF Database
<1>3. QED
  BY <1>1, <1>2 DEF Dumped, Database

LEMMA DumpRestStep == ASSUME IInv, DumpRest PROVE IInv'
<1>1. World /\ OfCommand /\ cmd \in Cmd /\ cmd.pc = "dump2" /\ ran \in 1..MaxCommands
      /\ cmd.kind \in {"backup", "restore", "update"}
  BY InBackupFacts DEF DumpRest, BackupPcs
<1>2. UNCHANGED <<db, api, tags, checkout, config>> /\ Continue
  BY DEF DumpRest
<1>3. PICK f \in {None, ran} :
        /\ archives' = IF f = None THEN archives ELSE archives \cup {Dumped}
        /\ cmd' = [cmd EXCEPT !.pc = "resume", !.file = f, !.part = 0]
  <2>1. ran # None
    BY <1>1, Bounds DEF None
  <2>2. CASE /\ archives' = archives \cup {Dumped}
             /\ cmd' = [cmd EXCEPT !.pc = "resume", !.file = ran, !.part = 0]
    BY <2>1, <2>2
  <2>3. QED
    BY <2>2 DEF DumpRest, Dumped
<1>4. /\ cmd' \in Cmd /\ cmd'.pc = "resume" /\ SameOrder /\ cmd'.wasUp = cmd.wasUp
      /\ cmd'.file = f
  <2>1. f \in 0..MaxCommands /\ 0 \in Nat /\ "resume" \in Pcs
    BY <1>1, Bounds DEF Pcs, None
  <2>2. QED
    BY <1>1, <1>3, <2>1, NotesBoth
<1>5. Left
  BY <1>1, <1>2, LeftAlone
<1>6. /\ Dumped.id = ran /\ Dumped.db \in Database /\ ran \notin Ids
      /\ Dumped.db.pre = db.pre /\ Dumped.db.post = db.post
      /\ Dumped.db.balance = db.balance
  BY <1>1, DumpIsDatabase DEF OfCommand, NotYet
<1>7. World'
  <2>1. CASE f = None
    BY <1>1, <1>2, <1>3, <1>5, <2>1, Compose, WorldKept
  <2>2. CASE f # None
    <3>1. archives' = archives \cup {Dumped}
      BY <1>3, <2>2
    <3>2. archives' \subseteq [id : 1..MaxCommands, db : Database, good : BOOLEAN]
      <4>1. Dumped \in [id : 1..MaxCommands, db : Database, good : BOOLEAN]
        BY <1>1, <1>6 DEF Dumped
      <4>2. archives \subseteq [id : 1..MaxCommands, db : Database, good : BOOLEAN]
        BY <1>1 DEF World
      <4>3. QED
        BY <3>1, <4>1, <4>2
    <3>3. \A a, b \in archives' : a.id = b.id => a = b
      <4>1. Dumped.id = ran /\ \A a \in archives : a.id # ran
        BY <1>6 DEF Ids
      <4>2. \A a, b \in archives : a.id = b.id => a = b
        BY <1>1 DEF World
      <4>3. QED
        BY <3>1, <4>1, <4>2
    <3>4. \A a \in archives' : a.id <= ran
      BY <1>1, <1>6, <3>1, Bounds DEF World
    <3>5. QED
      BY <1>1, <1>2, <1>5, <3>2, <3>3, <3>4 DEF World, Left, Serving
  <2>3. QED
    BY <2>1, <2>2
<1>8. archives \subseteq archives'
  BY <1>3
<1>9. Typed'
  BY <1>1, <1>2, <1>4, <1>5
     DEF SameOrder, OfCommand, Typed, BackupPcs, LoadPcs, MovedPcs, Left, Running
<1>10. NotYet'
  BY <1>4 DEF NotYet
<1>11. Still'
  BY <1>1, <1>2, <1>4 DEF SameOrder, OfCommand, Still, BackupPcs, LoadPcs, Running
<1>12. Made'
  <2>1. f # None => f = ran /\ Dumped \in archives'
    BY <1>3, <1>6
  <2>2. cmd.kind = "update" => db.pre >= cmd.target /\ db.post <= db.post
    BY <1>1, Bounds DEF OfCommand, Additive, BackupPcs, World, Database
  <2>3. cmd'.file # None =>
          /\ cmd'.file = ran'
          /\ \E a \in archives' :
                /\ a.id = cmd'.file
                /\ cmd'.kind = "update" => a.db.balance = db'.balance /\ WayBack(a)'
    <3>1. SUFFICES ASSUME cmd'.file # None
                   PROVE  /\ Dumped.id = cmd'.file
                          /\ cmd'.kind = "update" =>
                               Dumped.db.balance = db'.balance /\ Dumped.db.pre >= cmd'.target
                               /\ Dumped.db.post <= db'.post
      BY <1>2, <1>4, <1>5, <1>6, <2>1 DEF Left, WayBack
    <3>2. QED
      BY <1>2, <1>4, <1>6, <2>1, <2>2, <3>1 DEF SameOrder
  <2>4. QED
    BY <1>4, <2>3 DEF Made, HeldPcs
<1>13. BothThere'
  BY <1>1, <1>4, <1>5, <1>8 DEF SameOrder, OfCommand, BothThere, BackupPcs, Ids, Left
<1>14. Remembered' /\ Additive' /\ Resumed' /\ Caught' /\ Sound'
  BY <1>1, <1>2, <1>4
     DEF SameOrder, OfCommand, Remembered, Additive, Resumed, Caught, Sound, BackupPcs
<1>15. QED
  BY <1>7, <1>9, <1>10, <1>11, <1>12, <1>13, <1>14 DEF IInv, OfCommand

LEMMA ResumeStartStep == ASSUME IInv, ResumeStart PROVE IInv'
<1>1. World /\ OfCommand /\ cmd \in Cmd /\ cmd.pc = "resume" /\ ran >= 1
      /\ cmd.kind \in {"backup", "restore", "update"}
  BY InBackupFacts DEF ResumeStart, BackupPcs
<1>2. UNCHANGED <<db, archives, tags, checkout, config>> /\ Continue
  BY DEF ResumeStart
<1>3. PICK p \in {"resumewait", "resumefail", "retain"} :
        /\ Goto(p)
        /\ p = "resumewait" => cmd.wasUp /\ ComposeStart
        /\ p = "resumefail" => cmd.wasUp /\ UNCHANGED api
        /\ p = "retain" => ~cmd.wasUp /\ UNCHANGED api
  BY DEF ResumeStart, Goto
<1>4. World' /\ Left
  BY <1>1, <1>2, <1>3, LeftAlone, Compose, WorldKept
<1>5. /\ cmd' \in Cmd /\ cmd'.pc = p /\ SameOrder /\ cmd'.wasUp = cmd.wasUp
      /\ cmd'.file = cmd.file
  <2>1. p \in Pcs
    BY DEF Pcs
  <2>2. QED
    BY <1>1, <1>3, <2>1, Goes DEF SameOrder
<1>6. cmd.kind = "update" => ~cmd.wasUp /\ p = "retain" /\ UNCHANGED api /\ ~Running'
  <2>1. cmd.kind = "update" => ~cmd.wasUp /\ ~Running
    BY <1>1 DEF OfCommand, Still, BackupPcs
  <2>2. QED
    BY <1>3, <2>1 DEF Running
<1>7. Typed'
  BY <1>1, <1>2, <1>4, <1>5
     DEF SameOrder, OfCommand, Typed, BackupPcs, LoadPcs, MovedPcs, Left, Running
<1>8. NotYet' /\ Made'
  BY <1>1, <1>2, <1>4, <1>5 DEF SameOrder, OfCommand, NotYet, Made, Ids, Left, HeldPcs, WayBack
<1>9. Still'
  BY <1>1, <1>5, <1>6 DEF SameOrder, Still, LoadPcs
<1>10. BothThere'
  BY <1>1, <1>2, <1>4, <1>5 DEF SameOrder, OfCommand, BothThere, BackupPcs, Ids, Left
<1>11. Remembered' /\ Additive' /\ Caught' /\ Sound'
  BY <1>1, <1>2, <1>5
     DEF SameOrder, OfCommand, Remembered, Additive, Caught, CatchesUp, Sound, BackupPcs
<1>12. Resumed'
  BY <1>1, <1>2, <1>3, <1>5, Compose DEF Resumed
<1>13. QED
  BY <1>4, <1>7, <1>8, <1>9, <1>10, <1>11, <1>12 DEF IInv, OfCommand

LEMMA ResumeWaitStep == ASSUME IInv, ResumeWait PROVE IInv'
<1>1. World /\ OfCommand /\ cmd \in Cmd /\ cmd.pc = "resumewait" /\ ran >= 1
      /\ cmd.kind \in {"backup", "restore"}
  <2>1. cmd.pc = "resumewait" /\ cmd.pc \in BackupPcs
    BY DEF ResumeWait, BackupPcs
  <2>2. cmd.kind # "update"
    BY <2>1, InBackupFacts DEF OfCommand, Still
  <2>3. QED
    BY <2>1, <2>2, InBackupFacts
<1>2. UNCHANGED <<db, archives, api, tags, checkout, config>> /\ Continue
  BY DEF ResumeWait
<1>3. PICK p \in {"resumefail", "retain"} : Goto(p)
  BY DEF ResumeWait
<1>4. World' /\ Left
  BY <1>1, <1>2, LeftAlone, Compose, WorldKept
<1>5. /\ cmd' \in Cmd /\ cmd'.pc = p /\ SameOrder /\ cmd'.wasUp = cmd.wasUp
      /\ cmd'.file = cmd.file
  <2>1. p \in Pcs
    BY DEF Pcs
  <2>2. QED
    BY <1>1, <1>3, <2>1, Goes DEF SameOrder
<1>6. Typed'
  BY <1>1, <1>2, <1>4, <1>5
     DEF SameOrder, OfCommand, Typed, BackupPcs, LoadPcs, MovedPcs, Left, Running
<1>7. NotYet' /\ Made'
  BY <1>1, <1>2, <1>4, <1>5 DEF SameOrder, OfCommand, NotYet, Made, Ids, Left, HeldPcs, WayBack
<1>8. Still'
  BY <1>1, <1>5 DEF SameOrder, Still, LoadPcs
<1>9. BothThere'
  BY <1>1, <1>2, <1>4, <1>5 DEF SameOrder, OfCommand, BothThere, BackupPcs, Ids, Left
<1>10. Remembered' /\ Additive' /\ Caught' /\ Sound'
  BY <1>1, <1>2, <1>5
     DEF SameOrder, OfCommand, Remembered, Additive, Caught, CatchesUp, Sound, BackupPcs
<1>11. Resumed'
  BY <1>1, <1>2, <1>5 DEF SameOrder, OfCommand, Resumed
<1>12. QED
  BY <1>4, <1>6, <1>7, <1>8, <1>9, <1>10, <1>11 DEF IInv, OfCommand

(* Whatever the count, retention keeps the newest archive and the protected. *)
LEMMA Keeps ==
  ASSUME World, NEW k \in 1..MaxKeep
  PROVE  /\ Kept(k) \subseteq archives
         /\ \A a \in archives : a.id = ran => a \in Kept(k)
         /\ \A a \in archives : a.id \in Protected => a \in Kept(k)
<1>1. Kept(k) \subseteq archives /\ \A a \in archives : a.id \in Protected => a \in Kept(k)
  BY DEF Kept
<1>2. ASSUME NEW a \in archives, a.id = ran, a.id \notin Protected PROVE a \in Kept(k)
  <2> DEFINE counted == {b \in archives : b.id \notin Protected}
  <2>1. {b \in counted : b.id >= a.id} = {a}
    <3>1. ASSUME NEW b \in counted, b.id >= a.id PROVE b = a
      <4>1. b \in archives /\ b.id \in Nat /\ a.id \in Nat /\ b.id <= ran /\ ran \in Nat
        BY <1>2 DEF World
      <4>2. b.id = a.id
        BY <1>2, <3>1, <4>1
      <4>3. QED
        BY <1>2, <4>1, <4>2 DEF World
    <3>2. a \in counted /\ a.id >= a.id
      BY <1>2, Bounds DEF World
    <3>3. QED
      BY <3>1, <3>2
  <2>2. Cardinality({b \in counted : b.id >= a.id}) = 1
    BY <2>1, FS_Singleton
  <2>3. Cardinality({b \in counted : b.id >= a.id}) <= k
    BY <2>2, Bounds
  <2>4. QED
    BY <1>2, <2>3 DEF Kept
<1>3. QED
  BY <1>1, <1>2

LEMMA FewerArchives ==
  ASSUME World, Left, archives' \subseteq archives,
         UNCHANGED <<db, api, tags, checkout, config>>
  PROVE  World'
  BY DEF World, Left, Serving

LEMMA RetentionStep == ASSUME IInv, ApplyRetention PROVE IInv'
<1>1. World /\ OfCommand /\ cmd \in Cmd /\ cmd.pc \in {"retain", "resumefail"}
      /\ ran \in 1..MaxCommands
      /\ cmd.kind \in {"backup", "restore", "update"} /\ cmd.pc \in BackupPcs
  BY InBackupFacts DEF ApplyRetention, BackupPcs
<1>2. UNCHANGED <<db, api, tags, checkout, config>>
  BY DEF ApplyRetention
<1>3. PICK ok \in BOOLEAN :
        /\ BackupReturns(ok, cmd.file)
        /\ ok => cmd.file # None /\ cmd.pc = "retain"
        /\ ~ok /\ cmd.file # None => cmd.pc = "resumefail"
  BY <1>1 DEF ApplyRetention
<1>4. archives' \subseteq archives
      /\ (cmd.file # None => \E k \in 1..MaxKeep : archives' = Kept(k))
  BY <1>1, Keeps DEF ApplyRetention
<1>5. CASE cmd' = Idle
  <2>1. Left
    BY <1>1, <1>3, <1>5, LeftAlone DEF BackupReturns
  <2>2. QED
    BY <1>1, <1>2, <1>4, <1>5, <2>1, FewerArchives, EndsIdle
<1>6. CASE cmd.kind = "restore" /\ ok /\ Continue
           /\ cmd' = [cmd EXCEPT !.pc = "stop", !.safety = cmd.file]
  <2>1. Left
    BY <1>1, <1>6, LeftAlone
  <2>2. World'
    BY <1>1, <1>2, <1>4, <2>1, FewerArchives
  <2>3. /\ cmd' \in Cmd /\ cmd'.pc = "stop" /\ cmd'.kind = "restore"
        /\ cmd'.target = cmd.target /\ cmd'.safety = cmd.file /\ cmd'.sound = cmd.sound
    <3>1. cmd.file \in 0..MaxCommands /\ "stop" \in Pcs
      BY <1>1 DEF Cmd, Pcs
    <3>2. QED
      BY <1>1, <1>6, <3>1 DEF Cmd
  <2>4. cmd.file = ran /\ cmd.file \in Ids
    BY <1>1, <1>3, <1>6 DEF OfCommand, Made, Ids
  <2>5. cmd.target \in Ids /\ cmd.target # ran /\ Protected = {cmd.target}
    BY <1>1, <1>6 DEF OfCommand, BothThere, Protected
  <2>6. cmd.file \in Ids' /\ cmd.target \in Ids'
    <3>1. PICK k \in 1..MaxKeep : archives' = Kept(k)
      BY <1>3, <1>4, <1>6
    <3>2. /\ \A a \in archives : a.id = ran => a \in archives'
          /\ \A a \in archives : a.id \in Protected => a \in archives'
      BY <1>1, <3>1, Keeps
    <3>3. QED
      BY <2>4, <2>5, <3>2 DEF Ids
  <2>7. Typed'
    BY <1>1, <2>1, <2>3 DEF Typed, BackupPcs, LoadPcs, Left
  <2>8. NotYet' /\ Still' /\ Made'
    BY <2>3 DEF NotYet, Still, Made, LoadPcs
  <2>9. BothThere'
    BY <2>1, <2>3, <2>5, <2>6 DEF BothThere, Left
  <2>10. Remembered' /\ Additive' /\ Resumed' /\ Caught' /\ Sound'
    BY <1>1, <1>2, <2>3
       DEF Remembered, Additive, Resumed, Caught, CatchesUp, Sound, OfCommand, BackupPcs
  <2>11. QED
    BY <2>2, <2>7, <2>8, <2>9, <2>10 DEF IInv, OfCommand
<1>7. CASE cmd.kind = "update" /\ Continue
           /\ cmd' = [cmd EXCEPT !.pc = IF ok THEN "post" ELSE "abort", !.file = cmd.file]
  <2>1. Left
    BY <1>1, <1>7, LeftAlone
  <2>2. World'
    BY <1>1, <1>2, <1>4, <2>1, FewerArchives
  <2>3. PICK p \in {"post", "abort"} : p = IF ok THEN "post" ELSE "abort"
    OBVIOUS
  <2>4. /\ cmd' \in Cmd /\ cmd'.pc = p /\ SameOrder /\ cmd'.wasUp = cmd.wasUp
        /\ cmd'.file = cmd.file
    <3>1. cmd.file \in 0..MaxCommands /\ p \in Pcs
      BY <1>1 DEF Cmd, Pcs
    <3>2. QED
      BY <1>1, <1>7, <2>3, <3>1, NotesFile
  <2>5. CASE p = "abort"
    BY <1>1, <1>2, <1>7, <2>1, <2>2, <2>4, <2>5, Aborts
  <2>6. CASE p = "post"
    <3>1. cmd.file # None /\ ~Running
      BY <1>1, <1>3, <1>7, <2>3, <2>6 DEF OfCommand, Still
    <3>2. PICK a \in archives :
              a.id = cmd.file /\ a.db.balance = db.balance /\ a.id = ran /\ WayBack(a)
      BY <1>1, <1>7, <3>1 DEF OfCommand, Made
    <3>3. a \in archives'
      BY <1>1, <1>4, <3>1, <3>2, Keeps
    <3>4. Typed'
      BY <1>1, <1>2, <1>7, <2>1, <2>4, <2>6
         DEF SameOrder, OfCommand, Typed, BackupPcs, LoadPcs, MovedPcs, Left
    <3>5. NotYet' /\ BothThere' /\ Resumed'
      BY <1>7, <2>4, <2>6 DEF SameOrder, NotYet, BothThere, Resumed
    <3>6. Still'
      BY <1>2, <1>7, <2>4, <2>6, <3>1 DEF SameOrder, Still, BackupPcs, LoadPcs, EarlyPcs, Running
    <3>7. Made'
      <4>1. /\ a \in archives' /\ a.id = cmd'.file /\ a.db.balance = db'.balance
            /\ a.db.pre >= cmd'.target /\ a.db.post <= db'.post
        BY <1>2, <2>4, <3>2, <3>3 DEF SameOrder, WayBack
      <4>2. QED
        BY <2>4, <2>6, <4>1 DEF Made, WayBack
    <3>8. Remembered' /\ Caught' /\ Sound'
      BY <1>1, <1>2, <1>7, <2>4, <2>6
         DEF SameOrder, OfCommand, Remembered, Caught, CatchesUp, Sound, BackupPcs
    <3>9. Additive'
      BY <1>1, <1>2, <1>7, <2>4, <2>6 DEF SameOrder, OfCommand, Additive
    <3>10. QED
      BY <2>2, <3>4, <3>5, <3>6, <3>7, <3>8, <3>9 DEF IInv, OfCommand
  <2>7. QED
    BY <2>5, <2>6
<1>8. QED
  BY <1>1, <1>3, <1>5, <1>6, <1>7 DEF BackupReturns, Stop, End, EndOn

-----------------------------------------------------------------------------
(* restore, and the recovery of an update that loads its archive.          *)
LEMMA RestoreStopStep == ASSUME IInv, RestoreStop PROVE IInv'
<1>1. World /\ OfCommand /\ cmd \in Cmd /\ cmd.kind = "restore" /\ cmd.pc = "stop" /\ ran >= 1
  BY DEF IInv, OfCommand, Typed, RestoreStop
<1>2. UNCHANGED <<db, archives, tags, checkout, config>>
  BY DEF RestoreStop
<1>3. CASE ComposeStop /\ Goto("load") /\ Continue
  <2>1. World' /\ Left /\ ~Running'
    BY <1>1, <1>2, <1>3, LeftAlone, Compose, WorldKept
  <2>2. cmd' \in Cmd /\ cmd'.pc = "load" /\ SameOrder
    BY <1>1, <1>3, Goes DEF SameOrder, Pcs
  <2>3. Typed' /\ NotYet' /\ Made'
    BY <1>1, <2>1, <2>2 DEF SameOrder, Typed, NotYet, Made, BackupPcs, LoadPcs, Left
  <2>4. Still'
    BY <1>1, <2>1, <2>2 DEF SameOrder, Still
  <2>5. BothThere'
    BY <1>1, <1>2, <2>1, <2>2 DEF SameOrder, OfCommand, BothThere, BackupPcs, Ids, Left
  <2>6. Remembered' /\ Additive' /\ Resumed' /\ Caught' /\ Sound'
    BY <1>1, <1>2, <2>2
       DEF SameOrder, OfCommand, Remembered, Additive, Resumed, Caught, Sound
  <2>7. QED
    BY <2>1, <2>3, <2>4, <2>5, <2>6 DEF IInv, OfCommand
<1>4. CASE (ComposeStart \/ UNCHANGED api) /\ Stop("died")
  <2>1. World' /\ cmd' = Idle
    BY <1>1, <1>2, <1>4, LeftAlone, Compose, WorldKept DEF Stop, End, EndOn
  <2>2. QED
    BY <2>1, EndsIdle
<1>5. QED
  BY <1>3, <1>4 DEF RestoreStop

(* A load that fails leaves the live database, and in an update ends it.   *)
LEMMA LoadFails ==
  ASSUME IInv, LoadFailed, (cmd.kind = "restore" /\ cmd.pc = "load") \/ cmd.kind = "update",
         UNCHANGED <<db, archives, tags, checkout, config>>
  PROVE  IInv'
<1>1. World /\ OfCommand /\ cmd \in Cmd /\ ran >= 1
  BY DEF IInv, OfCommand, Typed
<1>2. World' /\ Left
  BY <1>1, LeftAlone, Compose, WorldKept DEF LoadFailed
<1>3. CASE cmd' = Idle
  BY <1>2, <1>3, EndsIdle
<1>4. CASE cmd.kind = "restore" /\ cmd' = [cmd EXCEPT !.pc = "restart", !.swapped = FALSE]
  <2>1. cmd.pc = "load"
    BY <1>4
  <2>2. cmd' \in Cmd /\ cmd'.pc = "restart" /\ SameOrder
    BY <1>1, <1>4 DEF Cmd, Pcs, SameOrder
  <2>3. Typed' /\ NotYet' /\ Still' /\ Made'
    BY <1>1, <1>2, <1>4, <2>2
       DEF SameOrder, Typed, NotYet, Still, Made, BackupPcs, LoadPcs, Left
  <2>4. BothThere'
    BY <1>1, <1>2, <1>4, <2>1, <2>2 DEF SameOrder, OfCommand, BothThere, BackupPcs, LoadPcs, Ids, Left
  <2>5. Remembered' /\ Additive' /\ Resumed' /\ Caught' /\ Sound'
    BY <1>1, <1>4, <2>1, <2>2
       DEF SameOrder, OfCommand, Remembered, Additive, Resumed, Caught, CatchesUp, Sound
  <2>6. QED
    BY <1>2, <2>3, <2>4, <2>5 DEF IInv, OfCommand
<1>5. QED
  BY <1>3, <1>4 DEF LoadFailed, Stop, End, EndOn

(* A restore or a recovery that goes on to drop and rename.                *)
LEMMA Swaps ==
  ASSUME IInv, World', Left, cmd.pc \in LoadPcs, Source \in Ids,
         NEW p \in {"swap", "rename"}, Goto(p),
         p = "swap" => cmd.pc = "load" /\ UNCHANGED db,
         p = "rename" /\ cmd.kind = "update" =>
           \E a \in archives : a.id = cmd.file /\ a.db.post = db'.post,
         UNCHANGED <<archives, api, tags, config>>
  PROVE  IInv'
<1>1. OfCommand /\ cmd \in Cmd /\ cmd.kind \in {"restore", "update"} /\ ran >= 1
  BY DEF IInv, OfCommand, Typed
<1>2. cmd' \in Cmd /\ cmd'.pc = p /\ SameOrder /\ cmd'.file = cmd.file
  <2>1. p \in Pcs
    BY DEF Pcs
  <2>2. QED
    BY <1>1, <2>1, Goes DEF SameOrder
<1>3. Typed' /\ NotYet'
  BY <1>1, <1>2
     DEF SameOrder, OfCommand, Typed, NotYet, BackupPcs, LoadPcs, MovedPcs, Left
<1>4. Still'
  BY <1>1, <1>2 DEF SameOrder, OfCommand, Still, BackupPcs, LoadPcs, EarlyPcs, Running
<1>5. Made'
  <2>1. Source' \in Ids' /\ p \notin BackupPcs /\ p \notin {"post", "retry", "swapup"}
    BY <1>2 DEF SameOrder, Source, Ids, BackupPcs
  <2>2. CASE p = "swap" /\ cmd.kind = "update"
    <3>1. PICK a \in archives : a.id = cmd.file /\ WayBack(a)
      BY <1>1, <2>2 DEF OfCommand, Made, HeldPcs
    <3>2. a \in archives' /\ a.id = cmd'.file /\ WayBack(a)'
      BY <1>2, <2>2, <3>1 DEF SameOrder, WayBack
    <3>3. QED
      BY <1>2, <2>1, <3>2 DEF Made, BackupPcs
  <2>3. CASE ~(p = "swap" /\ cmd.kind = "update")
    BY <1>2, <2>1, <2>3 DEF SameOrder, Made, BackupPcs, HeldPcs
  <2>4. QED
    BY <2>2, <2>3
<1>6. BothThere'
  BY <1>1, <1>2 DEF SameOrder, OfCommand, BothThere, BackupPcs, LoadPcs, Ids, Left
<1>7. Remembered' /\ Additive' /\ Resumed'
  BY <1>1, <1>2 DEF SameOrder, OfCommand, Remembered, Additive, Resumed, BackupPcs, LoadPcs
<1>8. Caught' /\ Sound'
  BY <1>1, <1>2 DEF SameOrder, OfCommand, Caught, CatchesUp, Sound, LoadPcs
<1>9. QED
  BY <1>3, <1>4, <1>5, <1>6, <1>7, <1>8 DEF IInv, OfCommand

LEMMA LoadTempStep == ASSUME IInv, LoadTemp PROVE IInv'
<1>1. World /\ OfCommand /\ cmd.pc = "load" /\ cmd.kind \in {"restore", "update"}
  BY DEF IInv, OfCommand, Typed, LoadTemp, LoadPcs
<1>2. UNCHANGED <<db, archives, tags, checkout, config>>
  BY DEF LoadTemp
<1>3. CASE LoadFailed
  BY <1>1, <1>2, <1>3, LoadFails
<1>4. CASE Source \in Ids /\ UNCHANGED api /\ Goto("swap") /\ Continue
  <2>1. World' /\ Left
    BY <1>1, <1>2, <1>4, LeftAlone, Compose, WorldKept
  <2>2. QED
    BY <1>1, <1>2, <1>4, <2>1, Swaps DEF LoadPcs
<1>5. QED
  BY <1>3, <1>4 DEF LoadTemp

(* Where nothing serves, or what serves is no newer, the database of an    *)
(* archive can take the live one's place.                                  *)
LEMMA Replaced ==
  ASSUME World, Left, NEW a \in archives, Serving => a.db.pre >= api.image,
         NEW whole \in BOOLEAN, db' = [a.db EXCEPT !.whole = whole],
         UNCHANGED <<archives, api, tags, checkout, config>>
  PROVE  World' /\ db'.post = a.db.post
<1>1. a.db \in Database
  BY DEF World
<1>2. db' \in Database /\ db'.pre = a.db.pre /\ db'.post = a.db.post
  BY <1>1 DEF Database
<1>3. Serving' = Serving /\ api' = api
  BY DEF Serving
<1>4. QED
  BY <1>2, <1>3 DEF World, Left

LEMMA SwapStartStep == ASSUME IInv, SwapStart PROVE IInv'
<1>1. World /\ OfCommand /\ cmd.pc = "swap" /\ cmd.kind \in {"restore", "update"}
      /\ Source \in Ids
  BY DEF IInv, OfCommand, Typed, Made, SwapStart, LoadPcs
<1>2. /\ db' = [Archive(Source).db EXCEPT !.whole = FALSE] /\ Goto("rename") /\ Continue
      /\ UNCHANGED <<archives, api, tags, checkout, config>>
  BY DEF SwapStart
<1>3. PICK a \in archives : a = Archive(Source) /\ a.id = Source
  BY <1>1, AnArchive
<1>4. Left
  BY <1>1, <1>2, LeftAlone
<1>5. Serving => a.db.pre >= api.image
  <2>1. CASE cmd.kind = "restore"
    BY <1>1, <2>1 DEF OfCommand, Still, LoadPcs, Running, Serving
  <2>2. CASE cmd.kind = "update"
    <3>1. PICK b \in archives : b.id = cmd.file /\ b.db.pre >= cmd.target
      BY <1>1, <2>2 DEF OfCommand, Made, HeldPcs, WayBack
    <3>2. b = a
      BY <1>1, <1>3, <2>2, <3>1 DEF Source, World
    <3>3. Serving => api.image = cmd.target
      BY <1>1, <2>2 DEF OfCommand, Still, LoadPcs, Running, Serving
    <3>4. QED
      BY <3>1, <3>2, <3>3
  <2>3. QED
    BY <1>1, <2>1, <2>2
<1>6. World' /\ db'.post = a.db.post
  BY <1>1, <1>2, <1>3, <1>4, <1>5, Replaced
<1>7. cmd.kind = "update" => a.id = cmd.file
  BY <1>3 DEF Source
<1>8. QED
  BY <1>1, <1>2, <1>4, <1>6, <1>7, Swaps DEF LoadPcs

LEMMA SwapEndStep == ASSUME IInv, SwapEnd PROVE IInv'
<1>1. World /\ OfCommand /\ cmd \in Cmd /\ cmd.pc = "rename"
      /\ cmd.kind \in {"restore", "update"} /\ ran >= 1
  BY DEF IInv, OfCommand, Typed, SwapEnd, LoadPcs
<1>2. UNCHANGED <<archives, api, tags, checkout, config>> /\ Left
  BY <1>1, LeftAlone DEF SwapEnd, SwapFailed
<1>3. CASE UNCHANGED db /\ Stop("partial")
  BY <1>1, <1>2, <1>3, Compose, WorldKept, EndsIdle DEF Stop, End, EndOn
<1>4. CASE /\ db' = [db EXCEPT !.whole = TRUE]
           /\ cmd' = [cmd EXCEPT !.pc = IF cmd.kind = "restore" THEN "restart" ELSE "rollback",
                                 !.swapped = TRUE]
  <2>1. /\ db' \in Database /\ db'.pre = db.pre /\ db'.post = db.post /\ db'.whole
    BY <1>1, <1>4 DEF World, Database
  <2>2. World'
    BY <1>1, <1>2, <2>1 DEF World, Left, Serving
  <2>3. PICK p \in {"restart", "rollback"} :
            p = IF cmd.kind = "restore" THEN "restart" ELSE "rollback"
    OBVIOUS
  <2>4. cmd' \in Cmd /\ cmd'.pc = p /\ SameOrder /\ cmd'.file = cmd.file
    <3>1. p \in Pcs
      BY DEF Pcs
    <3>2. QED
      BY <1>1, <1>4, <2>3, <3>1 DEF Cmd, SameOrder
  <2>5. Typed' /\ NotYet'
    BY <1>1, <1>2, <2>3, <2>4
       DEF SameOrder, OfCommand, Typed, NotYet, BackupPcs, LoadPcs, MovedPcs, EarlyPcs, Left
  <2>6. Still' /\ Made'
    BY <1>1, <1>2, <2>4
       DEF SameOrder, OfCommand, Still, Made, BackupPcs, LoadPcs, EarlyPcs, HeldPcs, Running
  <2>7. BothThere'
    BY <1>1, <1>2, <2>4 DEF SameOrder, OfCommand, BothThere, BackupPcs, LoadPcs, Ids, Left
  <2>8. Remembered'
    BY <1>1, <1>2, <2>1, <2>4 DEF SameOrder, OfCommand, Remembered
  <2>9. Additive' /\ Resumed' /\ Caught' /\ Sound'
    BY <1>1, <2>1, <2>4 DEF SameOrder, Additive, Resumed, BackupPcs, Caught, CatchesUp, Sound
  <2>10. QED
    BY <2>2, <2>5, <2>6, <2>7, <2>8, <2>9 DEF IInv, OfCommand
<1>5. QED
  BY <1>3, <1>4 DEF SwapEnd, SwapFailed

LEMMA RestoreEndsStep == ASSUME IInv, RestoreRestart \/ RestoreHealth PROVE IInv'
<1>1. World /\ cmd \in Cmd /\ cmd.kind = "restore" /\ ran >= 1 /\ (cmd.sound => db.whole)
  BY DEF IInv, OfCommand, Typed, Sound, RestoreRestart, RestoreHealth
<1>2. World' /\ Left /\ UNCHANGED db
  BY <1>1, LeftAlone, Compose, WorldKept DEF RestoreRestart, RestoreHealth
<1>3. CASE cmd' = Idle
  BY <1>2, <1>3, EndsIdle
<1>4. ASSUME NEW p \in {"rhealth", "post"}, Goto(p), p = "post" => Serving' PROVE IInv'
  <2>1. cmd' \in Cmd /\ cmd'.pc = p /\ cmd'.kind = "restore" /\ cmd'.sound = cmd.sound
    <3>1. p \in Pcs
      BY DEF Pcs
    <3>2. QED
      BY <1>1, <1>4, <3>1, Goes
  <2>2. Typed' /\ NotYet' /\ Still' /\ Made'
    BY <1>2, <1>1, <2>1 DEF Typed, NotYet, Still, Made, BackupPcs, LoadPcs, Left
  <2>3. BothThere' /\ Remembered' /\ Additive' /\ Resumed' /\ Caught' /\ Sound'
    BY <1>1, <1>2, <1>4, <2>1
       DEF BothThere, Remembered, Additive, Resumed, BackupPcs, LoadPcs, Caught, CatchesUp, Sound
  <2>4. QED
    BY <1>2, <2>2, <2>3 DEF IInv, OfCommand
<1>5. CASE RestoreRestart
  BY <1>3, <1>4, <1>5 DEF RestoreRestart, Stop, End, EndOn
<1>6. CASE RestoreHealth
  <2>1. WaitForHealth(TRUE) => Serving'
    BY <1>6 DEF RestoreHealth, WaitForHealth, Serving
  <2>2. QED
    BY <1>3, <1>4, <1>6, <2>1 DEF RestoreHealth, Stop, End, EndOn
<1>7. QED
  BY <1>5, <1>6

-----------------------------------------------------------------------------
(* update, up to its cutover.                                              *)
LEMMA UpdateFacts ==
  ASSUME IInv, cmd.kind = "update"
  PROVE  /\ World /\ OfCommand /\ cmd \in Cmd /\ ran \in 1..MaxCommands
         /\ cmd.target \in 0..Latest /\ (cmd.pc # "gate" => cmd.target \in Releases)
         /\ Deployed \in 0..Latest
<1>1. World /\ OfCommand /\ Typed /\ ran >= 1 /\ ran \in 0..MaxCommands
  BY DEF IInv, OfCommand, Typed, World
<1>2. cmd \in Cmd /\ cmd.target \in 0..Latest /\ (cmd.pc # "gate" => cmd.target # None)
  BY <1>1 DEF Typed
<1>3. ran \in 1..MaxCommands /\ (cmd.pc # "gate" => cmd.target \in Releases)
  BY <1>1, <1>2, Bounds DEF Releases, None
<1>4. Deployed \in 0..Latest
  BY <1>1 DEF World, Deployed
<1>5. QED
  BY <1>1, <1>2, <1>3, <1>4

(* An update before its cutover keeps to little more than its own order.   *)
LEMMA EarlyKept ==
  ASSUME OfCommand, World', cmd.kind = "update", cmd.pc \in EarlyPcs,
         ran' = ran, ran >= 1, archives' = archives,
         cmd' \in Cmd, cmd'.kind = "update", cmd'.pc \in EarlyPcs, cmd'.wasUp = cmd.wasUp,
         cmd'.target \in 0..Latest, cmd'.pc # "gate" => cmd'.target # None,
         cmd'.pc = "cutover" => tags'.current = cmd'.target,
         cmd'.pc \in {"promote", "cutover"} => db'.pre >= cmd'.target,
         cmd'.sound = cmd.sound, db'.whole = db.whole, Remembered'
  PROVE  IInv'
<1>1. Typed'
  BY DEF Typed, EarlyPcs, BackupPcs, LoadPcs, MovedPcs
<1>2. NotYet'
  BY DEF OfCommand, NotYet, EarlyPcs, Ids
<1>3. Still' /\ Made' /\ BothThere' /\ Resumed'
  <2>1. Still'
    BY DEF OfCommand, Still, EarlyPcs, BackupPcs, LoadPcs
  <2>2. QED
    BY <2>1 DEF Made, BothThere, Resumed, EarlyPcs, BackupPcs, LoadPcs, HeldPcs
<1>4. Additive' /\ Caught' /\ Sound'
  BY DEF OfCommand, Additive, EarlyPcs, BackupPcs, Caught, CatchesUp, Sound
<1>5. QED
  BY <1>1, <1>2, <1>3, <1>4 DEF IInv, OfCommand

LEMMA CheckoutMoves ==
  ASSUME World, Left, checkout' \in Releases,
         UNCHANGED <<db, archives, api, tags, config>>
  PROVE  World'
  BY DEF World, Left, Serving

LEMMA UpdateGateStep == ASSUME IInv, UpdateGate PROVE IInv'
<1>1. World /\ OfCommand /\ cmd \in Cmd /\ cmd.kind = "update" /\ cmd.pc = "gate" /\ ran >= 1
      /\ cmd.target \in 0..Latest /\ Deployed \in 0..Latest /\ checkout \in Releases
  BY UpdateFacts DEF UpdateGate, World
<1>2. UNCHANGED <<db, archives, api, tags, config>> /\ Left
  BY <1>1, LeftAlone DEF UpdateGate
<1>3. PICK t : t = IF cmd.target = None THEN Latest ELSE cmd.target
  OBVIOUS
<1>4. t \in 1..Latest /\ t \in Nat
  BY <1>1, <1>3, Bounds DEF None
<1>5. checkout' \in Releases
  BY <1>1, Bounds DEF UpdateGate, Releases, None
<1>6. World'
  BY <1>1, <1>2, <1>5, CheckoutMoves
<1>7. CASE cmd' = Idle
  BY <1>6, <1>7, EndsIdle
<1>8. CASE cmd' = [cmd EXCEPT !.pc = "checkout", !.target = t]
  <2>1. /\ cmd' \in Cmd /\ cmd'.kind = "update" /\ cmd'.pc = "checkout" /\ cmd'.target = t
        /\ cmd'.wasUp = cmd.wasUp /\ cmd'.sound = cmd.sound
    BY <1>1, <1>4, <1>8 DEF Cmd, Pcs
  <2>2. Remembered'
    BY <2>1 DEF Remembered
  <2>3. cmd'.target \in 0..Latest /\ cmd'.target # None
    BY <1>4, <2>1, Bounds DEF None
  <2>4. QED
    BY <1>1, <1>2, <1>6, <2>1, <2>2, <2>3, EarlyKept DEF EarlyPcs, Left
<1>9. QED
  BY <1>3, <1>7, <1>8 DEF UpdateGate, Stop, End, EndOn

LEMMA UpdateCheckoutStep == ASSUME IInv, UpdateCheckout PROVE IInv'
<1>1. World /\ OfCommand /\ cmd \in Cmd /\ cmd.kind = "update" /\ cmd.pc = "checkout" /\ ran >= 1
      /\ cmd.target \in Releases /\ cmd.target \in 0..Latest /\ cmd.target # None
  BY UpdateFacts, Bounds DEF UpdateCheckout, Releases, None
<1>2. UNCHANGED <<db, archives, api, tags, config>> /\ Left
      /\ checkout' \in Releases
  BY <1>1, LeftAlone DEF UpdateCheckout, World
<1>3. World'
  BY <1>1, <1>2, CheckoutMoves
<1>4. CASE cmd' = Idle
  BY <1>3, <1>4, EndsIdle
<1>5. CASE Goto("build")
  <2>1. /\ cmd' \in Cmd /\ cmd'.kind = "update" /\ cmd'.pc = "build" /\ cmd'.target = cmd.target
        /\ cmd'.wasUp = cmd.wasUp /\ cmd'.sound = cmd.sound
    BY <1>1, <1>5, Goes DEF Pcs
  <2>2. Remembered'
    BY <2>1 DEF Remembered
  <2>3. QED
    BY <1>1, <1>2, <1>3, <2>1, <2>2, EarlyKept DEF EarlyPcs, Left
<1>6. QED
  BY <1>4, <1>5 DEF UpdateCheckout, Stop, End, EndOn

LEMMA TagsMove ==
  ASSUME World, Left, tags' \in [current : 0..Latest, previous : 0..Latest],
         UNCHANGED <<db, archives, api, checkout, config>>
  PROVE  World'
  BY DEF World, Left, Serving

LEMMA UpdateBuildStep == ASSUME IInv, UpdateBuild PROVE IInv'
<1>0. cmd.kind = "update" /\ cmd.pc = "build"
  BY DEF UpdateBuild
<1>1. World /\ OfCommand /\ cmd \in Cmd /\ cmd.kind = "update" /\ cmd.pc = "build" /\ ran >= 1
      /\ cmd.target \in Releases /\ cmd.target \in 0..Latest /\ cmd.target # None
      /\ Deployed \in 0..Latest
      /\ config.rendered \in 0..Latest
  <2>1. World /\ OfCommand /\ cmd \in Cmd /\ ran >= 1 /\ cmd.target \in 0..Latest
        /\ cmd.target \in Releases /\ Deployed \in 0..Latest
    BY <1>0, UpdateFacts
  <2>2. cmd.target # None /\ config.rendered \in 0..Latest
    BY <2>1, Bounds DEF Releases, None, World
  <2>3. QED
    BY <1>0, <2>1, <2>2
<1>2. UNCHANGED <<db, archives, api, checkout, config>> /\ Left
  <2>1. UNCHANGED <<db, archives, api, checkout, config>>
    BY DEF UpdateBuild
  <2>2. CASE Stop("died")
    BY <1>1, <2>1, <2>2, LeftAlone
  <2>3. CASE /\ UNCHANGED <<last, ran, cuts>>
             /\ \E more \in SUBSET Causes : astray' = astray \cup more
    BY <1>1, <2>1, <2>3 DEF Left, World
  <2>4. ASSUME NEW slips,
               astray' = astray \cup (IF slips = {} THEN {} ELSE {"untagged"})
        PROVE  \E more \in SUBSET Causes : astray' = astray \cup more
    <3>1. (IF slips = {} THEN {} ELSE {"untagged"}) \in SUBSET Causes
      BY DEF Causes
    <3>2. QED
      BY <2>4, <3>1
  <2>5. QED
    BY <2>2, <2>3, <2>4 DEF UpdateBuild
<1>3. CASE UNCHANGED tags /\ Stop("died")
  BY <1>1, <1>2, <1>3, Compose, WorldKept, EndsIdle DEF Stop, End, EndOn
<1>4. ASSUME NEW previous \in ({Deployed, tags.current} \ {None}) \cup {tags.previous},
             NEW slips \in SUBSET Slips, previous = Deployed \/ "previous" \in slips,
             tags' = [tags EXCEPT !.previous = previous],
             cmd' = [cmd EXCEPT !.pc = "config", !.from = Deployed, !.cfg = config.rendered,
                                !.slips = slips]
      PROVE  IInv'
  <2>1. tags' \in [current : 0..Latest, previous : 0..Latest] /\ tags'.previous = previous
    BY <1>1, <1>4 DEF World
  <2>2. World'
    BY <1>1, <1>2, <2>1, TagsMove
  <2>3. /\ cmd' \in Cmd /\ cmd'.kind = "update" /\ cmd'.pc = "config" /\ cmd'.target = cmd.target
        /\ cmd'.wasUp = cmd.wasUp /\ cmd'.sound = cmd.sound
        /\ cmd'.from = Deployed /\ cmd'.cfg = config.rendered /\ cmd'.slips = slips
    BY <1>1, <1>4 DEF Cmd, Pcs
  <2>4. Remembered'
    BY <1>2, <1>4, <2>1, <2>3 DEF Remembered
  <2>5. QED
    BY <1>1, <1>2, <2>2, <2>3, <2>4, EarlyKept DEF EarlyPcs, Left
<1>5. CASE \E previous \in ({Deployed, tags.current} \ {None}) \cup {tags.previous} :
             LET slips == IF previous = Deployed THEN {} ELSE {"previous"}
             IN /\ tags' = [tags EXCEPT !.previous = previous]
                /\ cmd' = [cmd EXCEPT !.pc = "config", !.from = Deployed, !.cfg = config.rendered,
                                      !.slips = slips]
  <2>1. PICK previous \in ({Deployed, tags.current} \ {None}) \cup {tags.previous} :
            /\ tags' = [tags EXCEPT !.previous = previous]
            /\ cmd' = [cmd EXCEPT !.pc = "config", !.from = Deployed, !.cfg = config.rendered,
                             !.slips = IF previous = Deployed THEN {} ELSE {"previous"}]
    BY <1>5
  <2>2. CASE previous = Deployed
    <3>1. {} \in SUBSET Slips
      OBVIOUS
    <3>2. cmd' = [cmd EXCEPT !.pc = "config", !.from = Deployed, !.cfg = config.rendered,
                             !.slips = {}]
      BY <2>1, <2>2
    <3>3. QED
      BY <1>4, <2>1, <2>2, <3>1, <3>2
  <2>3. CASE previous # Deployed
    <3>1. {"previous"} \in SUBSET Slips /\ "previous" \in {"previous"}
      BY DEF Slips
    <3>2. cmd' = [cmd EXCEPT !.pc = "config", !.from = Deployed, !.cfg = config.rendered,
                             !.slips = {"previous"}]
      BY <2>1, <2>3
    <3>3. QED
      BY <1>4, <2>1, <2>3, <3>1, <3>2
  <2>4. QED
    BY <2>2, <2>3
<1>6. QED
  BY <1>3, <1>5 DEF UpdateBuild

LEMMA UpdateConfigStep == ASSUME IInv, UpdateConfig PROVE IInv'
<1>1. World /\ OfCommand /\ cmd \in Cmd /\ cmd.kind = "update" /\ cmd.pc = "config" /\ ran >= 1
      /\ cmd.target \in Releases /\ cmd.target \in 0..Latest /\ cmd.target # None
  BY UpdateFacts, Bounds DEF UpdateConfig, Releases, None
<1>2. UNCHANGED <<db, archives, api, tags, checkout>> /\ Left
  BY <1>1, LeftAlone DEF UpdateConfig, RenderConfig
<1>3. World' /\ UNCHANGED db
  BY <1>1, <1>2, Renders DEF UpdateConfig, RenderConfig
<1>4. CASE cmd' = Idle
  BY <1>3, <1>4, EndsIdle
<1>5. CASE Goto("pre") /\ config' = [rendered |-> cmd.target, snapshot |-> config.rendered]
  <2>1. /\ cmd' \in Cmd /\ cmd'.kind = "update" /\ cmd'.pc = "pre" /\ cmd'.target = cmd.target
        /\ cmd'.wasUp = cmd.wasUp /\ cmd'.sound = cmd.sound
        /\ cmd'.from = cmd.from /\ cmd'.cfg = cmd.cfg /\ cmd'.slips = cmd.slips
    BY <1>1, <1>5, Goes DEF Pcs
  <2>2. (tags.previous = cmd.from \/ "previous" \in cmd.slips) /\ config.rendered = cmd.cfg
    BY <1>1 DEF OfCommand, Remembered
  <2>3. Remembered'
    BY <1>2, <1>5, <2>1, <2>2 DEF Remembered
  <2>4. QED
    BY <1>1, <1>2, <1>3, <2>1, <2>3, EarlyKept DEF EarlyPcs, Left
<1>6. QED
  BY <1>1, <1>4, <1>5 DEF UpdateConfig, RenderConfig, Stop, End, EndOn

LEMMA UpdatePreStep == ASSUME IInv, UpdatePre PROVE IInv'
<1>1. World /\ OfCommand /\ cmd \in Cmd /\ cmd.kind = "update" /\ cmd.pc = "pre" /\ ran >= 1
      /\ cmd.target \in 0..Latest /\ cmd.target # None
  BY UpdateFacts, Bounds DEF UpdatePre, Releases, None
<1>2. UNCHANGED <<archives, api, tags, checkout, config>> /\ Left
  BY <1>1, LeftAlone DEF UpdatePre
<1>3. PICK ok \in BOOLEAN : /\ Migrate("pre", cmd.target, ok)
                            /\ IF ok THEN Goto("promote") /\ Continue ELSE Stop("died")
  BY DEF UpdatePre
<1>4. World' /\ (ok => db'.pre >= cmd.target) /\ db'.whole = db.whole
  BY <1>1, <1>2, <1>3, MigratedWorld, Migrates
<1>5. CASE cmd' = Idle
  BY <1>4, <1>5, EndsIdle
<1>6. CASE ok /\ Goto("promote")
  <2>1. /\ cmd' \in Cmd /\ cmd'.kind = "update" /\ cmd'.pc = "promote" /\ cmd'.target = cmd.target
        /\ cmd'.wasUp = cmd.wasUp /\ cmd'.sound = cmd.sound
        /\ cmd'.from = cmd.from /\ cmd'.cfg = cmd.cfg /\ cmd'.slips = cmd.slips
    BY <1>1, <1>6, Goes DEF Pcs
  <2>2. Remembered'
    BY <1>1, <1>2, <2>1 DEF OfCommand, Remembered
  <2>3. QED
    BY <1>1, <1>2, <1>4, <1>6, <2>1, <2>2, EarlyKept DEF EarlyPcs, Left
<1>7. QED
  BY <1>3, <1>5, <1>6 DEF Stop, End, EndOn

LEMMA UpdatePromoteStep == ASSUME IInv, UpdatePromote PROVE IInv'
<1>1. World /\ OfCommand /\ cmd \in Cmd /\ cmd.kind = "update" /\ cmd.pc = "promote" /\ ran >= 1
      /\ cmd.target \in 0..Latest /\ cmd.target # None
  BY UpdateFacts, Bounds DEF UpdatePromote, Releases, None
<1>2. UNCHANGED <<db, archives, api, checkout, config>> /\ Left
  BY <1>1, LeftAlone DEF UpdatePromote
<1>3. CASE UNCHANGED tags /\ Stop("died")
  BY <1>1, <1>2, <1>3, Compose, WorldKept, EndsIdle DEF Stop, End, EndOn
<1>4. CASE tags' = [tags EXCEPT !.current = cmd.target] /\ Goto("cutover")
  <2>1. /\ tags' \in [current : 0..Latest, previous : 0..Latest]
        /\ tags'.current = cmd.target /\ tags'.previous = tags.previous
    BY <1>1, <1>4 DEF World
  <2>2. World'
    BY <1>1, <1>2, <2>1, TagsMove
  <2>3. /\ cmd' \in Cmd /\ cmd'.kind = "update" /\ cmd'.pc = "cutover" /\ cmd'.target = cmd.target
        /\ cmd'.wasUp = cmd.wasUp /\ cmd'.sound = cmd.sound
        /\ cmd'.from = cmd.from /\ cmd'.cfg = cmd.cfg /\ cmd'.slips = cmd.slips
    BY <1>1, <1>4, Goes DEF Pcs
  <2>4. Remembered'
    BY <1>1, <1>2, <2>1, <2>3 DEF OfCommand, Remembered
  <2>5. db'.pre >= cmd'.target
    BY <1>1, <1>2, <2>3 DEF OfCommand, Additive
  <2>6. QED
    BY <1>1, <1>2, <2>1, <2>2, <2>3, <2>4, <2>5, EarlyKept DEF EarlyPcs, Left
<1>5. QED
  BY <1>3, <1>4 DEF UpdatePromote

-----------------------------------------------------------------------------
(* update, from its cutover on.                                            *)
LEMMA UpdateStopStep == ASSUME IInv, UpdateStop PROVE IInv'
<1>0. cmd.kind = "update" /\ cmd.pc = "cutover"
  BY DEF UpdateStop
<1>1. World /\ OfCommand /\ cmd \in Cmd /\ ran >= 1 /\ cmd.target \in 0..Latest
      /\ cmd.target # None /\ tags.current = cmd.target
  BY <1>0, UpdateFacts, Bounds DEF Releases, None, OfCommand, Typed, MovedPcs
<1>2. UNCHANGED <<db, archives, tags, checkout, config>> /\ (Cutover \/ UNCHANGED api)
  BY DEF UpdateStop
<1>3. World' /\ Left
  BY <1>1, <1>2, LeftAlone, Compose, WorldKept DEF UpdateStop, Cutover
<1>4. CASE cmd' = Idle
  BY <1>3, <1>4, EndsIdle
<1>5. CASE Cutover /\ Goto("quiesce")
  <2>1. /\ cmd' \in Cmd /\ cmd'.pc = "quiesce" /\ SameOrder /\ cmd'.wasUp = cmd.wasUp
        /\ cmd'.file = cmd.file
    BY <1>1, <1>5, Goes DEF SameOrder, Pcs
  <2>2. ~Running'
    BY <1>1, <1>2, <1>5, Compose DEF Cutover
  <2>3. ~cmd.wasUp
    BY <1>0, <1>1 DEF OfCommand, Still, EarlyPcs
  <2>4. Typed'
    BY <1>0, <1>1, <1>2, <1>3, <2>1 DEF SameOrder, Typed, BackupPcs, LoadPcs, Left
  <2>5. NotYet' /\ Made'
    BY <1>0, <1>1, <1>2, <1>3, <2>1
       DEF SameOrder, OfCommand, NotYet, Made, HeldPcs, Ids, Left
  <2>6. Still'
    BY <1>0, <1>1, <2>1, <2>2, <2>3 DEF SameOrder, Still
  <2>7. Remembered' /\ BothThere' /\ Resumed'
    BY <1>0, <1>1, <1>2, <2>1 DEF SameOrder, OfCommand, Remembered, BothThere, Resumed
  <2>8. Additive' /\ Caught' /\ Sound'
    BY <1>0, <1>1, <1>2, <2>1
       DEF SameOrder, OfCommand, Additive, Caught, CatchesUp, Sound
  <2>9. QED
    BY <1>3, <2>4, <2>5, <2>6, <2>7, <2>8 DEF IInv, OfCommand
<1>6. QED
  BY <1>4, <1>5 DEF UpdateStop, Stop, End, EndOn

LEMMA UpdateAbortStep == ASSUME IInv, UpdateAbort PROVE IInv'
<1>1. World
  BY DEF IInv
<1>2. World' /\ cmd' = Idle
  BY <1>1, LeftAlone, Compose, WorldKept DEF UpdateAbort, Stop, End, EndOn
<1>3. QED
  BY <1>2, EndsIdle

(* Once its migrations ended, an update keeps its way back, and what runs  *)
(* beside it is the new container.                                         *)
LEMMA LateKept ==
  ASSUME OfCommand, World', Left, cmd \in Cmd, cmd.kind = "update", ran >= 1,
         cmd.pc \in {"post", "retry", "swapup", "uhealth", "recover"},
         cmd' \in Cmd, SameOrder, cmd'.file = cmd.file,
         cmd'.pc \in {"uhealth", "recover", "load"},
         Running' => api'.image = cmd.target, UNCHANGED <<tags, config, archives>>,
         db'.whole = db.whole, \A a \in archives : WayBack(a) => a.db.post <= db'.post
  PROVE  IInv'
<1> USE DEF SameOrder
<1>1. Typed'
  BY DEF OfCommand, Typed, BackupPcs, LoadPcs, MovedPcs, Left
<1>2. NotYet' /\ BothThere' /\ Additive' /\ Resumed'
  BY DEF NotYet, BothThere, Additive, Resumed, BackupPcs, LoadPcs
<1>3. Still'
  BY DEF Still, BackupPcs, EarlyPcs, LoadPcs
<1>4. Made'
  <2>1. PICK a \in archives : a.id = cmd.file /\ WayBack(a)
    BY DEF OfCommand, Made, HeldPcs
  <2>2. a.db.pre >= cmd'.target /\ a.db.post <= db'.post
    BY <2>1 DEF WayBack
  <2>3. QED
    BY <2>1, <2>2 DEF Made, WayBack, HeldPcs
<1>5. Remembered'
  BY DEF OfCommand, Remembered
<1>6. Caught' /\ Sound'
  BY DEF OfCommand, Caught, CatchesUp, Sound
<1>7. QED
  BY <1>1, <1>2, <1>3, <1>4, <1>5, <1>6 DEF IInv, OfCommand

LEMMA UpdatePostStep == ASSUME IInv, UpdatePost PROVE IInv'
<1>0. cmd.kind = "update" /\ cmd.pc \in {"post", "retry"}
  BY DEF UpdatePost
<1>1. World /\ OfCommand /\ cmd \in Cmd /\ ran >= 1 /\ cmd.target \in 0..Latest /\ ~Running
      /\ tags.current = cmd.target
  BY <1>0, UpdateFacts DEF OfCommand, Still, Typed, MovedPcs
<1>2. UNCHANGED <<archives, api, tags, checkout, config>> /\ Left
  BY <1>1, LeftAlone DEF UpdatePost
<1>3. PICK ok \in BOOLEAN : Migrate("post", cmd.target, ok)
  BY DEF UpdatePost
<1>4. /\ World' /\ db'.balance = db.balance /\ db'.pre = db.pre /\ db'.whole = db.whole
      /\ db'.post >= db.post
  BY <1>1, <1>2, <1>3, MigratedWorld, Migrates
<1>5. PICK p \in {"swapup", "retry", "recover"} : Goto(p)
  BY DEF UpdatePost
<1>6. /\ cmd' \in Cmd /\ cmd'.pc = p /\ SameOrder /\ cmd'.file = cmd.file
  <2>1. p \in Pcs
    BY DEF Pcs
  <2>2. QED
    BY <1>1, <1>5, <2>1, Goes DEF SameOrder
<1>7. ASSUME NEW a \in archives, WayBack(a) PROVE a.db.post <= db'.post
  <2>1. a.db.post \in Nat /\ db.post \in Nat /\ db'.post \in Nat
    <3>1. a.db \in Database /\ db \in Database /\ db' \in Database
      BY <1>1, <1>4 DEF World
    <3>2. QED
      BY <3>1 DEF Database
  <2>2. QED
    BY <1>4, <1>7, <2>1 DEF WayBack
<1>8. ~Running'
  BY <1>1, <1>2 DEF Running
<1>9. CASE p = "recover"
  BY <1>0, <1>1, <1>2, <1>4, <1>6, <1>7, <1>8, <1>9, LateKept
<1>10. CASE p \in {"swapup", "retry"}
  <2>1. Typed'
    BY <1>0, <1>1, <1>2, <1>6, <1>10
       DEF SameOrder, OfCommand, Typed, BackupPcs, LoadPcs, MovedPcs, Left
  <2>2. NotYet' /\ BothThere' /\ Resumed'
    BY <1>0, <1>1, <1>6, <1>10
       DEF SameOrder, NotYet, BothThere, Resumed, BackupPcs, LoadPcs
  <2>3. Still'
    BY <1>0, <1>1, <1>6, <1>8, <1>10 DEF SameOrder, Still, BackupPcs, EarlyPcs, LoadPcs
  <2>4. Made'
    <3>1. PICK a \in archives : a.id = cmd.file /\ WayBack(a) /\ a.db.balance = db.balance
      BY <1>0, <1>1 DEF OfCommand, Made, HeldPcs
    <3>2. a.db.pre >= cmd'.target /\ a.db.post <= db'.post /\ a.id = cmd'.file
          /\ a.db.balance = db'.balance /\ a \in archives'
      BY <1>2, <1>4, <1>6, <1>7, <3>1 DEF WayBack, SameOrder
    <3>3. QED
      BY <1>6, <1>10, <3>2 DEF Made, WayBack
  <2>5. Remembered'
    BY <1>0, <1>1, <1>2, <1>6, <1>10 DEF SameOrder, OfCommand, Remembered
  <2>6. Additive' /\ Caught' /\ Sound'
    BY <1>0, <1>1, <1>4, <1>6, <1>10
       DEF SameOrder, OfCommand, Additive, BackupPcs, Caught, CatchesUp, Sound
  <2>7. QED
    BY <1>4, <2>1, <2>2, <2>3, <2>4, <2>5, <2>6 DEF IInv, OfCommand
<1>11. QED
  BY <1>9, <1>10

LEMMA UpdateSwapUpStep == ASSUME IInv, UpdateSwapUp PROVE IInv'
<1>0. cmd.kind = "update" /\ cmd.pc = "swapup"
  BY DEF UpdateSwapUp
<1>1. World /\ OfCommand /\ cmd \in Cmd /\ ran >= 1 /\ tags.current = cmd.target
      /\ tags.current # None
  BY <1>0, UpdateFacts, Bounds DEF Releases, None, OfCommand, Typed, MovedPcs
<1>2. UNCHANGED <<db, archives, tags, checkout, config>>
  BY DEF UpdateSwapUp
<1>3. CASE DiesOfUp
  BY <1>1, <1>2, <1>3, DiesUp
<1>4. CASE /\ ComposeUp(TRUE) /\ Continue
           /\ cmd' = [cmd EXCEPT !.pc = "uhealth", !.started = TRUE]
  <2>1. cmd' \in Cmd /\ cmd'.pc = "uhealth" /\ SameOrder /\ cmd'.file = cmd.file
    BY <1>1, <1>4 DEF Cmd, Pcs, SameOrder
  <2>2. World' /\ Left
    BY <1>1, <1>2, <1>4, LeftAlone, Compose, WorldKept
  <2>3. api'.image = cmd.target
    BY <1>1, <1>4, UpTakes
  <2>4. \A a \in archives : WayBack(a) => a.db.post <= db'.post
    BY <1>2 DEF WayBack
  <2>5. QED
    BY <1>0, <1>1, <1>2, <2>1, <2>2, <2>3, <2>4, LateKept
<1>5. QED
  BY <1>3, <1>4 DEF UpdateSwapUp

LEMMA UpdateHealthStep == ASSUME IInv, UpdateHealth PROVE IInv'
<1>0. cmd.kind = "update" /\ cmd.pc = "uhealth"
  BY DEF UpdateHealth
<1>1. World /\ OfCommand /\ cmd \in Cmd /\ ran >= 1 /\ (Running => api.image = cmd.target)
  BY <1>0, UpdateFacts DEF OfCommand, Still
<1>2. UNCHANGED <<db, archives, tags, checkout, config>> /\ (ComposeStop \/ UNCHANGED api)
  BY DEF UpdateHealth
<1>3. World' /\ Left
  BY <1>1, <1>2, LeftAlone, Compose, WorldKept DEF UpdateHealth
<1>4. CASE cmd' = Idle
  BY <1>3, <1>4, EndsIdle
<1>5. CASE Goto("recover")
  <2>1. cmd' \in Cmd /\ cmd'.pc = "recover" /\ SameOrder /\ cmd'.file = cmd.file
    BY <1>1, <1>5, Goes DEF Pcs, SameOrder
  <2>2. Running' => api'.image = cmd.target
    BY <1>1, <1>2, Compose
  <2>3. \A a \in archives : WayBack(a) => a.db.post <= db'.post
    BY <1>2 DEF WayBack
  <2>4. QED
    BY <1>0, <1>1, <1>2, <1>3, <2>1, <2>2, <2>3, LateKept
<1>6. QED
  BY <1>4, <1>5 DEF UpdateHealth, Stop, End, EndOn

LEMMA UpdateRecoverStep == ASSUME IInv, UpdateRecover PROVE IInv'
<1>0. cmd.kind = "update" /\ cmd.pc = "recover"
  BY DEF UpdateRecover
<1>1. World /\ OfCommand /\ cmd \in Cmd /\ ran >= 1 /\ (Running => api.image = cmd.target)
  BY <1>0, UpdateFacts DEF OfCommand, Still
<1>2. UNCHANGED <<db, archives, tags, checkout, config>>
  BY DEF UpdateRecover
<1>3. CASE LoadFailed
  BY <1>0, <1>1, <1>2, <1>3, LoadFails
<1>4. CASE (ComposeStop \/ UNCHANGED api) /\ Goto("load") /\ Continue
  <2>1. World' /\ Left /\ (Running' => api'.image = cmd.target)
    BY <1>1, <1>2, <1>4, LeftAlone, Compose, WorldKept
  <2>2. cmd' \in Cmd /\ cmd'.pc = "load" /\ SameOrder /\ cmd'.file = cmd.file
    BY <1>1, <1>4, Goes DEF Pcs, SameOrder
  <2>3. \A a \in archives : WayBack(a) => a.db.post <= db'.post
    BY <1>2 DEF WayBack
  <2>4. QED
    BY <1>0, <1>1, <1>2, <2>1, <2>2, <2>3, LateKept
<1>5. QED
  BY <1>3, <1>4 DEF UpdateRecover

LEMMA Slipped ==
  ASSUME cmd \in Cmd, NEW p \in Pcs, NEW what \in SUBSET Slips, Slip(p, what)
  PROVE  /\ cmd' \in Cmd /\ cmd'.pc = p /\ cmd'.kind = cmd.kind /\ cmd'.target = cmd.target
         /\ cmd'.file = cmd.file /\ cmd'.from = cmd.from /\ cmd'.cfg = cmd.cfg
         /\ cmd'.slips = cmd.slips \cup what /\ cmd'.sound = cmd.sound
  BY DEF Slip, Cmd

(* An update that rolls back has done with its archive.                    *)
LEMMA BackKept ==
  ASSUME OfCommand, World', Left, cmd \in Cmd, cmd.kind = "update", ran >= 1,
         cmd.pc \in {"rollback", "rollbacktag"},
         cmd' \in Cmd, cmd'.kind = cmd.kind, cmd'.target = cmd.target,
         cmd'.sound = cmd.sound, db' = db,
         \/ cmd'.pc = "rollbacktag" /\ tags' = tags /\ (Running' => api'.image = cmd.target)
         \/ cmd'.pc = "rollbackhealth",
         Remembered'
  PROVE  IInv'
<1>1. Typed'
  BY DEF OfCommand, Typed, BackupPcs, LoadPcs, MovedPcs, Left
<1>2. NotYet' /\ Made' /\ BothThere' /\ Additive' /\ Resumed'
  BY DEF NotYet, Made, HeldPcs, BothThere, Additive, Resumed, BackupPcs, LoadPcs
<1>3. Still'
  BY DEF Still, BackupPcs, EarlyPcs, LoadPcs
<1>4. Caught' /\ Sound'
  BY DEF OfCommand, Caught, CatchesUp, Sound
<1>5. QED
  BY <1>1, <1>2, <1>3, <1>4 DEF IInv, OfCommand

LEMMA RollbackConfigStep == ASSUME IInv, RollbackConfig PROVE IInv'
<1>0. cmd.kind = "update" /\ cmd.pc = "rollback"
  BY DEF RollbackConfig
<1>1. World /\ OfCommand /\ cmd \in Cmd /\ ran >= 1 /\ (Running => api.image = cmd.target)
      /\ config \in [rendered : 0..Latest, snapshot : 0..Latest]
  BY <1>0, UpdateFacts DEF OfCommand, Still, World
<1>2. /\ UNCHANGED <<db, archives, tags, checkout>> /\ Left /\ (ComposeStop \/ UNCHANGED api)
  BY <1>1, LeftAlone DEF RollbackConfig
<1>3. PICK left \in {config.snapshot, config.rendered, None}, what \in {{}, {"config"}} :
         /\ config' = [config EXCEPT !.rendered = left]
         /\ left = config.snapshot \/ "config" \in what
         /\ Slip("rollbacktag", what) \/ (what = {} /\ Goto("rollbacktag"))
  BY DEF RollbackConfig
<1>4. /\ config' \in [rendered : 0..Latest, snapshot : 0..Latest]
      /\ config'.rendered = left /\ config'.snapshot = config.snapshot
  BY <1>1, <1>3, Bounds DEF None
<1>5. /\ ApiTyped' /\ (Serving' => api' = api)
      /\ (Running' => Running) /\ api'.image = api.image
  BY <1>1, <1>2, Compose
<1>6. World'
  BY <1>1, <1>2, <1>4, <1>5 DEF World, Left, ApiTyped, Serving
<1>7. /\ cmd' \in Cmd /\ cmd'.pc = "rollbacktag" /\ cmd'.kind = cmd.kind
      /\ cmd'.target = cmd.target /\ cmd'.file = cmd.file /\ cmd'.from = cmd.from
      /\ cmd'.cfg = cmd.cfg /\ cmd'.slips = cmd.slips \cup what /\ cmd'.sound = cmd.sound
  <2>1. "rollbacktag" \in Pcs /\ what \in SUBSET Slips
    BY <1>3 DEF Pcs, Slips
  <2>2. CASE Slip("rollbacktag", what)
    BY <1>1, <2>1, <2>2, Slipped
  <2>3. CASE what = {} /\ Goto("rollbacktag")
    BY <1>1, <2>1, <2>3, Goes
  <2>4. QED
    BY <1>3, <2>2, <2>3
<1>8. Remembered'
  <2>1. /\ tags.previous = cmd.from \/ "previous" \in cmd.slips
        /\ config.snapshot = cmd.cfg
        /\ \E a \in archives : a.id = cmd.file /\ a.db.post = db.post
    BY <1>0, <1>1 DEF OfCommand, Remembered
  <2>2. QED
    BY <1>0, <1>2, <1>3, <1>4, <1>7, <2>1 DEF Remembered
<1>9. QED
  BY <1>0, <1>1, <1>2, <1>5, <1>6, <1>7, <1>8, BackKept

LEMMA RollbackImageStep == ASSUME IInv, RollbackImage PROVE IInv'
<1>0. cmd.kind = "update" /\ cmd.pc = "rollbacktag"
  BY DEF RollbackImage
<1>1. /\ World /\ OfCommand /\ cmd \in Cmd /\ ran >= 1
      /\ tags.current \in 1..Latest /\ tags.previous \in 0..Latest
      /\ tags.previous = cmd.from \/ "previous" \in cmd.slips
  <2>1. World /\ OfCommand /\ cmd \in Cmd /\ ran >= 1 /\ cmd.target \in Releases
    BY <1>0, UpdateFacts
  <2>2. tags.current = cmd.target /\ (tags.previous = cmd.from \/ "previous" \in cmd.slips)
    BY <1>0, <2>1 DEF OfCommand, Typed, MovedPcs, Remembered
  <2>3. QED
    BY <2>1, <2>2 DEF Releases, World
<1>2. UNCHANGED <<db, archives, checkout, config>> /\ Left
  BY <1>1, LeftAlone DEF RollbackImage
<1>3. CASE UNCHANGED <<api, tags>> /\ Stop("rollback_failed")
  BY <1>1, <1>2, <1>3, Compose, WorldKept, EndsIdle DEF Stop, End, EndOn
<1>4. ASSUME tags.previous # None, NEW image \in {tags.previous, tags.current},
             NEW what \in SUBSET Slips,
             image = tags.previous \/ "tag" \in what,
             tags' = [tags EXCEPT !.current = image],
             \/ api' = [image |-> image, status |-> "starting"]
             \/ api' \in UpLeaves(image) /\ "up" \in what,
             Slip("rollbackhealth", what)
      PROVE  IInv'
  <2>0. image \in 1..Latest /\ image \in 0..Latest /\ image # None
    BY <1>1, <1>4, Bounds DEF None
  <2>1. /\ tags' \in [current : 0..Latest, previous : 0..Latest]
        /\ tags'.current = image /\ tags'.previous = tags.previous
    BY <1>1, <1>4, <2>0 DEF World
  <2>2. ApiTyped' /\ (Serving' => api' = api)
    <3>1. CASE api' = [image |-> image, status |-> "starting"]
      BY <2>0, <3>1 DEF ApiTyped, Serving
    <3>2. CASE api' \in UpLeaves(image)
      BY <1>1, <2>0, <3>2, Leaves
    <3>3. QED
      BY <1>4, <3>1, <3>2
  <2>3. World'
    BY <1>1, <1>2, <2>1, <2>2 DEF World, Left, ApiTyped, Serving
  <2>4. /\ cmd' \in Cmd /\ cmd'.pc = "rollbackhealth" /\ cmd'.kind = cmd.kind
        /\ cmd'.target = cmd.target /\ cmd'.file = cmd.file /\ cmd'.from = cmd.from
        /\ cmd'.cfg = cmd.cfg /\ cmd'.slips = cmd.slips \cup what /\ cmd'.sound = cmd.sound
    <3>1. "rollbackhealth" \in Pcs
      BY DEF Pcs
    <3>2. QED
      BY <1>1, <1>4, <3>1, Slipped
  <2>5. Remembered'
    <3>1. /\ config.snapshot = cmd.cfg
          /\ config.rendered = cmd.cfg \/ "config" \in cmd.slips
          /\ \E a \in archives : a.id = cmd.file /\ a.db.post = db.post
      BY <1>0, <1>1 DEF OfCommand, Remembered
    <3>2. tags'.current = cmd'.from \/ cmd'.slips \cap {"previous", "tag"} # {}
      BY <1>1, <1>4, <2>1, <2>4
    <3>3. api'.image = image \/ "up" \in what
      BY <1>4
    <3>4. api'.image = cmd'.from \/ cmd'.slips \cap {"previous", "tag", "up"} # {}
      BY <1>1, <1>4, <2>4, <3>3
    <3>5. QED
      BY <1>0, <1>1, <1>2, <2>1, <2>4, <3>1, <3>2, <3>4 DEF Remembered
  <2>6. QED
    BY <1>0, <1>1, <1>2, <2>3, <2>4, <2>5, BackKept
<1>5. ASSUME tags.previous # None, NEW tagged \in BOOLEAN, NEW up \in BOOLEAN,
             tags' = [tags EXCEPT !.current = IF tagged THEN tags.previous ELSE tags.current],
             IF up THEN api' = [image |-> IF tagged THEN tags.previous ELSE tags.current,
                                status |-> "starting"]
                   ELSE api' \in UpLeaves(IF tagged THEN tags.previous ELSE tags.current),
             Slip("rollbackhealth", (IF tagged THEN {} ELSE {"tag"})
                                    \cup (IF up THEN {} ELSE {"up"}))
      PROVE  IInv'
  <2>1. PICK image : image = IF tagged THEN tags.previous ELSE tags.current
    OBVIOUS
  <2>2. PICK what : what = (IF tagged THEN {} ELSE {"tag"}) \cup (IF up THEN {} ELSE {"up"})
    OBVIOUS
  <2>3. /\ image \in {tags.previous, tags.current} /\ what \in SUBSET Slips
        /\ image = tags.previous \/ "tag" \in what
        /\ up \/ "up" \in what
    BY <2>1, <2>2 DEF Slips
  <2>4. /\ tags' = [tags EXCEPT !.current = image] /\ Slip("rollbackhealth", what)
        /\ IF up THEN api' = [image |-> image, status |-> "starting"]
                 ELSE api' \in UpLeaves(image)
    BY <1>5, <2>1, <2>2
  <2>5. QED
    BY <1>4, <1>5, <2>3, <2>4
<1>6. QED
  BY <1>3, <1>5 DEF RollbackImage, RolledBackTo

LEMMA RollbackHealthStep == ASSUME IInv, RollbackHealth PROVE IInv'
<1>1. World
  BY DEF IInv
<1>2. World' /\ cmd' = Idle
  BY <1>1, LeftAlone, Compose, WorldKept DEF RollbackHealth, Stop, End, EndOn
<1>3. QED
  BY <1>2, EndsIdle

-----------------------------------------------------------------------------
(* Commands that begin, and commands cut off.                              *)
LEMMA IssueStep == ASSUME IInv, NEW kind \in Commands, Issue(kind) PROVE IInv'
<1>1. World /\ kind \in Kinds /\ ran < MaxCommands /\ ran \in Nat /\ ran' = ran + 1
      /\ UNCHANGED <<db, archives, api, tags, checkout, config, cuts, astray>>
  <2>1. World /\ ran \in Nat
    BY Bounds DEF IInv, World
  <2>2. kind \in Kinds
    BY CommandsAssumption
  <2>3. /\ ran < MaxCommands /\ ran' = ran + 1
        /\ UNCHANGED <<db, archives, api, tags, checkout, config, cuts, astray>>
    BY DEF Issue
  <2>4. QED
    BY <2>1, <2>2, <2>3
<1>2. ran' \in 1..MaxCommands /\ ran' >= 1 /\ ran' \in 0..MaxCommands /\ ran' > ran
  BY <1>1, Bounds
<1>3. World'
  <2>1. \A a \in archives' : a.id <= ran'
    BY <1>1, <1>2, Bounds DEF World
  <2>2. QED
    BY <1>1, <1>2, <2>1 DEF World, Serving
<1>4. ran' \notin Ids'
  BY <1>1, <1>2, Bounds DEF World, Ids
<1>5. PICK t \in Targets(kind) :
         cmd' = [Idle EXCEPT !.kind = kind, !.pc = FirstPc(kind), !.target = t,
                             !.sound = db.whole]
  BY DEF Issue
<1>6. /\ t \in Nat /\ (kind = "update" => t \in 0..Latest)
      /\ (kind = "restore" => t \in Ids /\ t # ran')
  <2>1. CASE kind = "update"
    BY <2>1, Bounds DEF Targets, Releases, None
  <2>2. CASE kind = "restore"
    <3>1. t \in Ids
      BY <2>2 DEF Targets, Ids
    <3>2. t \in Nat
      BY <1>1, <3>1, Bounds DEF World, Ids
    <3>3. QED
      BY <1>1, <1>4, <2>2, <3>1, <3>2 DEF Ids
  <2>3. CASE kind \notin {"update", "restore"}
    BY <2>3 DEF Targets, None
  <2>4. QED
    BY <2>1, <2>2, <2>3
<1>7. FirstPc(kind) \in Pcs
  BY <1>1 DEF FirstPc, Pcs, Kinds
<1>8. /\ cmd' \in Cmd /\ cmd'.kind = kind /\ cmd'.pc = FirstPc(kind) /\ cmd'.target = t
      /\ ~cmd'.wasUp /\ (cmd'.sound => db'.whole)
  <2>1. Idle \in Cmd /\ Idle.wasUp = FALSE /\ db.whole \in BOOLEAN
    BY <1>1, IdleTyped DEF Idle, World, Database
  <2>2. QED
    BY <1>1, <1>5, <1>6, <1>7, <2>1 DEF Cmd
<1>9. CASE kind \in {"backup", "restore"}
  <2>1. cmd'.pc = "quiesce"
    BY <1>8, <1>9 DEF FirstPc
  <2>2. Typed' /\ NotYet' /\ Still' /\ Made'
    BY <1>2, <1>4, <1>8, <1>9, <2>1 DEF Typed, NotYet, Still, Made, BackupPcs, LoadPcs
  <2>3. BothThere'
    BY <1>1, <1>6, <1>8, <2>1 DEF BothThere, BackupPcs, Ids
  <2>4. Remembered' /\ Additive' /\ Resumed' /\ Caught' /\ Sound'
    BY <1>8, <1>9, <2>1 DEF Remembered, Additive, Resumed, Caught, CatchesUp, Sound
  <2>5. QED
    BY <1>3, <2>2, <2>3, <2>4 DEF IInv, OfCommand
<1>10. CASE kind = "update"
  <2>1. cmd'.pc = "gate"
    BY <1>8, <1>10 DEF FirstPc
  <2>2. Typed' /\ NotYet' /\ Still' /\ Made'
    BY <1>2, <1>4, <1>6, <1>8, <1>10, <2>1
       DEF Typed, NotYet, Still, Made, BackupPcs, LoadPcs, MovedPcs, HeldPcs
  <2>3. BothThere' /\ Remembered' /\ Additive' /\ Resumed' /\ Caught' /\ Sound'
    BY <1>8, <1>10, <2>1
       DEF BothThere, Remembered, Additive, Resumed, BackupPcs, Caught, CatchesUp, Sound
  <2>4. QED
    BY <1>3, <2>2, <2>3 DEF IInv, OfCommand
<1>11. CASE kind \in SimpleKinds
  <2>1. /\ cmd'.pc \in {"up", "stop", "build", "down", "config", "migrate"}
        /\ cmd'.pc = "migrate" => cmd'.kind \in {"migrate_pre", "migrate_post"}
    BY <1>8, <1>11 DEF FirstPc, SimpleKinds, Kinds
  <2>2. QED
    BY <1>2, <1>3, <1>8, <1>11, <2>1, SimpleKept DEF BackupPcs, LoadPcs
<1>12. QED
  BY <1>1, <1>9, <1>10, <1>11 DEF SimpleKinds

(* What a dump cut short leaves has a number of its own.                   *)
LEMMA Truncates ==
  ASSUME IInv
  PROVE  /\ Truncated \subseteq [id : 1..MaxCommands, db : Database, good : BOOLEAN]
         /\ \A a, b \in Truncated : a.id = b.id => a = b
         /\ \A a \in Truncated : a.id <= ran
<1>1. World /\ OfCommand
  BY DEF IInv
<1>2. CASE cmd.pc \notin {"dump", "dump2"}
  BY <1>1, <1>2 DEF World, Truncated
<1>3. CASE cmd.pc \in {"dump", "dump2"}
  <2> DEFINE cut == [id |-> ran, db |-> Fresh, good |-> FALSE]
  <2>1. ran \in 1..MaxCommands /\ \A a \in archives : a.id # ran
    BY <1>1, <1>3, InBackupFacts DEF OfCommand, NotYet, Ids, BackupPcs
  <2>2. Fresh \in Database
    BY Bounds DEF Fresh, Database
  <2>3. cut \in [id : 1..MaxCommands, db : Database, good : BOOLEAN] /\ cut.id = ran
        /\ ran <= ran
    BY <2>1, <2>2, Bounds
  <2>4. Truncated = archives \cup {cut}
    BY <1>3 DEF Truncated
  <2> HIDE DEF cut
  <2>5. Truncated \subseteq [id : 1..MaxCommands, db : Database, good : BOOLEAN]
    BY <1>1, <2>3, <2>4 DEF World
  <2>6. \A a, b \in Truncated : a.id = b.id => a = b
    <3>1. \A a, b \in archives : a.id = b.id => a = b
      BY <1>1 DEF World
    <3>2. QED
      BY <2>1, <2>3, <2>4, <3>1
  <2>7. \A a \in Truncated : a.id <= ran
    BY <1>1, <2>3, <2>4 DEF World
  <2>8. QED
    BY <2>5, <2>6, <2>7
<1>4. QED
  BY <1>2, <1>3

LEMMA CutOff ==
  ASSUME IInv, ApiTyped', Serving' => api' = api, cuts < MaxCuts, cuts' = cuts + 1,
         archives' = Truncated, astray' \subseteq Causes,
         "wiped" \in astray => "wiped" \in astray',
         UNCHANGED <<db, tags, checkout, config, ran>>
  PROVE  World'
<1>1. World /\ cuts' \in 0..MaxCuts
  BY Bounds DEF IInv, World
<1>2. QED
  BY <1>1, Truncates DEF World, ApiTyped, Serving

LEMMA InterruptStep == ASSUME IInv, Interrupt PROVE IInv'
<1>1. ComposeStart \/ UNCHANGED api
  BY DEF Interrupt
<1>2. ApiTyped' /\ (Serving' => api' = api)
  BY <1>1, Compose DEF IInv, Interrupt
<1>3. /\ cmd' = Idle /\ astray' \subseteq Causes
      /\ "wiped" \in astray => "wiped" \in astray'
  BY DEF Interrupt, End, EndOn, IInv, World, Causes
<1>4. World'
  BY <1>2, <1>3, CutOff DEF Interrupt
<1>5. QED
  BY <1>3, <1>4, EndsIdle

LEMMA PowerLossStep == ASSUME IInv, PowerLoss PROVE IInv'
<1>1. World
  BY DEF IInv
<1>2. ApiTyped' /\ (Serving' => api' = api)
  BY <1>1 DEF World, PowerLoss, ApiTyped, Running, Serving, None
<1>3. astray' \subseteq Causes /\ ("wiped" \in astray => "wiped" \in astray')
  BY <1>1 DEF PowerLoss, World, Causes
<1>4. World'
  BY <1>2, <1>3, CutOff DEF PowerLoss
<1>5. /\ cmd' \in Cmd /\ cmd'.kind = "start" /\ cmd'.pc = "up"
      /\ (cmd'.sound => db'.whole)
  <2>1. cmd' = [Idle EXCEPT !.kind = "start", !.pc = "up", !.sound = db.whole]
        /\ Idle \in Cmd /\ db' = db /\ db.whole \in BOOLEAN
    BY <1>1, IdleTyped DEF PowerLoss, World, Database
  <2>2. "start" \in Kinds /\ "up" \in Pcs
    BY DEF Kinds, Pcs
  <2>3. QED
    BY <2>1, <2>2 DEF Cmd
<1>6. QED
  BY <1>4, <1>5, SimpleKept DEF SimpleKinds, Kinds, BackupPcs, LoadPcs

LEMMA StepStep == ASSUME IInv, Step PROVE IInv'
<1>1. CASE \/ StopCommand \/ StartUp \/ StartHealth \/ PostMigrations \/ MigrateCommand
           \/ ComposeDown \/ ResetWipe \/ ResetUntag \/ ConfigRender
           \/ RebuildBuild \/ RebuildConfig \/ RebuildPromote \/ RebuildRetag \/ RebuildUp
           \/ SetupBuild \/ SetupConfig
  BY <1>1, StopCommandStep, StartUpStep, StartHealthStep, PostMigrationsStep, ComposeDownStep,
     ResetStep, ConfigStep, RebuildBuildStep, TagStep, RebuildUpStep
<1>2. CASE \/ QuiesceWriters \/ QuiesceFlag \/ DumpFirst \/ DumpRest
           \/ ResumeStart \/ ResumeWait \/ ApplyRetention
           \/ RestoreStop \/ LoadTemp \/ SwapStart \/ SwapEnd \/ RestoreRestart \/ RestoreHealth
  BY <1>2, QuiesceStep, QuiesceFlagStep, DumpFirstStep, DumpRestStep, ResumeStartStep,
     ResumeWaitStep, RetentionStep, RestoreStopStep, LoadTempStep, SwapStartStep, SwapEndStep,
     RestoreEndsStep
<1>3. CASE \/ UpdateGate \/ UpdateCheckout \/ UpdateBuild \/ UpdateConfig \/ UpdatePre
           \/ UpdatePromote
           \/ UpdateStop \/ UpdateAbort \/ UpdatePost \/ UpdateSwapUp \/ UpdateHealth \/ UpdateRecover
           \/ RollbackConfig \/ RollbackImage \/ RollbackHealth
  BY <1>3, UpdateGateStep, UpdateCheckoutStep, UpdateBuildStep, UpdateConfigStep, UpdatePreStep,
     UpdatePromoteStep, UpdateStopStep, UpdateAbortStep, UpdatePostStep, UpdateSwapUpStep,
     UpdateHealthStep, UpdateRecoverStep, RollbackConfigStep, RollbackImageStep, RollbackHealthStep
<1>4. QED
  BY <1>1, <1>2, <1>3 DEF Step

LEMMA Stutters == ASSUME IInv, UNCHANGED vars PROVE IInv'
<1>1. UNCHANGED <<db, archives, api, tags, checkout, config, cmd, last, ran, cuts, astray>>
  BY DEF vars
<1>2. World'
  <2>1. World /\ Left /\ UNCHANGED api /\ UNCHANGED tags
        /\ UNCHANGED <<db, archives, tags, checkout, config>>
    BY <1>1 DEF IInv, World, Left
  <2>2. QED
    BY <2>1, Compose, WorldKept
<1>3. Typed' /\ NotYet' /\ Still' /\ Made'
  <2>1. Typed'
    BY <1>1 DEF IInv, OfCommand, Typed, Running
  <2>2. NotYet'
    BY <1>1 DEF IInv, OfCommand, NotYet, Ids
  <2>3. Still'
    BY <1>1 DEF IInv, OfCommand, Still, Running
  <2>4. Made'
    BY <1>1 DEF IInv, OfCommand, Made, Ids, Source, WayBack
  <2>5. QED
    BY <2>1, <2>2, <2>3, <2>4
<1>4. BothThere' /\ Additive' /\ Resumed' /\ Caught' /\ Sound'
  BY <1>1 DEF IInv, OfCommand, BothThere, Additive, Resumed, Ids, Serving, Caught, Sound
<1>5. Remembered'
  BY <1>1 DEF IInv, OfCommand, Remembered
<1>6. QED
  BY <1>2, <1>3, <1>4, <1>5 DEF IInv, OfCommand

LEMMA NextStep == ASSUME IInv, [Next]_vars PROVE IInv'
  BY BootStep, WriteStep, StepStep, IssueStep, InterruptStep, PowerLossStep, Stutters DEF Next

(* The invariant the theorems rest on is inductive: at every step of every *)
(* command the archives, the tags and the database agree with what the     *)
(* command has done so far, whatever failed and wherever it was cut off.   *)
THEOREM Inductive == Spec => []IInv
<1>1. Init => IInv
  BY InitIInv
<1>2. IInv /\ [Next]_vars => IInv'
  BY NextStep
<1>3. QED
  BY <1>1, <1>2, PTL DEF Spec

(* Every part of the installation has its type, archives have their number *)
(* to themselves, and a container without an image is none (TypeOK).       *)
THEOREM InstallationIsTyped == Spec => []TypeOK
<1>1. IInv => TypeOK
  <2> SUFFICES ASSUME IInv PROVE TypeOK
    OBVIOUS
  <2>1. World /\ cmd \in Cmd
    BY DEF IInv, OfCommand, Typed
  <2>2. /\ cmd.kind \in Kinds \cup {"idle"}
        /\ cmd.file \in 0..MaxCommands /\ cmd.safety \in 0..MaxCommands
        /\ cmd.from \in 0..Latest /\ cmd.cfg \in 0..Latest /\ cmd.slips \subseteq Slips
    BY <2>1 DEF Cmd
  <2>3. QED
    BY <2>1, <2>2 DEF World, TypeOK
<1>2. QED
  BY <1>1, Inductive, PTL

(* Only the end of a dump adds an archive that passes the check.           *)
LEMMA NewArchives ==
  ASSUME IInv, Next, NEW a \in archives' \ archives, a.good
  PROVE  DumpRest /\ a = Dumped
<1>1. ~Boot /\ ~Write /\ (\A kind \in Commands : ~Issue(kind))
  BY DEF Boot, Write, Issue
<1>2. ASSUME Interrupt \/ PowerLoss PROVE FALSE
  <2>1. a \in Truncated /\ a \notin archives
    BY <1>2 DEF Interrupt, PowerLoss
  <2>2. a = [id |-> ran, db |-> Fresh, good |-> FALSE]
    BY <2>1 DEF Truncated
  <2>3. QED
    BY <2>2
<1>3. ASSUME \/ StopCommand \/ StartUp \/ StartHealth \/ PostMigrations \/ MigrateCommand
             \/ ComposeDown \/ ResetWipe \/ ResetUntag \/ ConfigRender
             \/ RebuildBuild \/ RebuildConfig \/ RebuildPromote \/ RebuildRetag \/ RebuildUp
             \/ SetupBuild \/ SetupConfig
      PROVE  FALSE
  BY <1>3 DEF StopCommand, StartUp, StartHealth, PostMigrations, MigrateCommand, ComposeDown,
     ResetWipe, ResetUntag, ConfigRender, RebuildBuild, RebuildConfig, RebuildPromote,
     RebuildRetag, RebuildUp, SetupBuild, SetupConfig
<1>4. ASSUME \/ QuiesceWriters \/ QuiesceFlag \/ DumpFirst \/ ResumeStart \/ ResumeWait
             \/ RestoreStop \/ LoadTemp \/ SwapStart \/ SwapEnd \/ RestoreRestart \/ RestoreHealth
      PROVE  FALSE
  BY <1>4 DEF QuiesceWriters, QuiesceFlag, DumpFirst, ResumeStart, ResumeWait, RestoreStop,
     LoadTemp, SwapStart, SwapEnd, RestoreRestart, RestoreHealth
<1>5. ~ApplyRetention
  BY DEF ApplyRetention, Kept
<1>6. ASSUME \/ UpdateGate \/ UpdateCheckout \/ UpdateBuild \/ UpdateConfig \/ UpdatePre
             \/ UpdatePromote \/ UpdateStop \/ UpdateAbort \/ UpdatePost \/ UpdateSwapUp
             \/ UpdateHealth \/ UpdateRecover \/ RollbackConfig \/ RollbackImage \/ RollbackHealth
      PROVE  FALSE
  BY <1>6 DEF UpdateGate, UpdateCheckout, UpdateBuild, UpdateConfig, UpdatePre, UpdatePromote,
     UpdateStop, UpdateAbort, UpdatePost, UpdateSwapUp, UpdateHealth, UpdateRecover,
     RollbackConfig, RollbackImage, RollbackHealth
<1>7. DumpRest => a = Dumped
  BY DEF DumpRest, Dumped
<1>8. QED
  BY <1>1, <1>2, <1>3, <1>4, <1>5, <1>6, <1>7 DEF Next, Step

(* A dump of the database with the API stopped is of one moment, though     *)
(* mongodump reads one collection after the other.                          *)
THEOREM OneMoment == Spec => ArchiveIsOneMoment
<1>1. ASSUME IInv, [Next]_vars, NEW a \in archives' \ archives, a.good, ~Running
      PROVE  a.db = db
  <2>1. DumpRest /\ a = Dumped
    BY <1>1, NewArchives DEF vars
  <2>2. Dumped.db = db
    BY <1>1, <2>1, DumpIsDatabase DEF DumpRest
  <2>3. QED
    BY <2>1, <2>2
<1>2. IInv /\ [Next]_vars =>
        [\A a \in archives' \ archives : a.good /\ ~Running => a.db = db]_vars
  BY <1>1
<1>3. QED
  BY <1>2, Inductive, PTL DEF Spec, ArchiveIsOneMoment

(* Retention, at any count, leaves a restore the archive it reads and the  *)
(* one it made of the database it drops.                                   *)
THEOREM WayBackOutlives == Spec => []WayBackKept
<1>1. IInv => WayBackKept
  BY DEF IInv, OfCommand, BothThere, WayBackKept, BackupPcs, LoadPcs
<1>2. QED
  BY <1>1, Inductive, PTL

(* Nothing is written between the cutover archive and the new container.   *)
THEOREM NothingLostAtCutover == Spec => []CutoverQuiet
<1>1. IInv => CutoverQuiet
  <2> SUFFICES ASSUME IInv, cmd.kind = "update", cmd.pc \in {"post", "retry", "swapup"}
               PROVE  cmd.file \in Ids /\ db.balance = Archive(cmd.file).db.balance
    BY DEF CutoverQuiet
  <2>1. PICK a \in archives : a.id = cmd.file /\ a.db.balance = db.balance
    BY DEF IInv, OfCommand, Made, HeldPcs
  <2>2. Archive(cmd.file) = a
    BY <2>1, TheArchive DEF IInv
  <2>3. QED
    BY <2>1, <2>2 DEF Ids
<1>2. QED
  BY <1>1, Inductive, PTL

-----------------------------------------------------------------------------
(* What a step may not do.                                                 *)

(* An update ends as rolled back only where its rollback waited for health. *)
LEMMA RolledBackByRollback ==
  ASSUME IInv, Next, cmd.kind = "update", cmd'.kind = "idle", last' = "rolled_back"
  PROVE  RollbackHealth
<1>1. cmd \in Cmd /\ Idle.kind = "idle" /\ cmd.pc # "migrate"
  BY DEF IInv, OfCommand, Typed, Idle
<1>2. ~Boot /\ ~Write /\ (\A kind \in Commands : ~Issue(kind)) /\ ~PowerLoss /\ ~Interrupt
  BY <1>1 DEF Boot, Write, Issue, PowerLoss, Interrupt, End, EndOn
<1>3. ASSUME \/ StopCommand \/ StartUp \/ StartHealth \/ PostMigrations \/ MigrateCommand
             \/ ComposeDown \/ ResetWipe \/ ResetUntag \/ ConfigRender
             \/ RebuildBuild \/ RebuildConfig \/ RebuildPromote \/ RebuildRetag \/ RebuildUp
             \/ SetupBuild \/ SetupConfig
      PROVE  FALSE
  BY <1>1, <1>3 DEF StopCommand, StartUp, StartHealth, PostMigrations, MigrateCommand,
     ComposeDown, ResetWipe, ResetUntag, ConfigRender, RebuildBuild, RebuildConfig,
     RebuildPromote, RebuildRetag, RebuildUp, SetupBuild, SetupConfig
<1>4. ASSUME NEW how, how # "rolled_back", Stop(how) PROVE FALSE
  BY <1>4 DEF Stop, End, EndOn
<1>5. ASSUME NEW p, Goto(p) PROVE FALSE
  BY <1>1, <1>5 DEF Goto, Cmd
<1>6. ASSUME NEW ok, NEW file, BackupReturns(ok, file) PROVE FALSE
  BY <1>1, <1>4, <1>6 DEF BackupReturns, Cmd
<1>7. ASSUME \/ QuiesceWriters \/ QuiesceFlag \/ DumpFirst \/ DumpRest
             \/ ResumeStart \/ ResumeWait \/ ApplyRetention
      PROVE  FALSE
  BY <1>1, <1>5, <1>6, <1>7
     DEF QuiesceWriters, QuiesceFlag, DumpFirst, DumpRest, ResumeStart, ResumeWait,
         ApplyRetention, Cmd
<1>8. ~LoadFailed
  BY <1>1, <1>4 DEF LoadFailed
<1>9. ASSUME \/ RestoreStop \/ LoadTemp \/ SwapStart \/ SwapEnd \/ RestoreRestart \/ RestoreHealth
       PROVE  FALSE
  BY <1>1, <1>4, <1>5, <1>8, <1>9
     DEF RestoreStop, LoadTemp, SwapStart, SwapEnd, SwapFailed, RestoreRestart, RestoreHealth, Cmd
<1>10. ASSUME \/ UpdateGate \/ UpdateCheckout \/ UpdateConfig \/ UpdatePre \/ UpdatePromote
       PROVE  FALSE
  <2>1. \A image : ~RenderConfig(image)
    BY <1>4, <1>5 DEF RenderConfig
  <2>2. QED
    BY <1>1, <1>4, <1>5, <1>10, <2>1
       DEF UpdateGate, UpdateCheckout, UpdateConfig, UpdatePre, UpdatePromote, Cmd
<1>11. ASSUME UpdateBuild PROVE FALSE
  <2>1. ASSUME NEW from, NEW cfg, NEW slips,
               cmd' = [cmd EXCEPT !.pc = "config", !.from = from, !.cfg = cfg, !.slips = slips]
        PROVE  FALSE
    BY <1>1, <2>1 DEF Cmd
  <2>2. ~Stop("died")
    BY <1>4
  <2>3. PICK previous \in ({Deployed, tags.current} \ {None}) \cup {tags.previous} :
          cmd' = [cmd EXCEPT !.pc = "config", !.from = Deployed, !.cfg = config.rendered,
                             !.slips = IF previous = Deployed THEN {} ELSE {"previous"}]
    BY <1>11, <2>2 DEF UpdateBuild
  <2>4. QED
    BY <2>1, <2>3
<1>12. ASSUME \/ UpdateStop \/ UpdateAbort \/ UpdatePost \/ UpdateSwapUp \/ UpdateHealth
              \/ UpdateRecover
       PROVE  FALSE
  BY <1>1, <1>4, <1>5, <1>8, <1>12
     DEF UpdateStop, UpdateAbort, UpdatePost, UpdateSwapUp, DiesOfUp, EndOn, UpdateHealth,
         UpdateRecover, Cmd
<1>13. ASSUME NEW p, NEW what, Slip(p, what) PROVE FALSE
  BY <1>1, <1>13 DEF Slip, Cmd
<1>14. ASSUME RollbackConfig \/ RollbackImage PROVE FALSE
  BY <1>4, <1>5, <1>13, <1>14 DEF RollbackConfig, RollbackImage
<1>15. QED
  BY <1>2, <1>3, <1>7, <1>9, <1>10, <1>11, <1>12, <1>14 DEF Next, Step

(* An update that reports it rolled back left the schema it found, and the  *)
(* image and the configuration unless the call that puts them back failed.  *)
THEOREM RollbackPutsBack == Spec => RollbackReturns
<1>1. ASSUME IInv, [Next]_vars, cmd.kind = "update", cmd'.kind = "idle", last' = "rolled_back"
      PROVE  /\ db.post = Archive(cmd.file).db.post
             /\ "config" \in cmd.slips \/ config.rendered = cmd.cfg
             /\ cmd.slips \cap {"previous", "tag"} # {} \/ tags.current = cmd.from
             /\ cmd.slips \cap {"previous", "tag", "up"} # {} \/ api.image = cmd.from
  <2>1. Next
    BY <1>1 DEF vars
  <2>2. cmd.pc = "rollbackhealth"
    BY <1>1, <2>1, RolledBackByRollback DEF RollbackHealth
  <2>3. Remembered /\ World
    BY <1>1 DEF IInv, OfCommand
  <2>4. PICK a \in archives : a.id = cmd.file /\ a.db.post = db.post
    BY <1>1, <2>2, <2>3 DEF Remembered
  <2>5. Archive(cmd.file) = a
    BY <2>3, <2>4, TheArchive
  <2>6. QED
    BY <1>1, <2>2, <2>3, <2>4, <2>5 DEF Remembered
<1>2. IInv /\ [Next]_vars =>
        [cmd.kind = "update" /\ cmd'.kind = "idle" /\ last' = "rolled_back" =>
           /\ db.post = Archive(cmd.file).db.post
           /\ "config" \in cmd.slips \/ config.rendered = cmd.cfg
           /\ cmd.slips \cap {"previous", "tag"} # {} \/ tags.current = cmd.from
           /\ cmd.slips \cap {"previous", "tag", "up"} # {} \/ api.image = cmd.from]_vars
  BY <1>1
<1>3. QED
  BY <1>2, Inductive, PTL DEF Spec, RollbackReturns

(* Which steps change the database, and which of them raise its schema.    *)
LEMMA DatabaseSteps ==
  ASSUME Next, db' # db
  PROVE  \/ Boot \/ Write \/ PostMigrations \/ MigrateCommand \/ ResetWipe
         \/ SwapStart \/ SwapEnd \/ UpdatePre \/ UpdatePost
<1>1. ~((\E kind \in Commands : Issue(kind)) \/ Interrupt \/ PowerLoss)
  BY DEF Issue, Interrupt, PowerLoss
<1>2. ~(\/ StopCommand \/ StartUp \/ StartHealth \/ ComposeDown \/ ResetUntag \/ ConfigRender
        \/ RebuildBuild \/ RebuildConfig \/ RebuildPromote \/ RebuildRetag \/ RebuildUp
        \/ SetupBuild \/ SetupConfig)
  BY DEF StopCommand, StartUp, StartHealth, ComposeDown, ResetUntag, ConfigRender,
     RebuildBuild, RebuildConfig, RebuildPromote, RebuildRetag, RebuildUp, SetupBuild, SetupConfig
<1>3. ~(\/ QuiesceWriters \/ QuiesceFlag \/ DumpFirst \/ DumpRest
        \/ ResumeStart \/ ResumeWait \/ ApplyRetention
        \/ RestoreStop \/ LoadTemp \/ RestoreRestart \/ RestoreHealth)
  BY DEF QuiesceWriters, QuiesceFlag, DumpFirst, DumpRest, ResumeStart, ResumeWait,
     ApplyRetention, RestoreStop, LoadTemp, RestoreRestart, RestoreHealth
<1>4. ~(\/ UpdateGate \/ UpdateCheckout \/ UpdateBuild \/ UpdateConfig \/ UpdatePromote
        \/ UpdateStop \/ UpdateAbort \/ UpdateSwapUp \/ UpdateHealth \/ UpdateRecover
        \/ RollbackConfig \/ RollbackImage \/ RollbackHealth)
  BY DEF UpdateGate, UpdateCheckout, UpdateBuild, UpdateConfig, UpdatePromote, UpdateStop,
     UpdateAbort, UpdateSwapUp, UpdateHealth, UpdateRecover, RollbackConfig, RollbackImage,
     RollbackHealth
<1>5. QED
  BY <1>1, <1>2, <1>3, <1>4 DEF Next, Step

LEMMA Raises ==
  ASSUME IInv, Next, db'.post > db.post
  PROVE  /\ PostMigrations \/ MigrateCommand \/ (SwapStart /\ cmd.kind = "restore") \/ UpdatePost
         /\ PostMigrations =>
              db'.post \in Nat /\ (db'.post <= db.post \/ db'.post <= tags.current)
         /\ UpdatePost => db'.post \in Nat /\ (db'.post <= db.post \/ db'.post <= cmd.target)
         /\ MigrateCommand => cmd.kind = "migrate_post"
<1>1. World /\ OfCommand /\ db \in Database /\ db.post \in Nat /\ ~(db.post > db.post)
      /\ ~(0 > db.post) /\ tags.current \in 0..Latest
  BY Bounds DEF IInv, World, Database
<1>2. ~Boot /\ ~Write
  BY <1>1 DEF Boot, Write, Database
<1>3. ~ResetWipe /\ ~SwapEnd
  <2>1. Fresh.post = 0
    BY DEF Fresh
  <2>2. \A w : [db EXCEPT !.whole = w].post = db.post
    BY <1>1 DEF Database
  <2>3. QED
    BY <1>1, <2>1, <2>2 DEF ResetWipe, SwapEnd
<1>4. ~UpdatePre
  <2> SUFFICES ASSUME UpdatePre PROVE FALSE
    OBVIOUS
  <2>1. cmd.target \in 0..Latest /\ \E ok \in BOOLEAN : Migrate("pre", cmd.target, ok)
    BY UpdateFacts DEF UpdatePre
  <2>2. QED
    BY <1>1, <2>1, Migrates
<1>5. ASSUME SwapStart, cmd.kind # "restore" PROVE FALSE
  <2>1. cmd.kind = "update" /\ cmd.pc = "swap"
    BY <1>1, <1>5 DEF SwapStart, OfCommand, Typed, LoadPcs
  <2>2. PICK a \in archives : a.id = cmd.file /\ WayBack(a)
    BY <1>1, <2>1 DEF OfCommand, Made, HeldPcs
  <2>3. Archive(Source) = a
    BY <1>1, <2>1, <2>2, TheArchive DEF Source
  <2>4. a.db \in Database
    BY <1>1, <2>2 DEF World
  <2>5. db'.post = a.db.post /\ a.db.post \in Nat
    BY <1>5, <2>3, <2>4 DEF SwapStart, Database
  <2>6. QED
    BY <1>1, <2>2, <2>5 DEF WayBack
<1>6. MigrateCommand => cmd.kind = "migrate_post"
  <2> SUFFICES ASSUME MigrateCommand, cmd.kind # "migrate_post" PROVE FALSE
    OBVIOUS
  <2>1. cmd.kind = "migrate_pre"
    BY <1>1 DEF MigrateCommand, OfCommand, Typed
  <2>2. \E ok \in BOOLEAN : Migrate("pre", tags.current, ok)
    BY <2>1 DEF MigrateCommand
  <2>3. QED
    BY <1>1, <2>2, Migrates
<1>7. PostMigrations => db'.post \in Nat /\ (db'.post <= db.post \/ db'.post <= tags.current)
  <2> SUFFICES ASSUME PostMigrations
               PROVE  db'.post \in Nat /\ (db'.post <= db.post \/ db'.post <= tags.current)
    OBVIOUS
  <2>1. \E ok \in BOOLEAN : Migrate("post", tags.current, ok)
    BY DEF PostMigrations
  <2>2. db' \in Database /\ (db'.post <= db.post \/ db'.post <= tags.current)
    BY <1>1, <2>1, Migrates
  <2>3. QED
    BY <2>2 DEF Database
<1>8. UpdatePost => db'.post \in Nat /\ (db'.post <= db.post \/ db'.post <= cmd.target)
  <2> SUFFICES ASSUME UpdatePost
               PROVE  db'.post \in Nat /\ (db'.post <= db.post \/ db'.post <= cmd.target)
    OBVIOUS
  <2>1. cmd.target \in 0..Latest /\ \E ok \in BOOLEAN : Migrate("post", cmd.target, ok)
    BY UpdateFacts DEF UpdatePost
  <2>2. db' \in Database /\ (db'.post <= db.post \/ db'.post <= cmd.target)
    BY <1>1, <2>1, Migrates
  <2>3. QED
    BY <2>2 DEF Database
<1>9. db' # db
  BY <1>1
<1>10. QED
  BY <1>2, <1>3, <1>4, <1>5, <1>6, <1>7, <1>8, <1>9, DatabaseSteps

(* Destructive migrations come after the additive ones of their release,   *)
(* but for `migrate post', a restore over a container of another image and *)
(* data wiped beside a container.                                          *)
THEOREM DestructiveComeLast == Spec => PostAfterPre
<1>1. ASSUME IInv, [Next]_vars, db'.post > db.post, cmd.pc \in {"post", "retry"},
             ~(cmd.kind # "update" /\ (Straddling \/ "wiped" \in astray))
      PROVE  db.pre >= db'.post
  <2>1. World /\ OfCommand /\ db.post \in Nat /\ db.pre \in Nat /\ ~(db.post > db.post)
    BY <1>1, Bounds DEF IInv, World, Database
  <2>2. Next /\ ~MigrateCommand /\ ~SwapStart
    BY <1>1, <2>1 DEF vars, MigrateCommand, SwapStart
  <2>3. PostMigrations \/ UpdatePost
    BY <1>1, <2>2, Raises
  <2>4. CASE UpdatePost
    <3>1. cmd.target \in 0..Latest /\ db.pre >= cmd.target
      BY <1>1, <2>1, <2>4, UpdateFacts DEF UpdatePost, OfCommand, Additive
    <3>2. db'.post \in Nat /\ (db'.post <= db.post \/ db'.post <= cmd.target)
      BY <1>1, <2>2, <2>4, Raises
    <3>3. QED
      BY <1>1, <2>1, <3>1, <3>2, Bounds
  <2>5. CASE PostMigrations
    <3>1. Serving /\ tags.current \in 0..Latest /\ api.image \in 0..Latest /\ cmd.kind # "update"
      BY <1>1, <2>1, <2>5 DEF PostMigrations, OfCommand, Additive, World
    <3>2. api.image = tags.current /\ db.pre >= tags.current
      BY <1>1, <2>1, <3>1 DEF World, Straddling, Strays, Serving
    <3>3. db'.post \in Nat /\ (db'.post <= db.post \/ db'.post <= tags.current)
      BY <1>1, <2>2, <2>5, Raises
    <3>4. QED
      BY <1>1, <2>1, <3>1, <3>2, <3>3, Bounds
  <2>6. QED
    BY <2>3, <2>4, <2>5
<1>2. IInv /\ [Next]_vars =>
        [db'.post > db.post /\ cmd.pc \in {"post", "retry"} =>
           \/ db.pre >= db'.post
           \/ cmd.kind # "update" /\ (Straddling \/ "wiped" \in astray)]_vars
  BY <1>1
<1>3. QED
  BY <1>2, Inductive, PTL DEF Spec, PostAfterPre

(* No start, restart, rebuild, installation or update takes the schema      *)
(* beyond the code beside it, whatever an earlier command left half done.   *)
THEOREM PostOnlyUnderItsCode == Spec => NoPostUnderOldCode
<1>1. ASSUME IInv, [Next]_vars, Running, db'.post > db.post, db'.post > api.image,
             cmd.kind \notin {"migrate_post", "restore"}
      PROVE  FALSE
  <2>1. World /\ OfCommand /\ db.post \in Nat /\ ~(db.post > db.post)
        /\ tags.current \in Nat /\ api.image \in Nat
    BY <1>1, Bounds DEF IInv, World, Database
  <2>2. Next
    BY <1>1, <2>1 DEF vars
  <2>3. PostMigrations \/ UpdatePost
    BY <1>1, <2>2, Raises
  <2>4. ~UpdatePost
    BY <1>1, <2>1 DEF UpdatePost, OfCommand, Still
  <2>5. api.image = tags.current
    BY <1>1, <2>1, <2>3, <2>4 DEF PostMigrations, OfCommand, Typed, Caught
  <2>6. db'.post \in Nat /\ (db'.post <= db.post \/ db'.post <= tags.current)
    BY <1>1, <2>2, <2>3, <2>4, Raises
  <2>7. QED
    BY <1>1, <2>1, <2>5, <2>6
<1>2. IInv /\ [Next]_vars =>
        [Running /\ db'.post > db.post /\ db'.post > api.image =>
           cmd.kind \in {"migrate_post", "restore"}]_vars
  BY <1>1
<1>3. QED
  BY <1>2, Inductive, PTL DEF Spec, NoPostUnderOldCode

LEMMA CaughtUpByMigrations ==
  ASSUME IInv, Next, cmd.kind \in CatchesUp, cmd'.kind = "idle", last' = "done"
  PROVE  PostMigrations
<1>1. /\ cmd \in Cmd /\ Idle.kind = "idle" /\ cmd.pc \notin BackupPcs \cup LoadPcs
      /\ cmd.pc # "migrate" /\ cmd.kind \in {"start", "restart", "rebuild", "setup"}
  BY DEF IInv, OfCommand, Typed, Idle, CatchesUp
<1>2. ~Boot /\ ~Write /\ (\A kind \in Commands : ~Issue(kind)) /\ ~PowerLoss /\ ~Interrupt
  BY <1>1 DEF Boot, Write, Issue, PowerLoss, Interrupt, End, EndOn
<1>3. ASSUME NEW how, how # "done", Stop(how) PROVE FALSE
  BY <1>3 DEF Stop, End, EndOn
<1>4. ASSUME NEW p, Goto(p) PROVE FALSE
  BY <1>1, <1>4 DEF Goto, Cmd
<1>5. ~DiesOfUp
  BY DEF DiesOfUp, EndOn
<1>6. ASSUME StopCommand \/ StartUp \/ StartHealth PROVE FALSE
  BY <1>1, <1>3, <1>4, <1>5, <1>6 DEF StopCommand, StartUp, StartHealth
<1>7. ASSUME MigrateCommand \/ ComposeDown \/ ResetWipe \/ ResetUntag \/ ConfigRender PROVE FALSE
  BY <1>1, <1>7 DEF MigrateCommand, ComposeDown, ResetWipe, ResetUntag, ConfigRender
<1>8. ASSUME \/ RebuildPromote \/ RebuildRetag \/ RebuildUp \/ SetupBuild \/ SetupConfig
      PROVE  FALSE
  BY <1>1, <1>3, <1>4, <1>5, <1>8
     DEF RebuildPromote, RebuildRetag, RebuildUp, SetupBuild, SetupConfig
<1>9. ASSUME RebuildBuild \/ RebuildConfig PROVE FALSE
  BY <1>1, <1>3, <1>4, <1>9 DEF RebuildBuild, RebuildConfig, RenderConfig, Cmd
<1>10. ASSUME \/ QuiesceWriters \/ QuiesceFlag \/ DumpFirst \/ DumpRest \/ ResumeStart
              \/ ResumeWait \/ ApplyRetention \/ LoadTemp \/ SwapStart \/ SwapEnd
       PROVE  FALSE
  BY <1>1, <1>10 DEF BackupPcs, LoadPcs, QuiesceWriters, QuiesceFlag, DumpFirst, DumpRest,
     ResumeStart, ResumeWait, ApplyRetention, LoadTemp, SwapStart, SwapEnd
<1>11. ASSUME RestoreStop \/ RestoreRestart \/ RestoreHealth PROVE FALSE
  BY <1>1, <1>11 DEF RestoreStop, RestoreRestart, RestoreHealth
<1>12. ASSUME \/ UpdateGate \/ UpdateCheckout \/ UpdateBuild \/ UpdateConfig \/ UpdatePre
              \/ UpdatePromote \/ UpdateStop \/ UpdateAbort \/ UpdatePost \/ UpdateSwapUp
              \/ UpdateHealth \/ UpdateRecover \/ RollbackConfig \/ RollbackImage \/ RollbackHealth
       PROVE  FALSE
  BY <1>1, <1>12 DEF UpdateGate, UpdateCheckout, UpdateBuild, UpdateConfig, UpdatePre,
     UpdatePromote, UpdateStop, UpdateAbort, UpdatePost, UpdateSwapUp, UpdateHealth,
     UpdateRecover, RollbackConfig, RollbackImage, RollbackHealth
<1>13. QED
  BY <1>2, <1>6, <1>7, <1>8, <1>9, <1>10, <1>11, <1>12 DEF Next, Step

(* A start, restart, rebuild or installation that ends well has the image   *)
(* that Compose would start running, on that image's schema.                *)
THEOREM EndsCaughtUp == Spec => StartCatchesUp
<1>1. ASSUME IInv, [Next]_vars, cmd.kind \in CatchesUp, cmd'.kind = "idle", last' = "done"
      PROVE  api'.image = tags'.current /\ db'.post >= tags'.current
  <2>1. World /\ OfCommand /\ cmd.kind # "idle"
    BY <1>1 DEF IInv, CatchesUp
  <2>2. PostMigrations
    BY <1>1, <2>1, CaughtUpByMigrations DEF vars
  <2>3. api.image = tags.current /\ tags.current \in 0..Latest /\ UNCHANGED <<api, tags>>
    BY <1>1, <2>1, <2>2 DEF PostMigrations, OfCommand, Caught, World
  <2>4. PICK ok \in BOOLEAN :
           Migrate("post", tags.current, ok) /\ Stop(IF ok THEN "done" ELSE "died")
    BY <2>2 DEF PostMigrations
  <2>5. ok
    BY <1>1, <2>4 DEF Stop, End, EndOn
  <2>6. db'.post >= tags.current
    BY <2>1, <2>3, <2>4, <2>5, Migrates
  <2>7. QED
    BY <2>3, <2>6
<1>2. IInv /\ [Next]_vars =>
        [cmd.kind \in CatchesUp /\ cmd'.kind = "idle" /\ last' = "done" =>
           api'.image = tags'.current /\ db'.post >= tags'.current]_vars
  BY <1>1
<1>3. QED
  BY <1>2, Inductive, PTL DEF Spec, StartCatchesUp

(* What aborted commands leave half done is neither widened nor left open   *)
(* by the commands that serve.                                              *)
THEOREM GapsAreClosed == Spec => GapsClose
  BY PostOnlyUnderItsCode, EndsCaughtUp DEF GapsClose

(* A backup ends in its first call, in retention or by a signal.           *)
LEMMA BackupEnds ==
  ASSUME IInv, Next, cmd.kind = "backup", cmd'.kind = "idle"
  PROVE  QuiesceWriters \/ ApplyRetention \/ Interrupt
<1>1. cmd \in Cmd /\ cmd.pc \in BackupPcs
  BY DEF IInv, OfCommand, Typed
<1>2. ~Boot /\ ~Write /\ (\A kind \in Commands : ~Issue(kind)) /\ ~PowerLoss
  BY DEF Boot, Write, Issue, PowerLoss, Idle
<1>3. ASSUME \/ StopCommand \/ StartUp \/ StartHealth \/ PostMigrations \/ MigrateCommand
             \/ ComposeDown \/ ResetWipe \/ ResetUntag \/ ConfigRender
             \/ RebuildBuild \/ RebuildConfig \/ RebuildPromote \/ RebuildRetag \/ RebuildUp
             \/ SetupBuild \/ SetupConfig
      PROVE  FALSE
  BY <1>1, <1>3 DEF BackupPcs, StopCommand, StartUp, StartHealth, PostMigrations, MigrateCommand,
     ComposeDown, ResetWipe, ResetUntag, ConfigRender, RebuildBuild, RebuildConfig, RebuildPromote,
     RebuildRetag, RebuildUp, SetupBuild, SetupConfig
<1>4. ASSUME QuiesceFlag \/ DumpFirst \/ DumpRest \/ ResumeStart \/ ResumeWait PROVE FALSE
  BY <1>1, <1>4 DEF QuiesceFlag, DumpFirst, DumpRest, ResumeStart, ResumeWait, Goto, Cmd
<1>5. ASSUME \/ RestoreStop \/ LoadTemp \/ SwapStart \/ SwapEnd \/ RestoreRestart \/ RestoreHealth
      PROVE  FALSE
  BY <1>1, <1>5
     DEF BackupPcs, RestoreStop, LoadTemp, SwapStart, SwapEnd, RestoreRestart, RestoreHealth
<1>6. ASSUME \/ UpdateGate \/ UpdateCheckout \/ UpdateBuild \/ UpdateConfig \/ UpdatePre
             \/ UpdatePromote
             \/ UpdateStop \/ UpdateAbort \/ UpdatePost \/ UpdateSwapUp \/ UpdateHealth
             \/ UpdateRecover
             \/ RollbackConfig \/ RollbackImage \/ RollbackHealth
      PROVE  FALSE
  BY <1>6 DEF UpdateGate, UpdateCheckout, UpdateBuild, UpdateConfig, UpdatePre, UpdatePromote,
     UpdateStop,
     UpdateAbort, UpdatePost, UpdateSwapUp, UpdateHealth, UpdateRecover, RollbackConfig,
     RollbackImage, RollbackHealth
<1>7. QED
  BY <1>2, <1>3, <1>4, <1>5, <1>6 DEF Next, Step

(* A backup that noted that it stopped the API leaves it started, unless   *)
(* docker refuses the start or a signal comes between the removal of the   *)
(* trap and the start.                                                     *)
THEOREM ResumesAfterBackup == Spec => BackupResumes
<1>1. ASSUME IInv, [Next]_vars, cmd.wasUp, cmd.kind = "backup", cmd'.kind = "idle"
      PROVE  \/ api'.status # "stopped"
             \/ cmd.pc \in {"resume", "resumefail"} \/ last' = "trap_failed"
  <2>1. World /\ OfCommand /\ cmd.pc \in BackupPcs /\ cmd.pc \notin {"quiesce", "flag"}
        /\ (cmd.pc \in {"resumewait", "retain"} => api.status # "stopped")
    BY <1>1 DEF IInv, OfCommand, Typed, Still, Resumed
  <2>2. QuiesceWriters \/ ApplyRetention \/ Interrupt
    BY <1>1, BackupEnds DEF vars
  <2>3. CASE QuiesceWriters
    BY <2>1, <2>3 DEF QuiesceWriters
  <2>4. CASE ApplyRetention
    BY <2>1, <2>4 DEF ApplyRetention
  <2>5. CASE Interrupt
    <3>1. CASE TrapStarts
      BY <2>1, <2>5, <3>1, Compose DEF Interrupt, End, EndOn
    <3>2. CASE ~TrapStarts
      <4>1. UNCHANGED api
        BY <2>5, <3>2 DEF Interrupt
      <4>2. cmd.pc \in {"resume", "resumewait", "retain", "resumefail"}
        BY <1>1, <2>1, <3>2 DEF TrapStarts, InBackup, BackupPcs
      <4>3. QED
        BY <2>1, <4>1, <4>2
    <3>3. QED
      BY <3>1, <3>2
  <2>6. QED
    BY <2>2, <2>3, <2>4, <2>5
<1>2. IInv /\ [Next]_vars =>
        [cmd.wasUp /\ cmd.kind = "backup" /\ cmd'.kind = "idle" /\ api'.status = "stopped" =>
           cmd.pc \in {"resume", "resumefail"} \/ last' = "trap_failed"]_vars
  BY <1>1
<1>3. QED
  BY <1>2, Inductive, PTL DEF Spec, BackupResumes

(* Which steps start the container: none that touches the database, and    *)
(* none between the drop and the last rename.                              *)
LEMMA Starts ==
  ASSUME IInv, Next, ~Running, Running'
  PROVE  db' = db /\ cmd.pc # "rename"
<1>1. World
  BY DEF IInv
<1>2. api' # api
  BY DEF Running
<1>3. ~Boot /\ ~Write /\ (\A kind \in Commands : ~Issue(kind)) /\ ~PowerLoss
  BY <1>2 DEF Boot, Write, Issue, PowerLoss, Running
<1>4. ~ComposeStop /\ ~(\E left \in DownLeaves : api' = left)
      /\ api' # [image |-> None, status |-> "none"]
  BY <1>1, <1>2 DEF ComposeStop, DownLeaves, Running, World
<1>5. CASE Interrupt
  <2>1. TrapStarts
    BY <1>2, <1>5 DEF Interrupt
  <2>2. QED
    BY <1>5, <2>1 DEF Interrupt, TrapStarts, InBackup, InSafeRestore
<1>6. ASSUME \/ StopCommand \/ StartHealth \/ PostMigrations \/ MigrateCommand
             \/ ComposeDown \/ ResetWipe \/ ResetUntag \/ ConfigRender
             \/ RebuildBuild \/ RebuildConfig \/ RebuildPromote \/ RebuildRetag
             \/ SetupBuild \/ SetupConfig
      PROVE  FALSE
  BY <1>2, <1>4, <1>6 DEF StopCommand, StartHealth, PostMigrations, MigrateCommand, ComposeDown,
     ResetWipe, ResetUntag, ConfigRender, RebuildBuild, RebuildConfig, RebuildPromote,
     RebuildRetag, SetupBuild, SetupConfig
<1>7. ASSUME \/ QuiesceWriters \/ QuiesceFlag \/ DumpFirst \/ DumpRest \/ ResumeWait
             \/ ApplyRetention \/ SwapStart \/ SwapEnd \/ RestoreHealth
      PROVE  FALSE
  BY <1>2, <1>4, <1>7 DEF QuiesceWriters, QuiesceFlag, DumpFirst, DumpRest, ResumeWait,
     ApplyRetention, SwapStart, SwapEnd, RestoreHealth
<1>8. ASSUME \/ UpdateGate \/ UpdateCheckout \/ UpdateBuild \/ UpdateConfig \/ UpdatePre
             \/ UpdatePromote \/ UpdateStop \/ UpdatePost \/ UpdateHealth
             \/ RollbackConfig \/ RollbackHealth
      PROVE  FALSE
  BY <1>2, <1>4, <1>8 DEF UpdateGate, UpdateCheckout, UpdateBuild, UpdateConfig, UpdatePre,
     UpdatePromote, UpdateStop, Cutover, UpdatePost, UpdateHealth, RollbackConfig, RollbackHealth
<1>9. CASE \/ StartUp \/ RebuildUp \/ ResumeStart \/ RestoreStop \/ LoadTemp \/ RestoreRestart
           \/ UpdateAbort \/ UpdateSwapUp \/ UpdateRecover \/ RollbackImage
  BY <1>9 DEF StartUp, RebuildUp, ResumeStart, RestoreStop, LoadTemp, RestoreRestart,
     UpdateAbort, UpdateSwapUp, UpdateRecover, RollbackImage
<1>10. QED
  BY <1>3, <1>5, <1>6, <1>7, <1>8, <1>9 DEF Next, Step

(* No command starts the API on a database that it found whole and that    *)
(* its own swap left partial, by a call or by its trap.                    *)
THEOREM NotOnPartial == Spec => NeverStartedOnPartial
<1>1. ASSUME IInv, [Next]_vars, cmd.sound, ~Running, Running'
      PROVE  db'.whole
  <2>1. Next
    BY <1>1 DEF vars, Running
  <2>2. db' = db /\ cmd.pc # "rename"
    BY <1>1, <2>1, Starts
  <2>3. QED
    BY <1>1, <2>2 DEF IInv, OfCommand, Sound
<1>2. IInv /\ [Next]_vars => [cmd.sound /\ ~Running /\ Running' => db'.whole]_vars
  BY <1>1
<1>3. QED
  BY <1>2, Inductive, PTL DEF Spec, NeverStartedOnPartial

-----------------------------------------------------------------------------
(* Schema and image go together.                                           *)

(* No database and no archive is migrated beyond release n.                *)
Posts(n) == db.post <= n /\ \A a \in archives : a.db.post <= n

(* Compose starts a release that knows every database, and is checked out. *)
Level == Posts(tags.current) /\ tags.current <= checkout

(* And the container is of that release.                                   *)
Calm == ~Straddling /\ Level

(* What this is not claimed after.                                         *)
Off == astray \cap {"straddled", "untagged"} # {}

(* An update from its promotion on, up to the rollback of the image; and   *)
(* what has moved `current' and is about to recreate the container, or has *)
(* recreated it in a rollback.                                             *)
Moved == cmd.kind = "update" /\ cmd.pc \notin (EarlyPcs \ {"cutover"}) \cup {"rollbackhealth"}
Replacing == \/ cmd.kind = "setup" /\ cmd.pc \in {"config", "up"}
             \/ cmd.kind = "rebuild" /\ cmd.pc \in {"retag", "recreate"}
             \/ cmd.kind = "update" /\ cmd.pc = "rollbackhealth"
BeforePost == cmd.pc \notin {"post", "retry", "swapup", "uhealth", "recover", "load", "swap"}

(* What an update is about to promote, and a reset has wiped.              *)
Prepared ==
  /\ cmd.kind = "update" /\ cmd.pc \in {"checkout", "build", "config", "pre", "promote"}
       => tags.current <= cmd.target
  /\ cmd.kind = "update" /\ cmd.pc \in {"build", "config", "pre", "promote"} => checkout = cmd.target
  /\ cmd.kind = "update" /\ cmd.pc \in {"config", "pre", "promote"} =>
       cmd.from = tags.current /\ tags.previous = cmd.from
  /\ cmd.kind = "reset" /\ cmd.pc = "untag" => Posts(None)

(* Until the new image's post migrations the schema is one the old image   *)
(* knows; while it may be ahead, Still has nothing but the new image run.  *)
Promoted ==
  /\ tags.current = cmd.target /\ cmd.target <= checkout /\ cmd.from <= cmd.target
  /\ tags.previous = cmd.from
  /\ \A a \in archives : a.db.post <= cmd.from
  /\ api.image \in {None, cmd.from, cmd.target}
  /\ db.post <= IF BeforePost THEN cmd.from ELSE cmd.target

(* While the container is replaced the schema is one the old image knows.  *)
Refitted == Level /\ (api.image # None => Posts(api.image))

Matched ==
  Off \/ /\ Moved => Promoted
         /\ Replacing => Refitted
         /\ ~Moved /\ ~Replacing => Calm /\ Prepared

LEMMA OffSame == ASSUME UNCHANGED astray PROVE Off' <=> Off
  BY DEF Off

LEMMA Numbers ==
  ASSUME World
  PROVE  /\ db.post \in Nat /\ api.image \in Nat /\ tags.current \in Nat /\ checkout \in Nat
         /\ \A a \in archives : a.db.post \in Nat
  BY Bounds DEF World, Database, Releases

LEMMA NumbersNext ==
  ASSUME World'
  PROVE  db'.post \in Nat /\ \A a \in archives' : a.db.post \in Nat
  BY Bounds DEF World, Database

(* Wherever a command ends, either it is astray or Compose's image fits.   *)
LEMMA CalmAnywhere ==
  ASSUME IInv, Matched, ~Off PROVE Level
<1>1. World /\ cmd.from \in Nat /\ cmd.target \in Nat
  <2>1. World /\ cmd \in Cmd
    BY DEF IInv, OfCommand, Typed
  <2>2. QED
    BY <2>1, Bounds DEF Cmd
<1>2. CASE Moved
  <2>1. Promoted
    BY <1>2 DEF Matched
  <2>2. db.post <= cmd.target /\ \A a \in archives : a.db.post <= cmd.target
    BY <1>1, <1>2, <2>1, Numbers DEF Promoted, Moved
  <2>3. QED
    BY <2>1, <2>2 DEF Level, Promoted, Posts
<1>3. CASE Replacing
  BY <1>3 DEF Matched, Refitted
<1>4. QED
  BY <1>2, <1>3 DEF Matched, Calm

(* No call makes the database newer than Compose's image, than it was or   *)
(* than an archive, and containers are of the image that ran or of that.   *)
Stays ==
  /\ UNCHANGED <<tags, checkout>>
  /\ api'.image \in {api.image, tags.current, None}
  /\ \/ db'.post <= tags.current \/ db'.post <= db.post
     \/ \E a \in archives : db'.post <= a.db.post
  /\ \A a \in archives' : a.db.post <= db.post \/ \E b \in archives : a.db.post <= b.db.post

LEMMA LevelKept ==
  ASSUME World, World', Level, Stays PROVE Level'
<1>1. Posts(tags.current) /\ tags'.current = tags.current
      /\ tags.current <= checkout /\ checkout' = checkout
  BY DEF Level, Stays
<1>2. db'.post <= tags.current
  BY <1>1, Numbers, NumbersNext DEF Posts, Stays
<1>3. \A a \in archives' : a.db.post <= tags.current
  <2> TAKE a \in archives'
  <2>1. a.db.post \in Nat
    BY NumbersNext
  <2>2. CASE a.db.post <= db.post
    BY <1>1, <2>1, <2>2, Numbers DEF Posts
  <2>3. CASE \E b \in archives : a.db.post <= b.db.post
    BY <1>1, <2>1, <2>3, Numbers DEF Posts
  <2>4. QED
    BY <2>2, <2>3 DEF Stays
<1>4. QED
  BY <1>1, <1>2, <1>3 DEF Level, Posts

LEMMA CalmKept ==
  ASSUME World, World', Calm, Stays PROVE Calm'
<1>1. Level'
  BY LevelKept DEF Calm
<1>2. ~Straddling'
  BY DEF Calm, Straddling, Strays, Stays
<1>3. QED
  BY <1>1, <1>2 DEF Calm

(* The command is over, in whatever way.                                   *)
Over == cmd'.kind \in {"idle", "start"} /\ (~Off' => ~Off /\ ~Straddling')

LEMMA OverEnds == ASSUME NEW how, EndOn(how, api'.image, tags'.current) PROVE Over
<1>1. cmd'.kind = "idle"
  BY DEF EndOn, Idle
<1>2. astray' = astray \cup (IF Straddling' THEN {"straddled"} ELSE {})
  BY DEF EndOn, Straddling
<1>3. ASSUME ~Off' PROVE ~Off /\ ~Straddling'
  <2>1. ~Off
    BY <1>2, <1>3 DEF Off
  <2>2. ~Straddling'
    BY <1>2, <1>3 DEF Off
  <2>3. QED
    BY <2>1, <2>2
<1>4. QED
  BY <1>1, <1>3 DEF Over

LEMMA OverStops == ASSUME NEW how, End(how), Stays PROVE Over
<1>1. cmd'.kind = "idle"
  BY DEF End, EndOn, Idle
<1>2. astray' = astray \cup (IF Straddling THEN {"straddled"} ELSE {})
  BY DEF End, EndOn, Straddling
<1>3. Straddling' => Straddling
  BY DEF Straddling, Strays, Stays
<1>4. ASSUME ~Off' PROVE ~Off /\ ~Straddling
  <2>1. ~Off
    BY <1>2, <1>4 DEF Off
  <2>2. ~Straddling
    BY <1>2, <1>4 DEF Off
  <2>3. QED
    BY <2>1, <2>2
<1>5. QED
  BY <1>1, <1>3, <1>4 DEF Over

LEMMA OverMatched ==
  ASSUME IInv, IInv', Matched, Over, Stays PROVE Matched'
<1>1. CASE Off'
  BY <1>1 DEF Matched
<1>2. CASE ~Off'
  <2>1. ~Off /\ ~Straddling'
    BY <1>2 DEF Over
  <2>2. Calm'
    BY <2>1, CalmAnywhere, LevelKept DEF IInv, Calm
  <2>3. cmd'.kind \notin {"update", "setup", "rebuild", "reset"}
    BY DEF Over
  <2>4. QED
    BY <2>2, <2>3 DEF Matched, Moved, Replacing, Prepared
<1>3. QED
  BY <1>1, <1>2

(* The command goes on where nothing has been promoted.                    *)
LEMMA CalmMatched ==
  ASSUME IInv, IInv', Matched, ~Moved, ~Replacing, Stays, UNCHANGED astray,
         cmd'.kind = cmd.kind, ~Moved', ~Replacing', ~Off => Prepared'
  PROVE  Matched'
<1>1. ~Off => Calm'
  BY CalmKept DEF Matched, IInv
<1>2. QED
  BY <1>1, OffSame DEF Matched

(* Commands that promote nothing, now or later.                            *)
PlainKinds == (Kinds \cup {"idle"}) \ {"update", "setup", "rebuild", "reset"}

LEMMA PlainMatched ==
  ASSUME IInv, IInv', Matched, cmd.kind \in PlainKinds, Stays,
         Over \/ (UNCHANGED astray /\ cmd'.kind = cmd.kind)
  PROVE  Matched'
<1>1. CASE Over
  BY <1>1, OverMatched
<1>2. CASE UNCHANGED astray /\ cmd'.kind = cmd.kind
  BY <1>2, CalmMatched DEF PlainKinds, Moved, Replacing, Prepared
<1>3. QED
  BY <1>1, <1>2

LEMMA ApiMatched ==
  ASSUME IInv, Matched, Boot \/ Write PROVE Matched'
<1>1. World
  BY DEF IInv
<1>2. /\ UNCHANGED <<archives, tags, checkout, cmd, astray>>
      /\ api'.image = api.image /\ db'.post = db.post
  BY <1>1 DEF Boot, Write, World, Database
<1>3. (Promoted => Promoted') /\ (Refitted => Refitted') /\ (Calm => Calm') /\ (Prepared => Prepared')
  BY <1>2 DEF Promoted, Refitted, Level, Calm, Prepared, Posts, Straddling, BeforePost
<1>4. QED
  BY <1>2, <1>3, OffSame DEF Matched, Moved, Replacing

(* The calls of the plain commands.                                        *)
LEMMA Refl ==
  ASSUME World
  PROVE  db.post <= db.post /\ \A a \in archives : a.db.post <= a.db.post
  BY Numbers

LEMMA StaysSame ==
  ASSUME World, UNCHANGED <<tags, checkout, archives>>, db'.post = db.post,
         api'.image \in {api.image, tags.current, None}
  PROVE  Stays
  BY Refl DEF Stays

LEMMA OnlyApi ==
  ASSUME World, UNCHANGED <<db, archives, tags, checkout>>,
         \/ UNCHANGED api \/ ComposeStop \/ ComposeStart
         \/ (tags.current # None /\ \E recreate : ComposeUp(recreate))
  PROVE  Stays /\ (api'.image = api.image \/ api'.image = tags.current)
<1>1. api'.image = api.image \/ api'.image = tags.current
  BY DEF ComposeStop, ComposeStart, ComposeUp, World
<1>2. QED
  BY <1>1, StaysSame

LEMMA KindGoes ==
  ASSUME IInv, NEW p, Goto(p)
  PROVE  cmd'.kind = cmd.kind /\ cmd'.pc = p /\ cmd'.from = cmd.from /\ cmd'.target = cmd.target
<1>1. cmd \in Cmd
  BY DEF IInv, OfCommand, Typed
<1>2. QED
  BY <1>1 DEF Goto, Cmd

(* A failing `up' ends the command.                                        *)
LEMMA DiesMatched ==
  ASSUME IInv, IInv', Matched, DiesOfUp, UNCHANGED <<db, archives, tags, checkout>>
  PROVE  Matched'
<1>1. World
  BY DEF IInv
<1>2. PICK left \in UpLeaves(tags.current) :
        api' = left /\ EndOn("died", left.image, tags.current)
  BY DEF DiesOfUp
<1>3. api'.image \in {api.image, tags.current}
  BY <1>2 DEF UpLeaves
<1>4. Stays
  BY <1>1, <1>3, StaysSame
<1>5. EndOn("died", api'.image, tags'.current)
  BY <1>2
<1>6. QED
  BY <1>4, <1>5, OverEnds, OverMatched

LEMMA PlainCalls ==
  ASSUME IInv, IInv', Matched, StopCommand \/ (StartUp /\ cmd.kind # "setup")
  PROVE  Matched'
<1>1. World /\ cmd \in Cmd
  BY DEF IInv, OfCommand, Typed
<1>2. cmd.kind \in PlainKinds
  BY DEF StopCommand, StartUp, PlainKinds, Kinds
<1>3. CASE DiesOfUp /\ UNCHANGED <<db, archives, tags, checkout>>
  BY <1>3, DiesMatched
<1>4. CASE ~DiesOfUp
  <2>1. Stays
    BY <1>1, <1>4, OnlyApi DEF StopCommand, StartUp
  <2>2. Over \/ (UNCHANGED astray /\ cmd'.kind = cmd.kind)
    BY <1>4, <2>1, KindGoes, OverStops DEF StopCommand, StartUp, Stop, Continue
  <2>3. QED
    BY <1>2, <2>1, <2>2, PlainMatched
<1>5. QED
  BY <1>3, <1>4 DEF StopCommand, StartUp

LEMMA StartHealthMatched ==
  ASSUME IInv, IInv', Matched, StartHealth PROVE Matched'
<1>1. World /\ cmd \in Cmd
  BY DEF IInv, OfCommand, Typed
<1>2. Stays
  BY <1>1, OnlyApi DEF StartHealth
<1>3. CASE \E how : Stop(how)
  BY <1>2, <1>3, OverStops, OverMatched DEF Stop
<1>4. CASE Goto("post") /\ Continue
  <2>1. cmd'.kind = cmd.kind /\ cmd'.pc = "post" /\ cmd.kind # "update"
    BY <1>4, KindGoes DEF StartHealth
  <2>2. QED
    BY <1>2, <1>4, <2>1, CalmMatched DEF StartHealth, Continue, Moved, Replacing, Prepared
<1>5. QED
  BY <1>3, <1>4 DEF StartHealth

LEMMA MigratesStays ==
  ASSUME World, NEW phase \in {"pre", "post"}, NEW ok \in BOOLEAN,
         Migrate(phase, tags.current, ok), UNCHANGED <<archives, api, tags, checkout>>
  PROVE  Stays
<1>1. tags.current \in 0..Latest
  BY DEF World
<1>2. db'.post = db.post \/ db'.post <= db.post \/ db'.post <= tags.current
  BY <1>1, Migrates
<1>3. QED
  BY <1>2, Refl DEF Stays

LEMMA MigrationsMatched ==
  ASSUME IInv, IInv', Matched, PostMigrations \/ MigrateCommand PROVE Matched'
<1>1. World
  BY DEF IInv
<1>2. Stays
  BY <1>1, MigratesStays DEF PostMigrations, MigrateCommand
<1>3. Over
  BY <1>2, OverStops DEF PostMigrations, MigrateCommand, Stop
<1>4. QED
  BY <1>2, <1>3, OverMatched

LEMMA DownMatched ==
  ASSUME IInv, IInv', Matched, ComposeDown PROVE Matched'
<1>1. World /\ UNCHANGED <<db, archives, tags, checkout>>
  BY DEF IInv, ComposeDown
<1>2. api'.image \in {api.image, None}
  <2>1. \A left \in DownLeaves : left.image \in {api.image, None}
    BY <1>1 DEF DownLeaves, World
  <2>2. QED
    BY <2>1 DEF ComposeDown
<1>3. Stays
  BY <1>1, <1>2, StaysSame
<1>4. CASE \E how : EndOn(how, api'.image, tags'.current)
  BY <1>3, <1>4, OverEnds, OverMatched
<1>5. CASE \E how : Stop(how)
  BY <1>3, <1>5, OverStops, OverMatched DEF Stop
<1>6. CASE Goto("wipe") /\ Continue /\ cmd.kind = "reset"
  <2>1. cmd'.kind = "reset" /\ cmd'.pc = "wipe" /\ UNCHANGED astray
    BY <1>6, KindGoes DEF Continue
  <2>2. cmd.pc = "down"
    BY DEF ComposeDown
  <2>3. QED
    BY <1>3, <1>6, <2>1, <2>2, CalmMatched DEF Moved, Replacing, Prepared
<1>7. QED
  <2>1. \A left \in DownLeaves : api' = left /\ EndOn("died", left.image, tags.current)
          => EndOn("died", api'.image, tags'.current)
    BY <1>1
  <2>2. \/ \E how : Stop(how)
        \/ Goto("wipe") /\ Continue /\ cmd.kind = "reset"
        \/ \E left \in DownLeaves : api' = left /\ EndOn("died", left.image, tags.current)
    BY DEF ComposeDown
  <2>3. QED
    BY <1>4, <1>5, <1>6, <2>1, <2>2

(* A reset empties the database, and whatever tag it leaves.               *)
LEMMA ResetMatched ==
  ASSUME IInv, IInv', Matched, ResetWipe \/ ResetUntag PROVE Matched'
<1>1. World /\ cmd.kind = "reset" /\ ~Moved /\ ~Replacing
  BY DEF IInv, ResetWipe, ResetUntag, Moved, Replacing
<1>2. CASE ResetWipe /\ ~Stop("died")
  <2>1. /\ db' = Fresh /\ archives' = {} /\ UNCHANGED <<api, tags, checkout>>
        /\ astray' = astray \cup (IF api.status = "none" THEN {} ELSE {"wiped"})
        /\ Goto("untag") /\ cmd.pc = "wipe"
    BY <1>2 DEF ResetWipe
  <2>2. db'.post = 0
    BY <2>1 DEF Fresh
  <2>3. Stays
    <3>1. db'.post <= db.post
      BY <1>1, <2>2, Numbers
    <3>2. QED
      BY <2>1, <3>1 DEF Stays
  <2>4. cmd'.kind = "reset" /\ cmd'.pc = "untag"
    BY <1>1, <2>1, KindGoes
  <2>5. Posts(None)' /\ ~Moved' /\ ~Replacing'
    BY <2>1, <2>2, <2>4 DEF Posts, None, Moved, Replacing
  <2>6. Prepared'
    BY <2>4, <2>5 DEF Prepared
  <2>7. Off' <=> Off
    BY <2>1 DEF Off
  <2>8. ~Off => Calm'
    BY <1>1, <2>3, CalmKept DEF Matched, IInv
  <2>9. QED
    BY <2>5, <2>6, <2>7, <2>8 DEF Matched
<1>3. CASE ResetWipe /\ Stop("died")
  <2>1. db'.post = db.post /\ archives' \subseteq archives /\ UNCHANGED <<api, tags, checkout>>
    <3>1. db' \in {db, [db EXCEPT !.whole = FALSE]} \/ Goto("untag")
      BY <1>3 DEF ResetWipe
    <3>2. ~Goto("untag")
      BY <1>1, <1>3, KindGoes DEF Stop, End, EndOn, Idle
    <3>3. QED
      BY <1>1, <1>3, <3>1, <3>2 DEF ResetWipe, World, Database
  <2>2. Stays
    BY <1>1, <2>1, Refl DEF Stays
  <2>3. QED
    BY <1>3, <2>2, OverStops, OverMatched DEF Stop
<1>4. CASE ResetUntag
  <2>1. PICK current \in {None, tags.current}, previous \in {None, tags.previous} :
          /\ tags' = [current |-> current, previous |-> previous]
          /\ EndOn("done", api.image, current)
    BY <1>4 DEF ResetUntag
  <2>2. tags'.current = current /\ cmd.pc = "untag" /\ UNCHANGED <<db, archives, api, checkout>>
    BY <1>4, <2>1 DEF ResetUntag
  <2>3. Over
    BY <2>1, <2>2, OverEnds
  <2>4. ASSUME ~Off' PROVE Calm'
    <3>1. ~Off /\ ~Straddling'
      BY <2>3, <2>4 DEF Over
    <3>2. Posts(None) /\ Level
      BY <1>1, <2>2, <3>1, CalmAnywhere DEF Matched, Prepared
    <3>3. current <= checkout /\ Posts(current)
      BY <1>1, <3>2, Numbers DEF None, Level
    <3>4. QED
      BY <2>2, <3>1, <3>3 DEF Calm, Level, Posts
  <2>5. cmd'.kind = "idle"
    BY <2>1 DEF EndOn, Idle
  <2>6. QED
    BY <2>4, <2>5 DEF Matched, Moved, Replacing, Prepared
<1>5. QED
  BY <1>2, <1>3, <1>4

(* Rendering the configuration and rebuilding.                             *)
LEMMA RendersOn ==
  ASSUME IInv, cmd.kind \in {"render", "rebuild", "update"}, NEW image, RenderConfig(image), Stays
  PROVE  Over \/ (UNCHANGED astray /\ cmd'.kind = cmd.kind
                  /\ \/ cmd.kind = "rebuild" /\ cmd'.pc = "promote"
                     \/ cmd.kind = "update" /\ cmd' = [cmd EXCEPT !.pc = "pre"])
<1>1. CASE \E how : Stop(how)
  BY <1>1, OverStops DEF Stop
<1>2. CASE ~\E how : Stop(how)
  <2>1. CASE cmd.kind = "render"
    BY <1>2, <2>1 DEF RenderConfig
  <2>2. CASE cmd.kind = "rebuild"
    BY <1>2, <2>2, KindGoes DEF RenderConfig, Continue
  <2>3. CASE cmd.kind = "update"
    <3>1. Goto("pre") /\ Continue
      BY <1>2, <2>3 DEF RenderConfig
    <3>2. QED
      BY <2>3, <3>1, KindGoes DEF Goto, Continue
  <2>4. QED
    BY <2>1, <2>2, <2>3
<1>3. QED
  BY <1>1, <1>2

LEMMA RenderMatched ==
  ASSUME IInv, IInv', Matched, ConfigRender \/ RebuildConfig PROVE Matched'
<1>1. World /\ Stays /\ UNCHANGED <<api, checkout>>
  BY StaysSame DEF IInv, ConfigRender, RebuildConfig
<1>2. CASE Over
  BY <1>1, <1>2, OverMatched
<1>3. CASE ~Over
  <2>1. /\ UNCHANGED astray /\ cmd'.kind = "rebuild" /\ cmd'.pc = "promote"
        /\ cmd.kind = "rebuild" /\ cmd.pc = "config"
    BY <1>1, <1>3, RendersOn DEF ConfigRender, RebuildConfig
  <2>2. ~Moved /\ ~Replacing /\ ~Moved' /\ ~Replacing' /\ Prepared'
    BY <2>1 DEF Moved, Replacing, Prepared
  <2>3. QED
    BY <1>1, <2>1, <2>2, CalmMatched
<1>4. QED
  BY <1>2, <1>3

LEMMA RebuildBuildMatched ==
  ASSUME IInv, IInv', Matched, RebuildBuild PROVE Matched'
<1>1. World /\ cmd \in Cmd /\ Stays
  BY StaysSame DEF IInv, OfCommand, Typed, RebuildBuild
<1>2. CASE Stop("died")
  BY <1>1, <1>2, OverStops, OverMatched DEF Stop
<1>3. CASE ~Stop("died")
  <2>1. /\ UNCHANGED astray
        /\ cmd'.kind = "rebuild" /\ cmd'.pc = "config" /\ cmd.kind = "rebuild" /\ cmd.pc = "build"
    BY <1>1, <1>3 DEF RebuildBuild, Continue, Cmd
  <2>2. QED
    BY <1>1, <2>1, CalmMatched DEF Moved, Replacing, Prepared
<1>4. QED
  BY <1>2, <1>3

(* Moving `current' to the checkout, which is not behind any database.     *)
LEMMA MovesUp ==
  ASSUME World, Calm, tags'.current = checkout, UNCHANGED <<db, archives, api, checkout>>
  PROVE  Refitted'
<1>1. Posts(tags.current) /\ tags.current <= checkout /\ api.image \in {None, tags.current}
  BY DEF Calm, Level, Straddling, Strays
<1>2. Posts(checkout) /\ checkout <= checkout
  BY <1>1, Numbers DEF Posts
<1>3. QED
  BY <1>1, <1>2 DEF Refitted, Level, Posts

LEMMA RebuildPromoteMatched ==
  ASSUME IInv, IInv', Matched, RebuildPromote PROVE Matched'
<1>1. /\ World /\ cmd.kind = "rebuild" /\ cmd.pc = "promote" /\ ~Moved /\ ~Replacing
      /\ UNCHANGED <<db, archives, api, checkout>>
  BY DEF IInv, RebuildPromote, Moved, Replacing
<1>2. CASE UNCHANGED tags /\ Stop("died")
  BY <1>1, <1>2, StaysSame, OverStops, OverMatched DEF Stop
<1>3. CASE tags' = [tags EXCEPT !.current = checkout] /\ Goto("retag") /\ Continue
  <2>1. /\ tags'.current = checkout /\ UNCHANGED astray
        /\ cmd'.kind = "rebuild" /\ cmd'.pc = "retag"
    BY <1>1, <1>3, KindGoes DEF World, Continue
  <2>2. ~Off => Refitted'
    BY <1>1, <2>1, MovesUp DEF Matched
  <2>3. Replacing' /\ ~Moved'
    BY <2>1 DEF Replacing, Moved
  <2>4. QED
    BY <2>1, <2>2, <2>3, OffSame DEF Matched
<1>4. QED
  BY <1>2, <1>3 DEF RebuildPromote

LEMMA RebuildRetagMatched ==
  ASSUME IInv, IInv', Matched, RebuildRetag PROVE Matched'
<1>1. /\ World /\ cmd.kind = "rebuild" /\ cmd.pc = "retag" /\ Goto("recreate") /\ Continue
      /\ UNCHANGED <<db, archives, api, checkout>>
  BY DEF IInv, RebuildRetag
<1>2. tags'.current = tags.current
  BY <1>1 DEF RebuildRetag, World
<1>3. cmd'.kind = "rebuild" /\ cmd'.pc = "recreate"
  BY <1>1, KindGoes
<1>4. Replacing /\ Replacing' /\ ~Moved'
  BY <1>1, <1>3 DEF Replacing, Moved
<1>5. Refitted => Refitted'
  BY <1>1, <1>2 DEF Refitted, Level, Posts
<1>6. QED
  BY <1>1, <1>4, <1>5, OffSame DEF Matched, Continue

(* `up' succeeds: the container is of the image Compose starts.            *)
LEMMA UpMatched ==
  ASSUME IInv, IInv', Matched, Replacing, UNCHANGED <<db, archives, tags, checkout, astray>>,
         api'.image = tags.current, ~Moved', ~Replacing', Prepared'
  PROVE  Matched'
<1>1. ~Off => Calm'
  BY DEF Matched, Refitted, Calm, Level, Posts, Straddling, Strays
<1>2. QED
  BY <1>1, OffSame DEF Matched

LEMMA RebuildUpMatched ==
  ASSUME IInv, IInv', Matched, RebuildUp PROVE Matched'
<1>1. /\ World /\ cmd.kind = "rebuild" /\ cmd.pc = "recreate" /\ Replacing
      /\ UNCHANGED <<db, archives, tags, checkout>>
  BY DEF IInv, RebuildUp, Replacing
<1>2. CASE DiesOfUp
  BY <1>1, <1>2, DiesMatched
<1>3. CASE ComposeUp(TRUE) /\ Goto("health") /\ Continue
  <2>1. cmd'.kind = "rebuild" /\ cmd'.pc = "health" /\ UNCHANGED astray
    BY <1>1, <1>3, KindGoes DEF Continue
  <2>2. api'.image = tags.current
    BY <1>3 DEF ComposeUp
  <2>3. ~Moved' /\ ~Replacing' /\ Prepared'
    BY <2>1 DEF Moved, Replacing, Prepared
  <2>4. QED
    BY <1>1, <2>1, <2>2, <2>3, UpMatched
<1>4. QED
  BY <1>2, <1>3 DEF RebuildUp

(* The installer, run again on what is there.                              *)
LEMMA SetupBuildMatched ==
  ASSUME IInv, IInv', Matched, SetupBuild PROVE Matched'
<1>1. /\ World /\ cmd.kind = "setup" /\ cmd.pc = "build" /\ UNCHANGED <<db, archives, api, checkout>>
      /\ ~Moved /\ ~Replacing
  BY DEF IInv, SetupBuild, Moved, Replacing
<1>2. CASE UNCHANGED tags /\ Stop("died")
  <2>1. Stays
    BY <1>1, <1>2, StaysSame
  <2>2. QED
    BY <1>2, <2>1, OverStops, OverMatched DEF Stop
<1>3. CASE tags' = [tags EXCEPT !.current = checkout] /\ Goto("config") /\ Continue
  <2>1. tags'.current = checkout /\ UNCHANGED astray /\ cmd'.kind = "setup" /\ cmd'.pc = "config"
    BY <1>1, <1>3, KindGoes DEF World, Continue
  <2>2. ~Off => Refitted'
    BY <1>1, <2>1, MovesUp DEF Matched
  <2>3. Replacing' /\ ~Moved'
    BY <2>1 DEF Replacing, Moved
  <2>4. QED
    BY <2>1, <2>2, <2>3, OffSame DEF Matched
<1>4. QED
  BY <1>2, <1>3 DEF SetupBuild

LEMMA SetupConfigMatched ==
  ASSUME IInv, IInv', Matched, SetupConfig PROVE Matched'
<1>1. /\ World /\ Stays /\ UNCHANGED <<db, archives, api, tags, checkout>>
      /\ cmd.kind = "setup" /\ cmd.pc = "config"
  BY StaysSame DEF IInv, SetupConfig
<1>2. CASE Stop("died")
  BY <1>1, <1>2, OverStops, OverMatched DEF Stop
<1>3. CASE Goto("up") /\ Continue
  <2>1. UNCHANGED astray /\ cmd'.kind = "setup" /\ cmd'.pc = "up"
    BY <1>1, <1>3, KindGoes DEF Continue
  <2>2. ~Off => Refitted'
    BY <1>1 DEF Matched, Replacing, Refitted, Level, Posts
  <2>3. Replacing' /\ ~Moved'
    BY <2>1 DEF Replacing, Moved
  <2>4. QED
    BY <2>1, <2>2, <2>3, OffSame DEF Matched
<1>4. QED
  BY <1>2, <1>3 DEF SetupConfig

LEMMA SetupUpMatched ==
  ASSUME IInv, IInv', Matched, StartUp, cmd.kind = "setup" PROVE Matched'
<1>1. World /\ cmd.pc = "up" /\ Replacing /\ UNCHANGED <<db, archives, tags, checkout>>
  BY DEF IInv, StartUp, Replacing
<1>2. CASE UNCHANGED api /\ Stop("died")
  <2>1. Stays
    BY <1>1, <1>2, StaysSame
  <2>2. QED
    BY <1>2, <2>1, OverStops, OverMatched DEF Stop
<1>3. CASE tags.current # None /\ ComposeUp(FALSE) /\ Goto("health") /\ Continue
  <2>1. UNCHANGED astray /\ cmd'.kind = "setup" /\ cmd'.pc = "health"
    BY <1>3, KindGoes DEF Continue
  <2>2. api'.image = tags.current
    BY <1>3 DEF ComposeUp
  <2>3. ~Moved' /\ ~Replacing' /\ Prepared'
    BY <2>1 DEF Moved, Replacing, Prepared
  <2>4. QED
    BY <1>1, <2>1, <2>2, <2>3, UpMatched
<1>4. CASE DiesOfUp
  BY <1>1, <1>4, DiesMatched
<1>5. QED
  BY <1>2, <1>3, <1>4 DEF StartUp

(* Backups, alone, before a restore and at the cutover of an update.       *)
Backing == \/ QuiesceWriters \/ QuiesceFlag \/ DumpFirst \/ DumpRest
           \/ ResumeStart \/ ResumeWait \/ ApplyRetention

LEMMA BackupData ==
  ASSUME IInv, Backing
  PROVE  /\ UNCHANGED <<db, tags, checkout>> /\ api'.image = api.image
         /\ \A a \in archives' : a \in archives \/ a.db.post = db.post
         /\ cmd.kind \in {"backup", "restore", "update"} /\ cmd.pc \in BackupPcs
<1>1. World /\ cmd.pc \in BackupPcs /\ UNCHANGED <<db, tags, checkout>>
  BY DEF IInv, Backing, BackupPcs, QuiesceWriters, QuiesceFlag, DumpFirst, DumpRest, ResumeStart,
         ResumeWait, ApplyRetention
<1>2. cmd.kind \in {"backup", "restore", "update"}
  BY <1>1, InBackupFacts
<1>3. api'.image = api.image
  <2>1. UNCHANGED api \/ ComposeStop \/ ComposeStart
    BY DEF Backing, QuiesceWriters, QuiesceFlag, DumpFirst, DumpRest, ResumeStart, ResumeWait,
           ApplyRetention
  <2>2. QED
    BY <1>1, <2>1 DEF ComposeStop, ComposeStart, World
<1>4. \A a \in archives' : a \in archives \/ a.db.post = db.post
  <2>1. CASE QuiesceWriters \/ QuiesceFlag \/ DumpFirst \/ ResumeStart \/ ResumeWait
    BY <2>1 DEF QuiesceWriters, QuiesceFlag, DumpFirst, ResumeStart, ResumeWait
  <2>2. CASE DumpRest
    BY <1>1, <2>2 DEF DumpRest, World, Database
  <2>3. CASE ApplyRetention
    BY <2>3 DEF ApplyRetention, Kept
  <2>4. QED
    BY <2>1, <2>2, <2>3 DEF Backing
<1>5. QED
  BY <1>1, <1>2, <1>3, <1>4

AfterBackup == {"flag", "dump", "dump2", "resume", "resumewait", "resumefail", "retain", "post",
                "abort"}

LEMMA BackupGoes ==
  ASSUME IInv, Backing, Stays
  PROVE  \/ Over
         \/ /\ UNCHANGED astray /\ cmd'.kind = cmd.kind /\ cmd'.target = cmd.target
            /\ cmd'.from = cmd.from
            /\ cmd.kind = "update" => cmd'.pc \in AfterBackup
<1>1. cmd \in Cmd /\ cmd.kind \in {"backup", "restore", "update"}
  BY BackupData DEF IInv, OfCommand, Typed
<1>2. ASSUME NEW ok \in BOOLEAN, NEW f, BackupReturns(ok, f)
      PROVE  \/ Over
             \/ /\ UNCHANGED astray /\ cmd'.kind = cmd.kind /\ cmd'.target = cmd.target
                /\ cmd'.from = cmd.from
                /\ cmd.kind = "update" => cmd'.pc \in AfterBackup
  <2>1. CASE cmd.kind = "backup"
    BY <1>2, <2>1, OverStops DEF BackupReturns, Stop
  <2>2. CASE cmd.kind = "restore"
    BY <1>1, <1>2, <2>2, OverStops DEF BackupReturns, Stop, Continue, Cmd
  <2>3. CASE cmd.kind = "update"
    BY <1>1, <1>2, <2>3 DEF BackupReturns, Continue, Cmd, AfterBackup
  <2>4. QED
    BY <1>1, <2>1, <2>2, <2>3
<1>3. CASE QuiesceWriters
  <2>1. CASE \E p \in {"flag", "dump"} : Goto(p) /\ Continue
    BY <2>1, KindGoes DEF Continue, AfterBackup
  <2>2. CASE BackupReturns(FALSE, None)
    BY <1>2, <2>2
  <2>3. QED
    BY <1>3, <2>1, <2>2 DEF QuiesceWriters
<1>4. CASE QuiesceFlag \/ DumpFirst \/ DumpRest \/ ResumeStart \/ ResumeWait
  <2>1. UNCHANGED astray
    BY <1>4 DEF QuiesceFlag, DumpFirst, DumpRest, ResumeStart, ResumeWait, Continue
  <2>2. /\ cmd'.kind = cmd.kind /\ cmd'.target = cmd.target /\ cmd'.from = cmd.from
        /\ cmd'.pc \in AfterBackup
    BY <1>1, <1>4 DEF QuiesceFlag, DumpFirst, DumpRest, ResumeStart, ResumeWait, Goto, Cmd,
       AfterBackup
  <2>3. QED
    BY <2>1, <2>2
<1>5. CASE ApplyRetention
  BY <1>2, <1>5 DEF ApplyRetention
<1>6. QED
  BY <1>3, <1>4, <1>5 DEF Backing

(* What keeps the promise of a moved update.                               *)
LEMMA PromotedMatched ==
  ASSUME Matched, Moved, Moved', UNCHANGED <<tags, checkout, astray>>,
         cmd'.target = cmd.target, cmd'.from = cmd.from,
         Promoted => /\ \A a \in archives' : a.db.post <= cmd.from
                     /\ api'.image \in {None, cmd.from, cmd.target}
                     /\ db'.post <= IF BeforePost' THEN cmd.from ELSE cmd.target
  PROVE  Matched'
<1>1. Promoted => Promoted'
  BY DEF Promoted
<1>2. ~Replacing'
  BY DEF Moved, Replacing
<1>3. QED
  BY <1>1, <1>2, OffSame DEF Matched

LEMMA PromotedTypes ==
  ASSUME IInv
  PROVE  cmd.from \in Nat /\ cmd.target \in Nat /\ World /\ cmd \in Cmd
<1>1. World /\ cmd \in Cmd
  BY DEF IInv, OfCommand, Typed
<1>2. QED
  BY <1>1, Bounds DEF Cmd

LEMMA BackupMatched ==
  ASSUME IInv, IInv', Matched, Backing PROVE Matched'
<1>1. World
  BY DEF IInv
<1>2. Stays
  BY <1>1, BackupData, Refl DEF Stays
<1>3. CASE Over
  BY <1>2, <1>3, OverMatched
<1>4. CASE ~Over /\ cmd.kind # "update"
  <2>1. cmd.kind \in PlainKinds
    BY <1>4, BackupData DEF PlainKinds, Kinds
  <2>2. QED
    BY <1>2, <1>4, <2>1, BackupGoes, PlainMatched
<1>5. CASE ~Over /\ cmd.kind = "update"
  <2>1. /\ cmd.pc \in BackupPcs /\ cmd'.pc \in AfterBackup /\ cmd'.kind = "update"
        /\ cmd'.target = cmd.target /\ cmd'.from = cmd.from /\ UNCHANGED astray
    BY <1>2, <1>5, BackupData, BackupGoes
  <2>2. Moved /\ Moved' /\ BeforePost
    BY <1>5, <2>1 DEF Moved, BackupPcs, AfterBackup, EarlyPcs, BeforePost
  <2>3. ASSUME Promoted
        PROVE  /\ \A a \in archives' : a.db.post <= cmd.from
               /\ db'.post <= IF BeforePost' THEN cmd.from ELSE cmd.target
    BY <1>1, <2>2, <2>3, BackupData, PromotedTypes, Numbers DEF Promoted
  <2>4. QED
    BY <2>1, <2>2, <2>3, BackupData, PromotedMatched DEF Promoted
<1>6. QED
  BY <1>3, <1>4, <1>5

(* A restore: what it swaps in is an archive's.                            *)
LEMMA RestoreMatched ==
  ASSUME IInv, IInv', Matched, cmd.kind = "restore",
         RestoreStop \/ LoadTemp \/ RestoreRestart \/ RestoreHealth
  PROVE  Matched'
<1>1. World /\ cmd \in Cmd /\ cmd.kind \in PlainKinds
  BY DEF IInv, OfCommand, Typed, PlainKinds, Kinds
<1>2. Stays
  BY <1>1, OnlyApi DEF RestoreStop, LoadTemp, LoadFailed, RestoreRestart, RestoreHealth
<1>3. Over \/ (UNCHANGED astray /\ cmd'.kind = cmd.kind)
  <2>1. CASE RestoreStop \/ RestoreRestart \/ RestoreHealth
    BY <1>2, <2>1, KindGoes, OverStops
       DEF RestoreStop, RestoreRestart, RestoreHealth, Stop, Continue
  <2>2. CASE LoadTemp
    <3>1. CASE Goto("swap") /\ Continue
      BY <3>1, KindGoes DEF Continue
    <3>2. CASE LoadFailed
      BY <1>1, <3>2 DEF LoadFailed, Continue, Cmd
    <3>3. QED
      BY <2>2, <3>1, <3>2 DEF LoadTemp
  <2>3. QED
    BY <2>1, <2>2
<1>4. QED
  BY <1>1, <1>2, <1>3, PlainMatched

LEMMA SwapMatched ==
  ASSUME IInv, IInv', Matched, SwapStart \/ SwapEnd PROVE Matched'
<1>1. World
  BY DEF IInv
<1>2. db'.post = db.post \/ \E a \in archives : db'.post = a.db.post
  <2>1. CASE SwapEnd
    BY <1>1, <2>1 DEF SwapEnd, World, Database
  <2>2. CASE SwapStart
    <3>1. Source \in Ids
      BY <2>2 DEF IInv, OfCommand, Made, SwapStart
    <3>2. Archive(Source) \in archives /\ Archive(Source).db \in Database
      BY <1>1, <3>1, AnArchive DEF World
    <3>3. QED
      BY <2>2, <3>2 DEF SwapStart, Database
  <2>3. QED
    BY <2>1, <2>2
<1>3. UNCHANGED <<archives, api, tags, checkout>> /\ cmd.kind \in {"restore", "update"}
  BY DEF SwapStart, SwapEnd, IInv, OfCommand, Typed, LoadPcs
<1>4. Stays
  <2>1. \/ db'.post = db.post /\ db.post <= db.post
        \/ \E a \in archives : db'.post = a.db.post /\ a.db.post <= a.db.post
    BY <1>1, <1>2, Refl
  <2>2. QED
    BY <1>1, <1>3, <2>1, Refl DEF Stays
<1>5. \/ Over
      \/ /\ UNCHANGED astray /\ cmd'.kind = cmd.kind /\ cmd'.target = cmd.target
         /\ cmd'.from = cmd.from
         /\ SwapStart => cmd'.pc = "rename"
         /\ SwapEnd => \/ cmd.kind = "restore"
                       \/ cmd'.pc = "rollback" /\ cmd.pc = "rename"
  BY <1>4, OverStops, PromotedTypes
     DEF SwapStart, SwapEnd, SwapFailed, Goto, Stop, Continue, Cmd
<1>6. CASE Over
  BY <1>4, <1>6, OverMatched
<1>7. CASE ~Over /\ cmd.kind = "restore"
  BY <1>4, <1>5, <1>7, PlainMatched DEF PlainKinds, Kinds
<1>8. CASE ~Over /\ cmd.kind = "update"
  <2>1. /\ cmd.pc \in {"swap", "rename"} /\ cmd'.pc \in {"rename", "rollback"} /\ cmd'.kind = "update"
        /\ cmd.pc = "swap" => SwapStart
    BY <1>5, <1>8 DEF SwapStart, SwapEnd
  <2>2. Moved /\ Moved' /\ BeforePost' /\ (cmd.pc = "rename" => BeforePost)
    BY <1>8, <2>1 DEF Moved, EarlyPcs, BeforePost
  <2>3. cmd.pc = "swap" => \E a \in archives : db'.post = a.db.post
    <3>1. ASSUME SwapStart PROVE \E a \in archives : db'.post = a.db.post
      <4>1. Source \in Ids
        BY <3>1 DEF IInv, OfCommand, Made, SwapStart
      <4>2. Archive(Source) \in archives /\ Archive(Source).db \in Database
        BY <1>1, <4>1, AnArchive DEF World
      <4>3. QED
        BY <3>1, <4>2 DEF SwapStart, Database
    <3>2. QED
      BY <2>1, <3>1
  <2>4. Promoted => db'.post <= cmd.from
    BY <1>2, <2>1, <2>2, <2>3 DEF Promoted
  <2>5. QED
    BY <1>3, <1>5, <1>8, <2>1, <2>2, <2>4, PromotedMatched DEF Promoted
<1>9. QED
  BY <1>3, <1>6, <1>7, <1>8

(* An update, up to its promotion.                                         *)
LEMMA CalmDeploys ==
  ASSUME World, Calm
  PROVE  Deployed = tags.current /\ api.image \in {None, tags.current}
  BY DEF World, Calm, Straddling, Strays, Deployed

LEMMA GateMatched ==
  ASSUME IInv, IInv', Matched, UpdateGate PROVE Matched'
<1> DEFINE stable == cmd.target = None
           target == IF stable THEN Latest ELSE cmd.target
           from == IF Deployed = None THEN checkout ELSE Deployed
           go == target > from \/ (target = from /\ (~stable \/ Deployed = None))
<1>1. /\ World /\ cmd \in Cmd /\ target \in Nat /\ cmd.kind = "update" /\ cmd.pc = "gate"
      /\ ~Moved /\ ~Replacing /\ UNCHANGED <<db, archives, api, tags>>
  BY PromotedTypes, Bounds DEF UpdateGate, Moved, Replacing, EarlyPcs
<1>2. CASE go
  <2>1. /\ cmd' = [cmd EXCEPT !.pc = "checkout", !.target = target]
        /\ UNCHANGED <<checkout, astray>>
    BY <1>2 DEF UpdateGate, Continue
  <2>2. cmd'.kind = "update" /\ cmd'.pc = "checkout" /\ cmd'.target = target
    BY <1>1, <2>1 DEF Cmd
  <2>3. ~Off => tags.current <= target
    <3>1. ~Off => Deployed = tags.current
      BY <1>1, CalmDeploys DEF Matched
    <3>2. tags.current \in Nat /\ checkout \in Nat
      BY <1>1, Numbers
    <3>3. CASE Deployed = None
      BY <1>1, <3>1, <3>2, <3>3 DEF None
    <3>4. CASE Deployed # None
      BY <1>1, <1>2, <3>1, <3>2, <3>4
    <3>5. QED
      BY <3>3, <3>4
  <2>4. ~Moved' /\ ~Replacing' /\ Stays
    BY <1>1, <2>1, <2>2, StaysSame DEF Moved, Replacing, EarlyPcs
  <2>5. ~Off => Prepared'
    BY <1>1, <2>2, <2>3 DEF Prepared
  <2>6. QED
    BY <1>1, <2>1, <2>2, <2>4, <2>5, CalmMatched
<1>3. CASE ~go
  <2>1. checkout' \in ({Deployed} \ {None}) \cup {checkout} /\ End("refused")
    BY <1>3 DEF UpdateGate, Stop
  <2>2. Over
    BY <1>1, <2>1, OverEnds DEF End
  <2>3. ASSUME ~Off' PROVE Calm'
    <3>1. ~Off /\ ~Straddling'
      BY <2>2, <2>3 DEF Over
    <3>2. Calm /\ Deployed = tags.current
      BY <1>1, <3>1, CalmDeploys DEF Matched
    <3>3. tags.current <= checkout'
      BY <1>1, <2>1, <3>2, Numbers DEF Calm, Level
    <3>4. QED
      BY <1>1, <3>1, <3>2, <3>3 DEF Calm, Level, Posts
  <2>4. cmd'.kind = "idle"
    BY <2>1 DEF End, EndOn, Idle
  <2>5. QED
    BY <2>3, <2>4 DEF Matched, Moved, Replacing, Prepared
<1>4. QED
  BY <1>2, <1>3

LEMMA CheckoutMatched ==
  ASSUME IInv, IInv', Matched, UpdateCheckout PROVE Matched'
<1>1. /\ World /\ cmd.kind = "update" /\ cmd.pc = "checkout"
      /\ ~Moved /\ ~Replacing /\ UNCHANGED <<db, archives, api, tags>>
  BY PromotedTypes DEF UpdateCheckout, Moved, Replacing, EarlyPcs
<1>2. CASE UNCHANGED checkout /\ Stop("died")
  BY <1>1, <1>2, StaysSame, OverStops, OverMatched DEF Stop
<1>3. CASE checkout' = cmd.target /\ Goto("build") /\ Continue
  <2>1. /\ cmd'.kind = "update" /\ cmd'.pc = "build" /\ cmd'.target = cmd.target
        /\ UNCHANGED astray
    BY <1>1, <1>3, KindGoes DEF Continue
  <2>2. ~Off => Calm' /\ Prepared'
    BY <1>1, <1>3, <2>1 DEF Matched, Prepared, Calm, Level, Posts, Straddling
  <2>3. QED
    BY <2>1, <2>2, OffSame DEF Matched, Moved, Replacing, EarlyPcs
<1>4. QED
  BY <1>2, <1>3 DEF UpdateCheckout

LEMMA BuildMatched ==
  ASSUME IInv, IInv', Matched, UpdateBuild PROVE Matched'
<1>1. /\ World /\ cmd \in Cmd /\ cmd.kind = "update" /\ cmd.pc = "build"
      /\ ~Moved /\ ~Replacing /\ UNCHANGED <<db, archives, api, checkout>>
  BY PromotedTypes DEF UpdateBuild, Moved, Replacing, EarlyPcs
<1>2. CASE UNCHANGED tags /\ Stop("died")
  BY <1>1, <1>2, StaysSame, OverStops, OverMatched DEF Stop
<1>3. CASE ~(UNCHANGED tags /\ Stop("died"))
  <2>1. PICK previous \in ({Deployed, tags.current} \ {None}) \cup {tags.previous} :
          /\ tags' = [tags EXCEPT !.previous = previous]
          /\ cmd' = [cmd EXCEPT !.pc = "config", !.from = Deployed, !.cfg = config.rendered,
                                !.slips = IF previous = Deployed THEN {} ELSE {"previous"}]
          /\ astray' = astray \cup (IF previous = Deployed THEN {} ELSE {"untagged"})
    BY <1>3 DEF UpdateBuild
  <2>2. /\ cmd'.kind = "update" /\ cmd'.pc = "config" /\ cmd'.target = cmd.target
        /\ cmd'.from = Deployed
    BY <1>1, <2>1 DEF Cmd
  <2>3. tags'.current = tags.current /\ tags'.previous = previous
    BY <1>1, <2>1 DEF World
  <2>4. ASSUME ~Off' PROVE Calm' /\ Prepared'
    <3>1. ~Off /\ previous = Deployed
      BY <2>1, <2>4 DEF Off
    <3>2. Calm /\ Prepared /\ Deployed = tags.current
      BY <1>1, <3>1, CalmDeploys DEF Matched
    <3>3. tags.current <= cmd.target /\ checkout = cmd.target
      BY <1>1, <3>2 DEF Prepared
    <3>4. Prepared'
      BY <1>1, <2>2, <2>3, <3>1, <3>2, <3>3 DEF Prepared
    <3>5. Calm'
      BY <1>1, <2>3, <3>2 DEF Calm, Level, Posts, Straddling
    <3>6. QED
      BY <3>4, <3>5
  <2>5. QED
    BY <2>2, <2>4 DEF Matched, Moved, Replacing, EarlyPcs
<1>4. QED
  BY <1>2, <1>3

LEMMA PrepareMatched ==
  ASSUME IInv, IInv', Matched, UpdateConfig \/ UpdatePre PROVE Matched'
<1>1. /\ World /\ cmd.kind = "update" /\ cmd.pc \in {"config", "pre"}
      /\ ~Moved /\ ~Replacing /\ UNCHANGED <<archives, api, tags, checkout>>
  BY PromotedTypes DEF UpdateConfig, UpdatePre, Moved, Replacing, EarlyPcs
<1>2. db'.post = db.post
  <2>1. CASE UpdateConfig
    BY <2>1 DEF UpdateConfig
  <2>2. CASE UpdatePre
    <3>1. cmd.target \in 0..Latest
      BY <1>1, UpdateFacts
    <3>2. PICK ok \in BOOLEAN : Migrate("pre", cmd.target, ok)
      BY <2>2 DEF UpdatePre
    <3>3. QED
      BY <1>1, <3>1, <3>2, Migrates
  <2>3. QED
    BY <2>1, <2>2
<1>3. Stays
  BY <1>1, <1>2, StaysSame
<1>4. \/ Over
      \/ /\ cmd'.kind = "update" /\ cmd'.pc \in {"pre", "promote"} /\ cmd'.target = cmd.target
         /\ cmd'.from = cmd.from /\ UNCHANGED astray
  <2>1. CASE UpdateConfig
    <3>1. Over \/ (UNCHANGED astray /\ cmd' = [cmd EXCEPT !.pc = "pre"])
      BY <1>1, <1>3, <2>1, RendersOn DEF UpdateConfig
    <3>2. QED
      BY <1>1, <3>1, PromotedTypes DEF Cmd
  <2>2. CASE UpdatePre
    BY <1>1, <1>3, <2>2, OverStops, KindGoes DEF UpdatePre, Stop, Continue
  <2>3. QED
    BY <2>1, <2>2
<1>5. CASE Over
  BY <1>3, <1>5, OverMatched
<1>6. CASE ~Over
  <2>1. ~Moved' /\ ~Replacing'
    BY <1>4, <1>6 DEF Moved, Replacing, EarlyPcs
  <2>2. ~Off => Prepared'
    BY <1>1, <1>4, <1>6 DEF Matched, Prepared
  <2>3. QED
    BY <1>1, <1>3, <1>4, <1>6, <2>1, <2>2, CalmMatched
<1>7. QED
  BY <1>5, <1>6

LEMMA PromoteMatched ==
  ASSUME IInv, IInv', Matched, UpdatePromote PROVE Matched'
<1>1. /\ World /\ cmd.kind = "update" /\ cmd.pc = "promote"
      /\ ~Moved /\ ~Replacing /\ UNCHANGED <<db, archives, api, checkout>>
  BY PromotedTypes DEF UpdatePromote, Moved, Replacing, EarlyPcs
<1>2. CASE UNCHANGED tags /\ Stop("died")
  BY <1>1, <1>2, StaysSame, OverStops, OverMatched DEF Stop
<1>3. CASE tags' = [tags EXCEPT !.current = cmd.target] /\ Goto("cutover") /\ Continue
  <2>1. /\ cmd'.kind = "update" /\ cmd'.pc = "cutover" /\ cmd'.target = cmd.target
        /\ cmd'.from = cmd.from /\ UNCHANGED astray
    BY <1>1, <1>3, KindGoes DEF Continue
  <2>2. tags'.current = cmd.target /\ tags'.previous = tags.previous
    BY <1>1, <1>3 DEF World
  <2>3. ASSUME ~Off PROVE Promoted'
    <3>1. Calm /\ cmd.from = tags.current /\ tags.current <= cmd.target /\ checkout = cmd.target
          /\ tags.previous = cmd.from
      BY <1>1, <2>3 DEF Matched, Prepared
    <3>2. api.image \in {None, cmd.from} /\ db.post <= cmd.from /\ cmd.target <= checkout
          /\ \A a \in archives : a.db.post <= cmd.from
      BY <1>1, <3>1, CalmDeploys, PromotedTypes, Numbers DEF Calm, Level, Posts
    <3>3. BeforePost'
      BY <2>1 DEF BeforePost
    <3>4. QED
      BY <1>1, <2>1, <2>2, <3>1, <3>2, <3>3 DEF Promoted
  <2>4. Moved' /\ ~Replacing'
    BY <2>1 DEF Moved, Replacing, EarlyPcs
  <2>5. QED
    BY <2>1, <2>3, <2>4, OffSame DEF Matched
<1>4. QED
  BY <1>2, <1>3 DEF UpdatePromote

(* An update, from its cutover on.                                         *)
UpdateOn(p) ==
  /\ UNCHANGED astray /\ cmd'.kind = "update" /\ cmd'.target = cmd.target
  /\ cmd'.from = cmd.from /\ cmd'.pc = p

LEMMA Onward ==
  ASSUME IInv, cmd.kind = "update", Continue, NEW p, Goto(p) PROVE UpdateOn(p)
  BY KindGoes DEF Continue, UpdateOn

LEMMA CutoverMatched ==
  ASSUME IInv, IInv', Matched, UpdateStop \/ UpdateAbort PROVE Matched'
<1>1. /\ World /\ cmd.kind = "update" /\ UNCHANGED <<db, archives, tags, checkout>>
  BY PromotedTypes DEF UpdateStop, UpdateAbort
<1>2. Stays /\ api'.image = api.image
  <2>1. UNCHANGED api \/ ComposeStop \/ ComposeStart
    BY DEF UpdateStop, UpdateAbort, Cutover
  <2>2. QED
    BY <1>1, <2>1, OnlyApi DEF ComposeStop, ComposeStart, World
<1>3. CASE Stop("died")
  BY <1>2, <1>3, OverStops, OverMatched DEF Stop
<1>4. CASE UpdateStop /\ Goto("quiesce") /\ Continue
  <2>1. UpdateOn("quiesce") /\ cmd.pc = "cutover"
    BY <1>1, <1>4, Onward DEF UpdateStop
  <2>2. Moved /\ Moved' /\ BeforePost /\ BeforePost'
    BY <1>1, <2>1 DEF Moved, UpdateOn, EarlyPcs, BeforePost
  <2>3. QED
    BY <1>1, <1>2, <2>1, <2>2, PromotedMatched DEF Promoted, UpdateOn
<1>5. QED
  BY <1>3, <1>4 DEF UpdateStop, UpdateAbort

LEMMA PostMatched ==
  ASSUME IInv, IInv', Matched, UpdatePost PROVE Matched'
<1>1. /\ World /\ cmd.kind = "update" /\ cmd.pc \in {"post", "retry"}
      /\ UNCHANGED <<archives, api, tags, checkout>>
  BY DEF UpdatePost, IInv
<1>2. PICK p \in {"swapup", "retry", "recover"} : UpdateOn(p)
  <2>1. PICK p \in {"swapup", "retry", "recover"} : Goto(p)
    BY DEF UpdatePost
  <2>2. QED
    BY <1>1, <2>1, Onward DEF UpdatePost
<1>3. db'.post <= db.post \/ db'.post <= cmd.target
  <2>1. cmd.target \in 0..Latest
    BY <1>1, UpdateFacts
  <2>2. PICK ok \in BOOLEAN : Migrate("post", cmd.target, ok)
    BY DEF UpdatePost
  <2>3. QED
    BY <1>1, <2>1, <2>2, Migrates
<1>4. Moved /\ Moved' /\ ~BeforePost /\ ~BeforePost'
  BY <1>1, <1>2 DEF Moved, UpdateOn, EarlyPcs, BeforePost
<1>5. Promoted => db'.post <= cmd.target
  <2>1. db'.post \in Nat /\ db.post \in Nat /\ cmd.target \in Nat
    BY <1>1, Numbers, NumbersNext, PromotedTypes DEF IInv
  <2>2. QED
    BY <1>3, <1>4, <2>1 DEF Promoted
<1>6. QED
  BY <1>1, <1>2, <1>4, <1>5, PromotedMatched DEF Promoted, UpdateOn

(* The container is recreated from the new image.                          *)
LEMMA SwapUpMatched ==
  ASSUME IInv, IInv', Matched, UpdateSwapUp PROVE Matched'
<1>1. /\ World /\ cmd.kind = "update" /\ cmd.pc = "swapup"
      /\ UNCHANGED <<db, archives, tags, checkout>>
  BY PromotedTypes DEF UpdateSwapUp
<1>2. CASE DiesOfUp
  BY <1>1, <1>2, DiesMatched
<1>3. CASE ~DiesOfUp
  <2>1. api'.image = tags.current /\ UpdateOn("uhealth")
    <3>1. ComposeUp(TRUE) /\ cmd' = [cmd EXCEPT !.pc = "uhealth", !.started = TRUE] /\ Continue
      BY <1>3 DEF UpdateSwapUp
    <3>2. api'.image = tags.current
      BY <3>1 DEF ComposeUp
    <3>3. UpdateOn("uhealth")
      BY <1>1, <3>1, PromotedTypes DEF UpdateOn, Continue, Cmd
    <3>4. QED
      BY <3>2, <3>3
  <2>2. Moved /\ Moved' /\ ~BeforePost /\ ~BeforePost'
    BY <1>1, <2>1 DEF Moved, UpdateOn, EarlyPcs, BeforePost
  <2>3. QED
    BY <1>1, <2>1, <2>2, PromotedMatched DEF Promoted, UpdateOn
<1>4. QED
  BY <1>2, <1>3

LEMMA UpdateHealthMatched ==
  ASSUME IInv, IInv', Matched, UpdateHealth PROVE Matched'
<1>1. /\ World /\ cmd.kind = "update" /\ cmd.pc = "uhealth"
      /\ UNCHANGED <<db, archives, tags, checkout>>
  BY PromotedTypes DEF UpdateHealth
<1>2. CASE Stop("updated") /\ UNCHANGED api
  BY <1>1, <1>2, StaysSame, OverStops, OverMatched DEF Stop
<1>3. CASE (ComposeStop \/ UNCHANGED api) /\ Goto("recover") /\ Continue
  <2>1. api'.image = api.image /\ UpdateOn("recover")
    BY <1>1, <1>3, Onward, Compose
  <2>2. Moved /\ Moved' /\ ~BeforePost /\ ~BeforePost'
    BY <1>1, <2>1 DEF Moved, UpdateOn, EarlyPcs, BeforePost
  <2>3. QED
    BY <1>1, <2>1, <2>2, PromotedMatched DEF Promoted, UpdateOn
<1>4. QED
  BY <1>2, <1>3 DEF UpdateHealth

(* The automatic restore.                                                  *)
LEMMA RecoverMatched ==
  ASSUME IInv, IInv', Matched, cmd.kind = "update", UpdateRecover \/ LoadTemp PROVE Matched'
<1>1. World /\ UNCHANGED <<db, archives, tags, checkout>>
  BY DEF IInv, UpdateRecover, LoadTemp
<1>2. Stays /\ api'.image = api.image
  <2>1. UNCHANGED api \/ ComposeStop \/ ComposeStart
    BY DEF UpdateRecover, LoadTemp, LoadFailed
  <2>2. QED
    BY <1>1, <2>1, OnlyApi DEF ComposeStop, ComposeStart, World
<1>3. CASE Stop("died")
  BY <1>2, <1>3, OverStops, OverMatched DEF Stop
<1>4. CASE ~Stop("died")
  <2>1. cmd.pc \in {"recover", "load"} /\ \E p \in {"load", "swap"} : UpdateOn(p)
    BY <1>4, Onward DEF UpdateRecover, LoadTemp, LoadFailed
  <2>2. PICK p \in {"load", "swap"} : UpdateOn(p)
    BY <2>1
  <2>3. Moved /\ Moved' /\ ~BeforePost /\ ~BeforePost'
    BY <2>1, <2>2 DEF Moved, UpdateOn, EarlyPcs, BeforePost
  <2>4. QED
    BY <1>1, <1>2, <2>2, <2>3, PromotedMatched DEF Promoted, UpdateOn
<1>5. QED
  BY <1>3, <1>4

(* The rollback: configuration, then image, on the database put back.      *)
LEMMA RollbackConfigMatched ==
  ASSUME IInv, IInv', Matched, RollbackConfig PROVE Matched'
<1>1. /\ World /\ cmd.kind = "update" /\ cmd.pc = "rollback"
      /\ UNCHANGED <<db, archives, tags, checkout>>
      /\ Continue
  BY PromotedTypes DEF RollbackConfig
<1>2. UpdateOn("rollbacktag")
  <2>1. CASE Goto("rollbacktag")
    BY <1>1, <2>1, Onward
  <2>2. CASE Slip("rollbacktag", {"config"})
    BY <1>1, <2>2, PromotedTypes DEF Slip, Cmd, UpdateOn, Continue
  <2>3. QED
    BY <2>1, <2>2 DEF RollbackConfig
<1>3. api'.image = api.image
  BY <1>1, Compose DEF RollbackConfig
<1>4. Moved /\ Moved' /\ BeforePost /\ BeforePost'
  BY <1>1, <1>2 DEF Moved, UpdateOn, EarlyPcs, BeforePost
<1>5. QED
  BY <1>1, <1>2, <1>3, <1>4, PromotedMatched DEF Promoted, UpdateOn

LEMMA RollbackImageMatched ==
  ASSUME IInv, IInv', Matched, RollbackImage PROVE Matched'
<1>1. /\ World /\ cmd \in Cmd /\ cmd.kind = "update" /\ cmd.pc = "rollbacktag"
      /\ UNCHANGED <<db, archives, checkout>> /\ Moved /\ BeforePost
  BY PromotedTypes DEF RollbackImage, Moved, EarlyPcs, BeforePost
<1>2. CASE tags.previous = None
  <2>1. UNCHANGED <<api, tags>> /\ Stop("rollback_failed")
    BY <1>2 DEF RollbackImage
  <2>2. QED
    BY <1>1, <2>1, StaysSame, OverStops, OverMatched DEF Stop
<1>3. CASE tags.previous # None
  <2>1. PICK image \in {tags.previous, tags.current}, what \in SUBSET Slips :
          /\ tags' = [tags EXCEPT !.current = image]
          /\ api'.image \in {api.image, image}
          /\ Slip("rollbackhealth", what)
    <3>1. PICK tagged \in BOOLEAN, up \in BOOLEAN :
            LET image == IF tagged THEN RolledBackTo ELSE tags.current
            IN /\ tags' = [tags EXCEPT !.current = image]
               /\ IF up THEN api' = [image |-> image, status |-> "starting"]
                        ELSE api' \in UpLeaves(image)
               /\ Slip("rollbackhealth", (IF tagged THEN {} ELSE {"tag"})
                                         \cup (IF up THEN {} ELSE {"up"}))
      BY <1>3 DEF RollbackImage
    <3> DEFINE image == IF tagged THEN RolledBackTo ELSE tags.current
               what == (IF tagged THEN {} ELSE {"tag"}) \cup (IF up THEN {} ELSE {"up"})
    <3>2. image \in {tags.previous, tags.current} /\ what \in SUBSET Slips
      BY DEF RolledBackTo, Slips
    <3>3. tags' = [tags EXCEPT !.current = image] /\ Slip("rollbackhealth", what)
      BY <3>1
    <3>4. api'.image \in {api.image, image}
      BY <3>1 DEF UpLeaves
    <3> HIDE DEF image, what
    <3>5. QED
      BY <3>2, <3>3, <3>4
  <2>2. cmd'.kind = "update" /\ cmd'.pc = "rollbackhealth" /\ tags'.current = image
        /\ UNCHANGED astray
    <3>1. UNCHANGED astray
      BY <1>3 DEF RollbackImage, Continue
    <3>2. QED
      BY <1>1, <2>1, <3>1 DEF Slip, Cmd, World
  <2>3. ASSUME ~Off PROVE Refitted'
    <3>1. Promoted
      BY <1>1, <2>3 DEF Matched
    <3>2. image \in {cmd.from, cmd.target} /\ api'.image \in {None, cmd.from, cmd.target}
      BY <2>1, <3>1 DEF Promoted
    <3>3. Posts(cmd.from) /\ cmd.from <= cmd.target /\ cmd.target <= checkout
      BY <1>1, <3>1 DEF Promoted, Posts
    <3>4. Posts(cmd.target) /\ cmd.from <= checkout
      BY <1>1, <3>3, PromotedTypes, Numbers DEF Posts
    <3>5. QED
      BY <1>1, <2>2, <3>2, <3>3, <3>4 DEF Refitted, Level, Posts
  <2>4. Replacing' /\ ~Moved'
    BY <2>2 DEF Moved, Replacing
  <2>5. QED
    BY <2>2, <2>3, <2>4, OffSame DEF Matched
<1>4. QED
  BY <1>2, <1>3

LEMMA RollbackHealthMatched ==
  ASSUME IInv, IInv', Matched, RollbackHealth PROVE Matched'
<1>1. World /\ Stays
  BY StaysSame DEF IInv, RollbackHealth
<1>2. QED
  BY <1>1, OverStops, OverMatched DEF RollbackHealth, Stop

(* A command begins, or is cut off.                                        *)
LEMMA IssueMatched ==
  ASSUME IInv, IInv', Matched, NEW kind \in Commands, Issue(kind) PROVE Matched'
<1>1. /\ World /\ cmd.kind = "idle" /\ UNCHANGED <<db, archives, api, tags, checkout, astray>>
      /\ ~Moved /\ ~Replacing /\ kind \in Kinds
  BY CommandsAssumption DEF IInv, Issue, Moved, Replacing
<1>2. cmd'.kind = kind /\ cmd'.pc = FirstPc(kind)
  BY DEF Issue, Idle
<1>3. /\ kind = "update" => cmd'.pc = "gate"
      /\ kind \in {"setup", "rebuild"} => cmd'.pc = "build"
      /\ kind = "reset" => cmd'.pc = "down"
  BY <1>2 DEF FirstPc
<1>4. ~Moved' /\ ~Replacing' /\ Prepared'
  BY <1>2, <1>3 DEF Moved, Replacing, Prepared, EarlyPcs
<1>5. Calm => Calm'
  BY <1>1 DEF Calm, Level, Posts, Straddling
<1>6. QED
  BY <1>1, <1>4, <1>5, OffSame DEF Matched

LEMMA CutMatched ==
  ASSUME IInv, IInv', Matched, Interrupt \/ PowerLoss PROVE Matched'
<1>1. /\ World /\ UNCHANGED <<db, tags, checkout>> /\ archives' = Truncated
  BY DEF IInv, Interrupt, PowerLoss
<1>2. api'.image = api.image
  BY <1>1 DEF Interrupt, PowerLoss, ComposeStart, World
<1>3. \A a \in archives' : a.db.post = 0 \/ a \in archives
  BY <1>1 DEF Truncated, Fresh
<1>4. Stays
  <2>1. \A a \in archives' : a.db.post <= db.post \/ \E b \in archives : a.db.post <= b.db.post
    BY <1>1, <1>3, Numbers
  <2>2. QED
    BY <1>1, <1>2, <2>1, Refl DEF Stays
<1>5. Over
  <2>1. CASE Interrupt
    BY <1>4, <2>1, OverStops DEF Interrupt
  <2>2. CASE PowerLoss
    <3>1. cmd'.kind = "start"
      BY <2>2 DEF PowerLoss, Idle
    <3>2. astray' = astray \cup (IF Straddling THEN {"straddled"} ELSE {})
      BY <2>2 DEF PowerLoss
    <3>3. Straddling' => Straddling
      BY <1>4 DEF Straddling, Strays, Stays
    <3>4. ASSUME ~Off' PROVE ~Off /\ ~Straddling
      BY <3>2, <3>4 DEF Off
    <3>5. QED
      BY <3>1, <3>3, <3>4 DEF Over
  <2>3. QED
    BY <2>1, <2>2
<1>6. QED
  BY <1>4, <1>5, OverMatched

LEMMA StepMatched == ASSUME IInv, IInv', Matched, Step PROVE Matched'
<1>1. CASE \/ StopCommand \/ StartUp \/ StartHealth \/ PostMigrations \/ MigrateCommand
           \/ ComposeDown \/ ResetWipe \/ ResetUntag
  <2>1. CASE StartUp \/ StopCommand
    <3>1. CASE StartUp /\ cmd.kind = "setup"
      BY <3>1, SetupUpMatched
    <3>2. CASE StopCommand \/ (StartUp /\ cmd.kind # "setup")
      BY <3>2, PlainCalls
    <3>3. QED
      BY <2>1, <3>1, <3>2
  <2>2. CASE StartHealth
    BY <2>2, StartHealthMatched
  <2>3. CASE PostMigrations \/ MigrateCommand
    BY <2>3, MigrationsMatched
  <2>4. CASE ComposeDown \/ ResetWipe \/ ResetUntag
    BY <2>4, DownMatched, ResetMatched
  <2>5. QED
    BY <1>1, <2>1, <2>2, <2>3, <2>4
<1>2. CASE \/ ConfigRender \/ RebuildBuild \/ RebuildConfig \/ RebuildPromote \/ RebuildRetag
           \/ RebuildUp \/ SetupBuild \/ SetupConfig
  BY <1>2, RenderMatched, RebuildBuildMatched, RebuildPromoteMatched, RebuildRetagMatched,
     RebuildUpMatched, SetupBuildMatched, SetupConfigMatched
<1>3. CASE \/ QuiesceWriters \/ QuiesceFlag \/ DumpFirst \/ DumpRest
           \/ ResumeStart \/ ResumeWait \/ ApplyRetention
  BY <1>3, BackupMatched DEF Backing
<1>4. CASE \/ RestoreStop \/ LoadTemp \/ SwapStart \/ SwapEnd \/ RestoreRestart \/ RestoreHealth
  <2>1. CASE SwapStart \/ SwapEnd
    BY <2>1, SwapMatched
  <2>2. CASE RestoreStop \/ RestoreRestart \/ RestoreHealth
    BY <2>2, RestoreMatched DEF RestoreStop, RestoreRestart, RestoreHealth
  <2>3. CASE LoadTemp
    <3>1. cmd.kind \in {"restore", "update"}
      BY <2>3 DEF LoadTemp, IInv, OfCommand, Typed, LoadPcs
    <3>2. QED
      BY <2>3, <3>1, RestoreMatched, RecoverMatched
  <2>4. QED
    BY <1>4, <2>1, <2>2, <2>3
<1>5. CASE \/ UpdateGate \/ UpdateCheckout \/ UpdateBuild \/ UpdateConfig \/ UpdatePre
           \/ UpdatePromote
           \/ UpdateStop \/ UpdateAbort \/ UpdatePost \/ UpdateSwapUp \/ UpdateHealth
  BY <1>5, GateMatched, CheckoutMatched, BuildMatched, PrepareMatched, PromoteMatched,
     CutoverMatched, PostMatched, SwapUpMatched, UpdateHealthMatched
<1>6. CASE UpdateRecover \/ RollbackConfig \/ RollbackImage \/ RollbackHealth
  <2>1. UpdateRecover => cmd.kind = "update"
    BY DEF UpdateRecover
  <2>2. QED
    BY <1>6, <2>1, RecoverMatched, RollbackConfigMatched, RollbackImageMatched, RollbackHealthMatched
<1>7. QED
  BY <1>1, <1>2, <1>3, <1>4, <1>5, <1>6 DEF Step

LEMMA NextMatched == ASSUME IInv, IInv', Matched, [Next]_vars PROVE Matched'
<1>1. CASE UNCHANGED vars
  <2>1. UNCHANGED <<db, archives, api, tags, checkout, cmd, astray>>
    BY <1>1 DEF vars
  <2>2. /\ (Promoted => Promoted') /\ (Refitted => Refitted') /\ (Calm => Calm')
        /\ (Prepared => Prepared')
    BY <2>1 DEF Promoted, Refitted, Calm, Level, Prepared, Posts, Straddling, BeforePost
  <2>3. QED
    BY <2>1, <2>2, OffSame DEF Matched, Moved, Replacing
<1>2. CASE Next
  BY <1>2, ApiMatched, StepMatched, IssueMatched, CutMatched DEF Next
<1>3. QED
  BY <1>1, <1>2

LEMMA InitMatched == Init => Matched
<1> SUFFICES ASSUME Init PROVE Matched
  OBVIOUS
<1>1. /\ db.post = 1 /\ archives = {} /\ api.image = 1 /\ tags.current = 1 /\ checkout = 1
      /\ cmd.kind = "idle"
  BY DEF Init, Idle
<1>2. Calm
  BY <1>1 DEF Calm, Level, Posts, Straddling, Strays
<1>3. QED
  BY <1>1, <1>2 DEF Matched, Moved, Replacing, Prepared

LEMMA MatchedFits == ASSUME IInv, Matched PROVE SchemaFits
<1> SUFFICES ASSUME Serving, ~Off PROVE ~(db.post > api.image)
  BY DEF SchemaFits, Off
<1>1. World /\ cmd.from \in Nat /\ cmd.target \in Nat /\ Running /\ api.image # None
  BY PromotedTypes DEF Serving, Running, World
<1>2. CASE Moved
  <2>1. Promoted /\ cmd.kind = "update"
    BY <1>2 DEF Matched, Moved
  <2>2. CASE BeforePost
    <3>1. db.post <= cmd.from
      BY <2>1, <2>2 DEF Promoted
    <3>2. QED
      BY <1>1, <2>1, <3>1, Numbers DEF Promoted
  <2>3. CASE ~BeforePost
    <3>1. cmd.pc \in {"uhealth", "recover", "load", "swap"}
      BY <1>1, <2>1, <2>3 DEF IInv, OfCommand, Still, BeforePost
    <3>2. api.image = cmd.target
      BY <1>1, <2>1, <3>1 DEF IInv, OfCommand, Still, LoadPcs
    <3>3. db.post <= cmd.target
      BY <2>1, <2>3 DEF Promoted
    <3>4. QED
      BY <1>1, <3>2, <3>3, Numbers
  <2>4. QED
    BY <2>2, <2>3
<1>3. CASE Replacing
  BY <1>1, <1>3, Numbers DEF Matched, Refitted, Posts
<1>4. CASE ~Moved /\ ~Replacing
  <2>1. Posts(tags.current) /\ api.image = tags.current
    BY <1>1, <1>4 DEF Matched, Calm, Level, Straddling, Strays
  <2>2. QED
    BY <1>1, <2>1, Numbers DEF Posts
<1>5. QED
  BY <1>2, <1>3, <1>4

(* Code older than the schema serves only after a command that ended with  *)
(* the container on another image than `current' names, or after an update *)
(* that went on although the image it replaces is not tagged :previous.    *)
(* On every other path, whatever call fails there, what an earlier command *)
(* was cut off at included, the cutover migrates while nothing runs, and a *)
(* recovery puts schema and image back together.                           *)
THEOREM SchemaAndImageMatch == Spec => []SchemaFits
<1>1. Init => Matched
  BY InitMatched
<1>2. IInv /\ IInv' /\ Matched /\ [Next]_vars => Matched'
  BY NextMatched
<1>3. IInv /\ Matched => SchemaFits
  BY MatchedFits
<1>4. QED
  BY <1>1, <1>2, <1>3, Inductive, PTL DEF Spec

=============================================================================
