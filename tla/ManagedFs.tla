----------------------------- MODULE ManagedFs -----------------------------
(***************************************************************************)
(* How a file system becomes managed and stops being so: the add message,  *)
(* FuseFS::init and ~FuseFS, the thread that watches the overlay process,  *)
(* the set-up of the configured file systems at a start, the shut-down of  *)
(* the connector, and a server that dies in between.                       *)
(*                                                                         *)
(* Every actor works on one file system: the sessions of `ltfsdm add`, and *)
(* "main", which stands for TransRecall::run while the server starts and   *)
(* for ~Connector while it stops.  Two sessions never add the same file    *)
(* system at the same time (see the README for what happens if they do).   *)
(***************************************************************************)
EXTENDS Naturals, FiniteSets

CONSTANTS
    Fs,         \* file systems, named by their mount points
    Adder,      \* sessions of `ltfsdm add`
    Uuid,       \* the UUID blkid reports for a file system
    NoFs,       \* the file system of an idle actor
    MaxFaults   \* bound on failing steps, dying overlays and server crashes

ASSUME FsAssumption ==
    /\ NoFs \notin Fs
    /\ "main" \notin Adder
    /\ MaxFaults \in Nat

VARIABLES
    srv,        \* "up", "term" and "force" (stopping), "down"
    todo,       \* configured file systems TransRecall::run has still to manage
    conf,       \* Configuration::fslist, written through to the file
    reg,        \* keys of FuseConnector::managedFss
    obj,        \* init_status of the FuseFS objects: FUSE_STARTED, CACHE_MOUNTED
    act,        \* where each actor is, and whether the file system was configured
    mnt,        \* what is mounted at the mount point: "none", "orig", "ofs"
    cache,      \* is the original file system mounted at LTFSDM_CACHE_MP?
    ofs,        \* the overlay process
    thr,        \* the thread running FuseFS::execute
    faults

server == <<srv, todo, conf, reg>>
host == <<mnt, cache, ofs, thr>>
vars == <<srv, todo, conf, reg, obj, act, mnt, cache, ofs, thr, faults>>

Actor == Adder \cup {"main"}

PC == {"idle", "check", "probe", "umount", "fake", "wait", "join", "mount",
       "post", "detach", "addFs", "erase", "dtor", "uofs", "ujoin", "failed"}

Idle == [pc |-> "idle", fs |-> NoFs, managed |-> FALSE]

(* init_status of a FuseFS object that was just constructed. *)
Fresh == [started |-> FALSE, cache |-> FALSE]

(* The overlay serves requests: it is mounted and its process lives. *)
Live(f) == mnt[f] = "ofs" /\ ofs[f] \in {"up", "rooted"}

Free(f) == \A x \in Actor : act[x].fs # f

Init ==
    /\ srv = "down" /\ todo = {}
    /\ conf \in SUBSET Fs
    /\ \A f, g \in conf : f # g => Uuid[f] # Uuid[g]
    /\ reg = {}
    /\ obj = [f \in Fs |-> Fresh]
    /\ act = [x \in Actor |-> Idle]
    /\ mnt = [f \in Fs |-> IF f \in conf THEN "none" ELSE "orig"]
    /\ cache = [f \in Fs |-> FALSE]
    /\ ofs = [f \in Fs |-> "none"]
    /\ thr = [f \in Fs |-> "none"]
    /\ faults = 0

(* A step fails for a reason outside the model. *)
Fault == faults < MaxFaults /\ faults' = faults + 1

Step(x, from, to) == act[x].pc = from /\ act' = [act EXCEPT ![x].pc = to]

-----------------------------------------------------------------------------
(* The mount table, as FileSystems sees it *)

(* Mutant of Umounted: a mount inside the overlay stays in the table. *)
UmountedTopOnly(f) ==
    /\ mnt' = [mnt EXCEPT ![f] = "none"]
    /\ ofs' = [ofs EXCEPT ![f] = IF mnt[f] = "ofs" THEN "none" ELSE @]
    /\ thr' = [thr EXCEPT ![f] = IF mnt[f] = "ofs" /\ @ = "run" THEN "exited" ELSE @]
    /\ UNCHANGED cache

(* FileSystems::umount of the mount point.  Unmounting a living overlay    *)
(* ends its process; what is mounted inside of it goes with it.            *)
Umounted(f) ==
    LET live == mnt[f] = "ofs" /\ ofs[f] # "dead" IN
    /\ mnt' = [mnt EXCEPT ![f] = "none"]
    /\ cache' = [cache EXCEPT ![f] = FALSE]
    /\ ofs' = [ofs EXCEPT ![f] = IF mnt[f] = "ofs" THEN "none" ELSE @]
    /\ thr' = [thr EXCEPT ![f] = IF live /\ @ = "run" THEN "exited" ELSE @]

(* FileSystems::umount with UMNT_NORMAL while an FsObj on the mount point  *)
(* exists: on an overlay that object holds a descriptor, hence FS_BUSY.    *)
CanUmount(f) == mnt[f] = "orig"

-----------------------------------------------------------------------------
(* The server process *)

Start ==
    /\ srv = "down"
    /\ srv' = "up" /\ todo' = conf
    /\ UNCHANGED <<conf, reg, obj, act, host, faults>>

(* A stop command, graceful or forced. *)
Stop ==
    /\ srv = "up"
    /\ srv' \in {"term", "force"}
    /\ UNCHANGED <<todo, conf, reg, obj, act, host, faults>>

(* std::map::emplace keeps an entry that is there already. *)
Emplace(f) ==
    /\ reg' = reg \cup {f}
    /\ obj' = IF f \in reg THEN obj
              ELSE [obj EXCEPT ![f] = Fresh]

(* The FsObj constructor: getxattr fails on an overlay that is dead. *)
FsObjOpens(f) == ~(mnt[f] = "ofs" /\ ofs[f] = "dead")

(* TransRecall::run takes up the next configured file system. *)
ManageConfigured(f) ==
    /\ srv # "down" /\ act["main"].pc = "idle" /\ f \in todo
    /\ todo' = todo \ {f}
    /\ IF FsObjOpens(f)
       THEN /\ Emplace(f)
            /\ act' = [act EXCEPT !["main"] =
                           [pc |-> "probe", fs |-> f, managed |-> FALSE]]
       ELSE UNCHANGED <<reg, obj, act>>
    /\ UNCHANGED <<srv, conf, host, faults>>

AllIdle == \A x \in Actor : act[x].pc = "idle"

(* ~Connector clears managedFss, which destroys one object after the other. *)
Clear(f) ==
    /\ srv \in {"term", "force"} /\ todo = {} /\ AllIdle
    /\ f \in reg
    /\ reg' = reg \ {f}
    /\ act' = [act EXCEPT !["main"] = [pc |-> "dtor", fs |-> f, managed |-> TRUE]]
    /\ UNCHANGED <<srv, todo, conf, obj, host, faults>>

Down ==
    /\ srv \in {"term", "force"} /\ todo = {} /\ AllIdle /\ reg = {}
    /\ srv' = "down"
    /\ thr' = [f \in Fs |-> "none"]
    /\ UNCHANGED <<todo, conf, reg, obj, act, mnt, cache, ofs, faults>>

(* The server dies.  Its overlay processes and all mounts stay. *)
Crash ==
    /\ srv # "down" /\ Fault
    /\ srv' = "down" /\ todo' = {} /\ reg' = {}
    /\ act' = [x \in Actor |-> Idle]
    /\ obj' = [f \in Fs |-> Fresh]
    /\ thr' = [f \in Fs |-> "none"]
    /\ UNCHANGED <<conf, mnt, cache, ofs>>

-----------------------------------------------------------------------------
(* The add message *)

(* AddCommand::doCommand: the client looks the mount point up first. *)
AddCommand(c, f) ==
    /\ srv = "up" /\ act[c].pc = "idle" /\ Free(f)
    /\ mnt[f] # "none"
    /\ act' = [act EXCEPT ![c] = [pc |-> "check", fs |-> f, managed |-> FALSE]]
    /\ UNCHANGED <<server, obj, host, faults>>

(* The actor is done.  A session has sent its response to the client. *)
Over(x) == act' = [act EXCEPT ![x] = Idle]

(* MessageParser::addMessage up to the call of FuseFS::init.  The response *)
(* is FAILED, ALREADY_ADDED, or the one of the steps that follow.          *)
AddMessage(c) ==
    /\ act[c].pc = "check"
    /\ LET f == act[c].fs IN
       \/ ~FsObjOpens(f) /\ Over(c) /\ UNCHANGED <<reg, obj>>
       \/ FsObjOpens(f) /\ f \in conf /\ Over(c) /\ UNCHANGED <<reg, obj>>
       \/ /\ FsObjOpens(f) /\ f \notin conf
          /\ Emplace(f)
          /\ Step(c, "check", "probe")
    /\ UNCHANGED <<srv, todo, conf, host, faults>>

-----------------------------------------------------------------------------
(* FuseFS::init *)

(* Mutant of Probe: a configured file system has to be mounted, too. *)
ProbeMounted(x) ==
    LET f == act[x].fs IN
    /\ act[x].pc = "probe"
    /\ act' = [act EXCEPT ![x].pc = IF mnt[f] # "none" THEN "umount" ELSE "erase",
                          ![x].managed = f \in conf]
    /\ UNCHANGED <<server, obj, host, faults>>

(* A configured file system may be mounted or not, another one has to be. *)
Probe(x) ==
    LET f == act[x].fs
        next == IF mnt[f] # "none" THEN "umount"
                ELSE IF f \in conf THEN "fake" ELSE "erase"
    IN  /\ act[x].pc = "probe"
        /\ act' = [act EXCEPT ![x].pc = next, ![x].managed = f \in conf]
        /\ UNCHANGED <<server, obj, host, faults>>

Umount(x) ==
    LET f == act[x].fs IN
    /\ act[x].pc = "umount"
    /\ \/ CanUmount(f) /\ Step(x, "umount", "fake") /\ Umounted(f) /\ UNCHANGED faults
       \/ ~CanUmount(f) /\ Step(x, "umount", "erase") /\ UNCHANGED <<host, faults>>
       \/ CanUmount(f) /\ Fault /\ Step(x, "umount", "erase") /\ UNCHANGED host
    /\ UNCHANGED <<server, obj>>

(* The fake mount has to fail (it succeeds for an entry of fstab), then    *)
(* the thread with the overlay process is started.                         *)
FakeMount(x) ==
    LET f == act[x].fs IN
    /\ \/ /\ Step(x, "fake", "wait")
          /\ ofs' = [ofs EXCEPT ![f] = "starting"]
          /\ thr' = [thr EXCEPT ![f] = "run"]
          /\ UNCHANGED faults
       \/ Fault /\ Step(x, "fake", "erase") /\ UNCHANGED <<ofs, thr>>
    /\ UNCHANGED <<server, obj, mnt, cache>>

(* Mutant of PreMount: FUSE_STARTED is not set. *)
PreMountUnset(x) ==
    /\ Step(x, "wait", "mount") /\ Live(act[x].fs)
    /\ UNCHANGED <<server, obj, host, faults>>

(* LTFSDM_PREMOUNT succeeds once the overlay is mounted. *)
PreMount(x) ==
    LET f == act[x].fs IN
    /\ Step(x, "wait", "mount") /\ Live(f)
    /\ obj' = [obj EXCEPT ![f].started = TRUE]
    /\ UNCHANGED <<server, host, faults>>

(* Mutant of TimeOut: the attempts are counted only if the file is there. *)
TimeOutSlow(x) ==
    /\ Step(x, "wait", "join")
    /\ ofs[act[x].fs] = "starting" /\ Fault
    /\ UNCHANGED <<server, obj, host>>

(* It did not within 20 seconds: the overlay died, or it is slow. *)
TimeOut(x) ==
    /\ Step(x, "wait", "join")
    /\ \/ ofs[act[x].fs] \in {"none", "dead"} /\ UNCHANGED faults
       \/ ofs[act[x].fs] = "starting" /\ Fault
    /\ UNCHANGED <<server, obj, host>>

JoinThread(x) ==
    /\ Step(x, "join", "erase") /\ thr[act[x].fs] = "none"
    /\ UNCHANGED <<server, obj, host, faults>>

(* The original file system is mounted inside the overlay. *)
MountCache(x) ==
    LET f == act[x].fs IN
    /\ act[x].pc = "mount"
    /\ \/ /\ Step(x, "mount", "post") /\ Live(f)
          /\ cache' = [cache EXCEPT ![f] = TRUE]
          /\ obj' = [obj EXCEPT ![f].cache = TRUE]
          /\ UNCHANGED faults
       \/ ~Live(f) /\ Step(x, "mount", "erase") /\ UNCHANGED <<cache, obj, faults>>
       \/ Live(f) /\ Fault /\ Step(x, "mount", "erase") /\ UNCHANGED <<cache, obj>>
    /\ UNCHANGED <<server, mnt, ofs, thr>>

(* rootFd is opened, and with LTFSDM_POSTMOUNT the overlay opens its own. *)
PostMount(x) ==
    LET f == act[x].fs IN
    /\ act[x].pc = "post"
    /\ \/ /\ Step(x, "post", "detach") /\ Live(f)
          /\ ofs' = [ofs EXCEPT ![f] = "rooted"]
          /\ UNCHANGED faults
       \/ ~Live(f) /\ Step(x, "post", "erase") /\ UNCHANGED <<ofs, faults>>
       \/ Live(f) /\ Fault /\ Step(x, "post", "erase") /\ UNCHANGED ofs
    /\ UNCHANGED <<server, obj, mnt, cache, thr>>

Detach(x) ==
    LET f == act[x].fs IN
    /\ act[x].pc = "detach"
    /\ \/ /\ Step(x, "detach", "addFs") /\ cache[f]
          /\ cache' = [cache EXCEPT ![f] = FALSE]
          /\ obj' = [obj EXCEPT ![f].cache = FALSE]
          /\ UNCHANGED faults
       \/ ~cache[f] /\ Step(x, "detach", "erase") /\ UNCHANGED <<cache, obj, faults>>
       \/ cache[f] /\ Fault /\ Step(x, "detach", "erase") /\ UNCHANGED <<cache, obj>>
    /\ UNCHANGED <<server, mnt, ofs, thr>>

(* Configuration::addFs throws for a target, source or UUID it has. *)
Known(f) == \E g \in conf : g = f \/ Uuid[g] = Uuid[f]

(* The end of init, and of manageFs: the response of a session is SUCCESS. *)
AddFs(x) ==
    LET f == act[x].fs IN
    /\ act[x].pc = "addFs"
    /\ \/ /\ act[x].managed \/ ~Known(f)
          /\ conf' = conf \cup {f}
          /\ Over(x)
       \/ /\ ~act[x].managed /\ Known(f)
          /\ Step(x, "addFs", "erase") /\ UNCHANGED conf
    /\ UNCHANGED <<srv, todo, reg, obj, host, faults>>

-----------------------------------------------------------------------------
(* The way back: manageFs erases the entry, ~FuseFS undoes what was done *)

Erase(x) ==
    /\ Step(x, "erase", "dtor")
    /\ reg' = reg \ {act[x].fs}
    /\ UNCHANGED <<srv, todo, conf, obj, host, faults>>

(* The cache mount is released, a failure is ignored.  It is busy when the *)
(* overlay has opened its root descriptor in it.                           *)
UmountCache(x) ==
    LET f == act[x].fs IN
    /\ act[x].pc = "dtor"
    /\ act' = [act EXCEPT ![x].pc = IF obj[f].started THEN "uofs" ELSE "failed"]
    /\ cache' = IF obj[f].cache /\ ofs[f] # "rooted"
                THEN [cache EXCEPT ![f] = FALSE] ELSE cache
    /\ UNCHANGED <<server, obj, mnt, ofs, thr, faults>>

(* The loop over FS_BUSY: it goes on while the cache is mounted inside.    *)
(* With nothing left to unmount both calls throw, and the destructor sends *)
(* its own process SIGTERM.                                                *)
UmountOverlay(x) ==
    LET f == act[x].fs IN
    /\ act[x].pc = "uofs"
    /\ \/ /\ mnt[f] # "none" /\ (srv = "force" \/ ~cache[f])
          /\ Step(x, "uofs", "ujoin")
          /\ Umounted(f) /\ UNCHANGED srv
       \/ /\ mnt[f] = "none"
          /\ Step(x, "uofs", "failed")
          /\ srv' = IF srv = "up" THEN "term" ELSE srv
          /\ UNCHANGED host
    /\ UNCHANGED <<todo, conf, reg, obj, faults>>

JoinOverlay(x) ==
    /\ Step(x, "ujoin", "failed") /\ thr[act[x].fs] = "none"
    /\ UNCHANGED <<server, obj, host, faults>>

(* manageFs throws: the response of a session is FAILED. *)
NotManaged(x) ==
    /\ act[x].pc = "failed"
    /\ obj' = [obj EXCEPT ![act[x].fs] = Fresh]
    /\ Over(x)
    /\ UNCHANGED <<server, host, faults>>

-----------------------------------------------------------------------------
(* The overlay process and the thread that reads its output *)

OverlayMounts(f) ==
    /\ ofs[f] = "starting"
    /\ ofs' = [ofs EXCEPT ![f] = "up"]
    /\ mnt' = [mnt EXCEPT ![f] = "ofs"]
    /\ UNCHANGED <<server, obj, act, cache, thr, faults>>

(* The process ends by an error or is killed; its mount stays behind. *)
OverlayDies(f) ==
    /\ ofs[f] \in {"starting", "up", "rooted"} /\ Fault
    /\ ofs' = [ofs EXCEPT ![f] = IF mnt[f] = "ofs" THEN "dead" ELSE "none"]
    /\ thr' = [thr EXCEPT ![f] = IF @ = "run" THEN "failed" ELSE @]
    /\ UNCHANGED <<server, obj, act, mnt, cache>>

(* The end of FuseFS::execute unmounts whatever is mounted there, unless   *)
(* the process ended orderly and the connector is terminating.             *)
Reap(f) ==
    /\ thr[f] \in {"exited", "failed"}
    /\ LET umounts == (thr[f] = "failed" \/ srv = "up") /\ mnt[f] # "none" IN
       /\ mnt' = [mnt EXCEPT ![f] = IF umounts THEN "none" ELSE @]
       /\ cache' = [cache EXCEPT ![f] = @ /\ ~umounts]
       /\ ofs' = [ofs EXCEPT ![f] = IF umounts THEN "none" ELSE @]
    /\ thr' = [thr EXCEPT ![f] = "none"]
    /\ UNCHANGED <<server, obj, act, faults>>

-----------------------------------------------------------------------------
(* The administrator *)

AdminMount(f) ==
    /\ mnt[f] = "none" /\ Free(f)
    /\ mnt' = [mnt EXCEPT ![f] = "orig"]
    /\ UNCHANGED <<server, obj, act, cache, ofs, thr, faults>>

(* What keeps FuseFS::init or ~FuseFS waiting for ever: the thread of an   *)
(* overlay that came up after the time-out, or an overlay in which the     *)
(* cache could not be unmounted.                                           *)
Hindered(x) ==
    LET f == act[x].fs IN
    \/ act[x].pc = "join" /\ thr[f] = "run"
    \/ act[x].pc = "uofs" /\ cache[f]

(* A managed overlay is kept busy by the ioctl descriptor of the server. *)
AdminUmount(f) ==
    /\ mnt[f] # "none"
    /\ \/ Free(f) /\ (mnt[f] = "ofs" => f \notin reg)
       \/ \E x \in Actor : act[x].fs = f /\ Hindered(x)
    /\ Umounted(f)
    /\ UNCHANGED <<server, obj, act, faults>>

-----------------------------------------------------------------------------

InitStep(x) ==
    \/ Probe(x) \/ Umount(x) \/ FakeMount(x) \/ PreMount(x) \/ TimeOut(x)
    \/ JoinThread(x) \/ MountCache(x) \/ PostMount(x) \/ Detach(x) \/ AddFs(x)

UndoStep(x) ==
    \/ Erase(x) \/ UmountCache(x) \/ UmountOverlay(x) \/ JoinOverlay(x)
    \/ NotManaged(x)

ActorStep(x) == InitStep(x) \/ UndoStep(x)

Next ==
    \/ Start \/ Stop \/ Down \/ Crash
    \/ \E f \in Fs : ManageConfigured(f) \/ Clear(f)
    \/ \E c \in Adder, f \in Fs : AddCommand(c, f)
    \/ \E c \in Adder : AddMessage(c)
    \/ \E x \in Actor : ActorStep(x)
    \/ \E f \in Fs : OverlayMounts(f) \/ OverlayDies(f) \/ Reap(f)
    \/ \E f \in Fs : AdminMount(f) \/ AdminUmount(f)

(* Threads of the server and the overlay processes go on when they can.    *)
(* Nobody has to add, mount, unmount, stop or start anything.              *)
Spec ==
    /\ Init /\ [][Next]_vars
    /\ \A x \in Actor : WF_vars(ActorStep(x))
    /\ \A c \in Adder : WF_vars(AddMessage(c))
    /\ \A f \in Fs : /\ WF_vars(OverlayMounts(f)) /\ WF_vars(Reap(f))
                     /\ WF_vars(ManageConfigured(f)) /\ WF_vars(Clear(f))
    /\ WF_vars(Down)

-----------------------------------------------------------------------------
(* Types, and what relates a mount to its process and the object to its entry. *)
TypeOK ==
    /\ srv \in {"up", "term", "force", "down"}
    /\ todo \subseteq conf /\ conf \subseteq Fs /\ reg \subseteq Fs
    /\ obj \in [Fs -> [started : BOOLEAN, cache : BOOLEAN]]
    /\ act \in [Actor -> [pc : PC, fs : Fs \cup {NoFs}, managed : BOOLEAN]]
    /\ mnt \in [Fs -> {"none", "orig", "ofs"}]
    /\ cache \in [Fs -> BOOLEAN]
    /\ ofs \in [Fs -> {"none", "starting", "up", "rooted", "dead"}]
    /\ thr \in [Fs -> {"none", "run", "exited", "failed"}]
    /\ faults \in 0 .. MaxFaults
    /\ \A f \in Fs : cache[f] => mnt[f] = "ofs"

(* A file system nobody is working on is managed completely or not at all: *)
(* without an entry in managedFss there is no overlay process of this      *)
(* server, whatever step of FuseFS::init failed; with one it is in the     *)
(* configuration, and an overlay that lives has its root descriptor, while *)
(* no path leads to the original file system.                              *)
ManagedOrGone ==
    \A f \in Fs : srv # "down" /\ Free(f) =>
        /\ f \notin reg => thr[f] # "run"
        /\ f \in reg => f \in conf /\ obj[f].started /\ ~obj[f].cache
        /\ thr[f] = "run" => mnt[f] = "ofs" /\ ofs[f] = "rooted" /\ ~cache[f]

(* Every add is answered, every set-up at the start and every destructor   *)
(* of a shut-down ends, unless it is hindered for ever.                    *)
SetUpEnds == \A x \in Actor : []<>(act[x].pc = "idle" \/ Hindered(x))

Managed(f) == f \in reg /\ thr[f] = "run" /\ ofs[f] = "rooted"

(* A configured file system is managed again by the next start, if no step *)
(* fails and the previous server left no overlay mounted (TransRecall::run *)
(* and the branch of FuseFS::init for a file system that is configured).   *)
RestartManages ==
    \A f \in Fs, n \in 0 .. MaxFaults :
        (srv = "up" /\ f \in todo /\ faults = n)
            ~> (Managed(f) \/ faults > n \/ srv # "up" \/ mnt[f] = "ofs")
=============================================================================
