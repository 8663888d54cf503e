--------------------------- MODULE ManagedFsProofs ---------------------------
(***************************************************************************)
(* Proofs about managed file systems, for any number of file systems and   *)
(* sessions and any number of failing steps, dying overlays and crashes.   *)
(***************************************************************************)
EXTENDS ManagedFs, TLAPS

(* An actor has a file system while it is at work.                         *)
ActInv ==
    \A x \in Actor : /\ act[x].pc # "idle" => act[x].fs \in Fs
                     /\ act[x].pc = "idle" => act[x] = Idle

(* A dead server has no actors, no objects and no threads.                 *)
DownInv ==
    srv = "down" => /\ reg = {} /\ todo = {}
                    /\ \A f \in Fs : thr[f] = "none"
                    /\ \A x \in Actor : act[x].pc = "idle"

(* The actor that is in FuseFS::init or ~FuseFS.  A session that has not   *)
(* yet looked at the configuration is none.                                *)
Owner(x, f) == act[x].fs = f /\ act[x].pc \notin {"idle", "check"}

(* A file system has one owner.  A session may look at it meanwhile, but   *)
(* then it is configured and the session turns away.                       *)
OwnerInv ==
    \A x, y \in Actor : act[x].fs = act[y].fs /\ act[x].fs \in Fs /\ x # y =>
        act[x].fs \in conf /\ (act[x].pc = "check" \/ act[y].pc = "check")

(* TransRecall::run has not touched what it has still to manage.           *)
TodoInv == \A f \in todo : f \notin reg /\ \A x \in Actor : ~Owner(x, f)

Calm(f) == thr[f] # "run"

Serving(f) == thr[f] = "run" => mnt[f] = "ofs" /\ ofs[f] \in {"up", "rooted"}

Rooted(f) == thr[f] = "run" => mnt[f] = "ofs" /\ ofs[f] = "rooted"

(* How far FuseFS::init or ~FuseFS has come with a file system.            *)
OwnInv(p, f) ==
    /\ p \in {"probe", "umount", "fake", "wait", "join", "mount", "post", "detach",
              "addFs", "erase"} => f \in reg
    /\ p \in {"dtor", "uofs", "ujoin", "failed"} => f \notin reg
    /\ p \in {"probe", "umount", "fake"} => obj[f] = Fresh /\ Calm(f)
    /\ p \in {"wait", "join"} => obj[f] = Fresh
    /\ p \in {"mount", "post"} => obj[f].started /\ Serving(f)
    /\ p = "mount" => ~obj[f].cache
    /\ p = "detach" => obj[f].started /\ Rooted(f)
    /\ p = "addFs" => /\ obj[f].started /\ ~obj[f].cache /\ Rooted(f)
                      /\ thr[f] = "run" => ~cache[f]
    /\ p \in {"erase", "dtor"} => IF obj[f].started THEN Serving(f) ELSE Calm(f)
    /\ p = "uofs" => Serving(f)
    /\ p \in {"ujoin", "failed"} => Calm(f)

FreeInv(f) ==
    /\ f \notin reg => Calm(f)
    /\ f \in reg => f \in conf /\ obj[f].started /\ ~obj[f].cache
    /\ Rooted(f) /\ (thr[f] = "run" => ~cache[f])

FsInv(f) ==
    /\ \A x \in Actor : Owner(x, f) => OwnInv(act[x].pc, f)
    /\ (\A x \in Actor : ~Owner(x, f)) => FreeInv(f)

(* The inductive invariant.                                                *)
ManagedInv ==
    TypeOK /\ ActInv /\ DownInv /\ OwnerInv /\ TodoInv /\ \A f \in Fs : FsInv(f)

-----------------------------------------------------------------------------
(* The initial state satisfies the inductive invariant.                    *)
LEMMA InitManagedInv == Init => ManagedInv
<1> SUFFICES ASSUME Init PROVE ManagedInv
    OBVIOUS
<1>1. \A x \in Actor : act[x] = Idle /\ act[x].pc = "idle" /\ act[x].fs = NoFs
    BY DEF Init, Idle
<1>2. NoFs \notin Fs
    BY FsAssumption
<1>3. Fresh \in [started : BOOLEAN, cache : BOOLEAN]
    BY DEF Fresh
<1>4. Idle \in [pc : PC, fs : Fs \cup {NoFs}, managed : BOOLEAN]
    BY DEF Idle, PC
<1>5. TypeOK
    BY <1>3, <1>4, FsAssumption DEF Init, TypeOK
<1>6. ActInv
    BY <1>1 DEF ActInv
<1>7. DownInv
    BY <1>1 DEF Init, DownInv
<1>8. OwnerInv
    BY <1>1, <1>2 DEF OwnerInv
<1>9. TodoInv
    BY DEF Init, TodoInv
<1>10. ASSUME NEW f \in Fs PROVE FsInv(f)
    <2>1. f \notin reg /\ thr[f] = "none"
        BY DEF Init
    <2>2. FreeInv(f)
        BY <2>1 DEF FreeInv, Calm, Rooted
    <2>3. QED
        BY <2>2, <1>1 DEF FsInv, Owner
<1>11. QED
    BY <1>5, <1>6, <1>7, <1>8, <1>9, <1>10 DEF ManagedInv

-----------------------------------------------------------------------------
(* Every step keeps the types.                                             *)

(* An actor that goes on, as PCs are only those of the code.               *)
LEMMA ActType ==
    ASSUME TypeOK, NEW x \in Actor, NEW p \in PC, act' = [act EXCEPT ![x].pc = p]
    PROVE  act' \in [Actor -> [pc : PC, fs : Fs \cup {NoFs}, managed : BOOLEAN]]
BY DEF TypeOK

(* FileSystems::umount leaves no mount inside what it unmounts.            *)
LEMMA UmountedType ==
    ASSUME TypeOK, NEW f \in Fs, Umounted(f)
    PROVE  /\ mnt' \in [Fs -> {"none", "orig", "ofs"}] /\ cache' \in [Fs -> BOOLEAN]
           /\ ofs' \in [Fs -> {"none", "starting", "up", "rooted", "dead"}]
           /\ thr' \in [Fs -> {"none", "run", "exited", "failed"}]
           /\ \A g \in Fs : cache'[g] => mnt'[g] = "ofs"
<1>1. mnt' \in [Fs -> {"none", "orig", "ofs"}] /\ \A g \in Fs : g # f => mnt'[g] = mnt[g]
    BY DEF Umounted, TypeOK
<1>2. cache' \in [Fs -> BOOLEAN] /\ cache'[f] = FALSE /\ \A g \in Fs : g # f => cache'[g] = cache[g]
    BY DEF Umounted, TypeOK
<1>3. ofs' \in [Fs -> {"none", "starting", "up", "rooted", "dead"}]
    BY DEF Umounted, TypeOK
<1>4. thr' \in [Fs -> {"none", "run", "exited", "failed"}]
    BY DEF Umounted, TypeOK
<1>5. QED
    BY <1>1, <1>2, <1>3, <1>4 DEF TypeOK

(* Steps of FuseFS::init and ~FuseFS keep the types.                       *)
LEMMA ActorType ==
    ASSUME TypeOK, ActInv, NEW x \in Actor, ActorStep(x)
    PROVE  TypeOK'
<1> USE DEF server, host
<1> DEFINE f == act[x].fs
<1>1. {"idle", "check", "probe", "umount", "fake", "wait", "join", "mount",
       "post", "detach", "addFs", "erase", "dtor", "uofs", "ujoin", "failed"} \subseteq PC
    BY DEF PC
<1>2. f \in Fs
    BY DEF ActInv, ActorStep, InitStep, UndoStep, Probe, Umount, FakeMount,
       PreMount, TimeOut, JoinThread,
       MountCache, PostMount, Detach, AddFs, Erase, UmountCache, UmountOverlay, JoinOverlay, NotManaged, Step
<1>3. Fault => faults' \in 0 .. MaxFaults
    BY FsAssumption DEF Fault, TypeOK
<1>4. Idle \in [pc : PC, fs : Fs \cup {NoFs}, managed : BOOLEAN]
    BY <1>1 DEF Idle
<1>5. Fresh \in [started : BOOLEAN, cache : BOOLEAN]
    BY DEF Fresh
<1>6. \A p, q : q \in PC /\ Step(x, p, q) => act' \in [Actor -> [pc : PC, fs : Fs \cup {NoFs}, managed : BOOLEAN]]
    BY ActType DEF Step
<1> HIDE DEF f
<1>7. CASE Probe(x)
    <2>1. act' \in [Actor -> [pc : PC, fs : Fs \cup {NoFs}, managed : BOOLEAN]]
        <3> DEFINE m == f \in conf
                   p == IF mnt[f] # "none" THEN "umount" ELSE IF f \in conf THEN "fake" ELSE "erase"
        <3>1. act' = [act EXCEPT ![x].pc = p, ![x].managed = m]
            BY <1>7 DEF Probe, f
        <3>2. m \in BOOLEAN /\ p \in PC
            BY <1>1
        <3> HIDE DEF m, p
        <3>3. act \in [Actor -> [pc : PC, fs : Fs \cup {NoFs}, managed : BOOLEAN]]
            BY DEF TypeOK
        <3>4. \A y \in Actor : y # x => act'[y] = act[y]
            BY <3>1, <3>3
        <3>5. act'[x] = [act[x] EXCEPT !.pc = p, !.managed = m]
            BY <3>1, <3>3
        <3>6. act[x] \in [pc : PC, fs : Fs \cup {NoFs}, managed : BOOLEAN]
            BY <3>3
        <3>7. act'[x] = [pc |-> p, fs |-> act[x].fs, managed |-> m]
            BY <3>5, <3>6
        <3>8. act'[x] \in [pc : PC, fs : Fs \cup {NoFs}, managed : BOOLEAN]
            BY <3>2, <3>6, <3>7
        <3>9. act' = [y \in Actor |-> act'[y]]
            BY <3>1, <3>3
        <3>10. QED
            BY <3>3, <3>4, <3>8, <3>9
    <2>2. QED
        BY <2>1, <1>7 DEF Probe, TypeOK
<1>8. CASE Umount(x)
    <2>1. act' \in [Actor -> [pc : PC, fs : Fs \cup {NoFs}, managed : BOOLEAN]] /\ faults' \in 0 .. MaxFaults
        BY <1>8, <1>6, <1>1, <1>3 DEF Umount, TypeOK
    <2>2. Umounted(f) \/ UNCHANGED host
        BY <1>8 DEF Umount, f
    <2>3. QED
        BY <2>1, <2>2, <1>8, <1>2, UmountedType DEF Umount, TypeOK
<1>9. CASE FakeMount(x)
    <2>1. act' \in [Actor -> [pc : PC, fs : Fs \cup {NoFs}, managed : BOOLEAN]] /\ faults' \in 0 .. MaxFaults
        BY <1>9, <1>6, <1>1, <1>3 DEF FakeMount, TypeOK
    <2>2. /\ ofs' \in [Fs -> {"none", "starting", "up", "rooted", "dead"}]
          /\ thr' \in [Fs -> {"none", "run", "exited", "failed"}]
        BY <1>9 DEF FakeMount, TypeOK
    <2>3. QED
        BY <2>1, <2>2, <1>9 DEF FakeMount, TypeOK
<1>10. CASE PreMount(x)
    <2>1. act' \in [Actor -> [pc : PC, fs : Fs \cup {NoFs}, managed : BOOLEAN]]
        BY <1>10, <1>6, <1>1 DEF PreMount
    <2>2. obj' \in [Fs -> [started : BOOLEAN, cache : BOOLEAN]]
        BY <1>10 DEF PreMount, TypeOK
    <2>3. QED
        BY <2>1, <2>2, <1>10 DEF PreMount, TypeOK
<1>11. CASE TimeOut(x) \/ JoinThread(x) \/ JoinOverlay(x)
    <2>1. act' \in [Actor -> [pc : PC, fs : Fs \cup {NoFs}, managed : BOOLEAN]] /\ faults' \in 0 .. MaxFaults
        BY <1>11, <1>6, <1>1, <1>3 DEF TimeOut, JoinThread, JoinOverlay, TypeOK
    <2>2. QED
        BY <2>1, <1>11 DEF TimeOut, JoinThread, JoinOverlay, TypeOK
<1>12. CASE MountCache(x)
    <2>1. act' \in [Actor -> [pc : PC, fs : Fs \cup {NoFs}, managed : BOOLEAN]] /\ faults' \in 0 .. MaxFaults
        BY <1>12, <1>6, <1>1, <1>3 DEF MountCache, TypeOK
    <2>6. /\ obj' = obj \/ obj' = [obj EXCEPT ![f].cache = TRUE]
          /\ cache' = cache \/ cache' = [cache EXCEPT ![f] = TRUE]
        BY <1>12 DEF MountCache, f
    <2>7. obj' \in [Fs -> [started : BOOLEAN, cache : BOOLEAN]]
        BY <2>6, <1>2 DEF TypeOK
    <2>8. cache' \in [Fs -> BOOLEAN]
        BY <2>6 DEF TypeOK
    <2>3. cache' = cache \/ (cache' = [cache EXCEPT ![f] = TRUE] /\ mnt[f] = "ofs")
        BY <1>12 DEF MountCache, Live, f
    <2>4. \A g \in Fs : cache'[g] => mnt[g] = "ofs"
        BY <2>3 DEF TypeOK
    <2>5. QED
        BY <2>1, <2>7, <2>8, <2>4, <1>12 DEF MountCache, TypeOK
<1>13. CASE PostMount(x)
    <2>1. act' \in [Actor -> [pc : PC, fs : Fs \cup {NoFs}, managed : BOOLEAN]] /\ faults' \in 0 .. MaxFaults
        BY <1>13, <1>6, <1>1, <1>3 DEF PostMount, TypeOK
    <2>2. ofs' \in [Fs -> {"none", "starting", "up", "rooted", "dead"}]
        BY <1>13 DEF PostMount, TypeOK
    <2>3. QED
        BY <2>1, <2>2, <1>13 DEF PostMount, TypeOK
<1>14. CASE Detach(x)
    <2>1. act' \in [Actor -> [pc : PC, fs : Fs \cup {NoFs}, managed : BOOLEAN]] /\ faults' \in 0 .. MaxFaults
        BY <1>14, <1>6, <1>1, <1>3 DEF Detach, TypeOK
    <2>2. /\ obj' = obj \/ obj' = [obj EXCEPT ![f].cache = FALSE]
          /\ cache' = cache \/ cache' = [cache EXCEPT ![f] = FALSE]
        BY <1>14 DEF Detach, f
    <2>3. obj' \in [Fs -> [started : BOOLEAN, cache : BOOLEAN]]
        BY <2>2, <1>2 DEF TypeOK
    <2>4. cache' \in [Fs -> BOOLEAN] /\ \A g \in Fs : cache'[g] => cache[g]
        BY <2>2 DEF TypeOK
    <2>5. QED
        BY <2>1, <2>3, <2>4, <1>14 DEF Detach, TypeOK
<1>15. CASE AddFs(x)
    <2>1. act' \in [Actor -> [pc : PC, fs : Fs \cup {NoFs}, managed : BOOLEAN]]
        BY <1>15, <1>6, <1>1, <1>4 DEF AddFs, Over, TypeOK
    <2>2. conf' \subseteq Fs /\ conf \subseteq conf'
        BY <1>15, <1>2 DEF AddFs, TypeOK, f
    <2>3. QED
        BY <2>1, <2>2, <1>15 DEF AddFs, TypeOK
<1>16. CASE Erase(x)
    <2>1. act' \in [Actor -> [pc : PC, fs : Fs \cup {NoFs}, managed : BOOLEAN]]
        BY <1>16, <1>6, <1>1 DEF Erase
    <2>2. QED
        BY <2>1, <1>16 DEF Erase, TypeOK
<1>17. CASE UmountCache(x)
    <2>1. \E p \in {"uofs", "failed"} : act' = [act EXCEPT ![x].pc = p]
        BY <1>17 DEF UmountCache
    <2>2. act' \in [Actor -> [pc : PC, fs : Fs \cup {NoFs}, managed : BOOLEAN]]
        BY <2>1, <1>1, ActType
    <2>3. cache' = cache \/ cache' = [cache EXCEPT ![f] = FALSE]
        BY <1>17 DEF UmountCache, f
    <2>4. cache' \in [Fs -> BOOLEAN] /\ \A g \in Fs : cache'[g] => cache[g]
        BY <2>3 DEF TypeOK
    <2>5. QED
        BY <2>2, <2>4, <1>17 DEF UmountCache, TypeOK
<1>18. CASE UmountOverlay(x)
    <2>1. act' \in [Actor -> [pc : PC, fs : Fs \cup {NoFs}, managed : BOOLEAN]]
        BY <1>18, <1>6, <1>1 DEF UmountOverlay
    <2>2. Umounted(f) \/ UNCHANGED host
        BY <1>18 DEF UmountOverlay, f
    <2>3. srv' \in {"up", "term", "force", "down"}
        BY <1>18 DEF UmountOverlay, TypeOK
    <2>4. QED
        BY <2>1, <2>2, <2>3, <1>18, <1>2, UmountedType DEF UmountOverlay, TypeOK
<1>19. CASE NotManaged(x)
    <2>1. act' \in [Actor -> [pc : PC, fs : Fs \cup {NoFs}, managed : BOOLEAN]]
        BY <1>19, <1>4 DEF NotManaged, Over, TypeOK
    <2>2. obj' \in [Fs -> [started : BOOLEAN, cache : BOOLEAN]]
        BY <1>19, <1>5 DEF NotManaged, TypeOK
    <2>3. QED
        BY <2>1, <2>2, <1>19 DEF NotManaged, TypeOK
<1>20. QED
    BY <1>1, <1>2, <1>3, <1>4, <1>5, <1>6, <1>7, <1>8, <1>9, <1>10, <1>11,
       <1>12, <1>13, <1>14, <1>15, <1>16, <1>17, <1>18, <1>19 DEF ActorStep,
       InitStep, UndoStep

(* Every other step keeps the types, too.                                  *)
LEMMA NextTypeOK ==
    ASSUME TypeOK, ActInv, [Next]_vars
    PROVE  TypeOK'
<1> USE DEF server, host
<1>1. {"idle", "check", "probe", "umount", "fake", "wait", "join", "mount",
       "post", "detach", "addFs", "erase", "dtor", "uofs", "ujoin", "failed"} \subseteq PC
    BY DEF PC
<1>2. Fault => faults' \in 0 .. MaxFaults
    BY FsAssumption DEF Fault, TypeOK
<1>3. Idle \in [pc : PC, fs : Fs \cup {NoFs}, managed : BOOLEAN]
    BY <1>1 DEF Idle
<1>4. Fresh \in [started : BOOLEAN, cache : BOOLEAN]
    BY DEF Fresh
<1>5. "main" \in Actor /\ Adder \subseteq Actor
    BY DEF Actor
<1>6. ASSUME NEW f \in Fs, Emplace(f)
      PROVE  reg' \subseteq Fs /\ obj' \in [Fs -> [started : BOOLEAN, cache : BOOLEAN]]
    BY <1>6, <1>4 DEF Emplace, TypeOK
<1>7. ASSUME NEW x \in Actor, NEW f \in Fs, NEW p \in PC, NEW m \in BOOLEAN,
             act' = [act EXCEPT ![x] = [pc |-> p, fs |-> f, managed |-> m]]
      PROVE  act' \in [Actor -> [pc : PC, fs : Fs \cup {NoFs}, managed : BOOLEAN]]
    BY <1>7 DEF TypeOK
<1>8. CASE Start \/ Stop
    BY <1>8 DEF Start, Stop, TypeOK
<1>9. CASE Down
    BY <1>9 DEF Down, TypeOK
<1>10. CASE Crash
    <2>1. /\ act' \in [Actor -> [pc : PC, fs : Fs \cup {NoFs}, managed : BOOLEAN]]
          /\ obj' \in [Fs -> [started : BOOLEAN, cache : BOOLEAN]]
        BY <1>10, <1>3, <1>4 DEF Crash
    <2>2. QED
        BY <2>1, <1>10, <1>2 DEF Crash, TypeOK
<1>11. ASSUME NEW f \in Fs, ManageConfigured(f) PROVE TypeOK'
    <2>1. act' \in [Actor -> [pc : PC, fs : Fs \cup {NoFs}, managed : BOOLEAN]]
        <3>1. act' = act \/ act' = [act EXCEPT !["main"] = [pc |-> "probe", fs |-> f, managed |-> FALSE]]
            BY <1>11 DEF ManageConfigured
        <3>2. act \in [Actor -> [pc : PC, fs : Fs \cup {NoFs}, managed : BOOLEAN]]
            BY DEF TypeOK
        <3>3. QED
            BY <3>1, <3>2, <1>7, <1>1, <1>5
    <2>2. /\ reg' \subseteq Fs /\ obj' \in [Fs -> [started : BOOLEAN, cache : BOOLEAN]]
        BY <1>11, <1>6 DEF ManageConfigured, TypeOK
    <2>3. QED
        BY <2>1, <2>2, <1>11 DEF ManageConfigured, TypeOK
<1>12. ASSUME NEW f \in Fs, Clear(f) PROVE TypeOK'
    <2>1. act' \in [Actor -> [pc : PC, fs : Fs \cup {NoFs}, managed : BOOLEAN]]
        BY <1>12, <1>7, <1>1, <1>5 DEF Clear
    <2>2. QED
        BY <2>1, <1>12 DEF Clear, TypeOK
<1>13. ASSUME NEW c \in Adder, NEW f \in Fs, AddCommand(c, f) PROVE TypeOK'
    <2>1. act' \in [Actor -> [pc : PC, fs : Fs \cup {NoFs}, managed : BOOLEAN]]
        BY <1>13, <1>7, <1>1, <1>5 DEF AddCommand
    <2>2. QED
        BY <2>1, <1>13 DEF AddCommand, TypeOK
<1>14. ASSUME NEW c \in Adder, AddMessage(c) PROVE TypeOK'
    <2>1. act[c].fs \in Fs /\ c \in Actor
        BY <1>14, <1>5 DEF AddMessage, ActInv
    <2>2. Step(c, "check", "probe") => act' \in [Actor -> [pc : PC, fs : Fs \cup {NoFs}, managed : BOOLEAN]]
        BY <2>1, <1>1, ActType DEF Step
    <2>3. Over(c) => act' \in [Actor -> [pc : PC, fs : Fs \cup {NoFs}, managed : BOOLEAN]]
        BY <2>1, <1>3 DEF Over, TypeOK
    <2>4. /\ reg' \subseteq Fs /\ obj' \in [Fs -> [started : BOOLEAN, cache : BOOLEAN]]
        BY <1>14, <2>1, <1>6 DEF AddMessage, TypeOK
    <2>5. QED
        BY <2>2, <2>3, <2>4, <1>14 DEF AddMessage, TypeOK
<1>15. ASSUME NEW x \in Actor, ActorStep(x) PROVE TypeOK'
    BY <1>15, ActorType
<1>16. ASSUME NEW f \in Fs, OverlayMounts(f) PROVE TypeOK'
    <2>1. /\ ofs' \in [Fs -> {"none", "starting", "up", "rooted", "dead"}]
          /\ mnt' \in [Fs -> {"none", "orig", "ofs"}]
          /\ \A g \in Fs : mnt'[g] = "ofs" \/ mnt'[g] = mnt[g]
        BY <1>16 DEF OverlayMounts, TypeOK
    <2>2. QED
        BY <2>1, <1>16 DEF OverlayMounts, TypeOK
<1>17. ASSUME NEW f \in Fs, OverlayDies(f) PROVE TypeOK'
    <2>1. /\ ofs' \in [Fs -> {"none", "starting", "up", "rooted", "dead"}]
          /\ thr' \in [Fs -> {"none", "run", "exited", "failed"}]
        BY <1>17 DEF OverlayDies, TypeOK
    <2>2. QED
        BY <2>1, <1>17, <1>2 DEF OverlayDies, TypeOK
<1>18. ASSUME NEW f \in Fs, Reap(f) PROVE TypeOK'
    <2> DEFINE u == (thr[f] = "failed" \/ srv = "up") /\ mnt[f] # "none"
    <2>1. /\ mnt' = [mnt EXCEPT ![f] = IF u THEN "none" ELSE @]
          /\ cache' = [cache EXCEPT ![f] = @ /\ ~u]
          /\ ofs' = [ofs EXCEPT ![f] = IF u THEN "none" ELSE @]
          /\ thr' = [thr EXCEPT ![f] = "none"]
        BY <1>18 DEF Reap
    <2> HIDE DEF u
    <2>2. mnt' \in [Fs -> {"none", "orig", "ofs"}] /\ (~u => mnt' = mnt)
        BY <2>1 DEF TypeOK
    <2>3. /\ ofs' \in [Fs -> {"none", "starting", "up", "rooted", "dead"}]
          /\ thr' \in [Fs -> {"none", "run", "exited", "failed"}]
        BY <2>1 DEF TypeOK
    <2>4. cache' \in [Fs -> BOOLEAN] /\ (u => ~cache'[f]) /\ \A g \in Fs : cache'[g] => cache[g]
        BY <2>1 DEF TypeOK
    <2>5. \A g \in Fs : g # f => mnt'[g] = mnt[g]
        BY <2>1 DEF TypeOK
    <2>6. \A g \in Fs : cache'[g] => mnt'[g] = "ofs"
        BY <2>2, <2>4, <2>5 DEF TypeOK
    <2>7. QED
        BY <2>2, <2>3, <2>4, <2>6, <1>18 DEF Reap, TypeOK
<1>19. ASSUME NEW f \in Fs, AdminMount(f) PROVE TypeOK'
    <2>1. /\ mnt[f] = "none" /\ mnt' \in [Fs -> {"none", "orig", "ofs"}]
          /\ \A g \in Fs : g # f => mnt'[g] = mnt[g]
        BY <1>19 DEF AdminMount, TypeOK
    <2>2. QED
        BY <2>1, <1>19 DEF AdminMount, TypeOK
<1>20. ASSUME NEW f \in Fs, AdminUmount(f) PROVE TypeOK'
    BY <1>20, UmountedType DEF AdminUmount, TypeOK
<1>21. CASE UNCHANGED vars
    BY <1>21 DEF vars, TypeOK
<1>22. QED
    BY <1>1, <1>2, <1>3, <1>4, <1>5, <1>6, <1>7, <1>8, <1>9, <1>10, <1>11,
       <1>12, <1>13, <1>14, <1>15, <1>16, <1>17, <1>18, <1>19, <1>20,
       <1>21 DEF Next

-----------------------------------------------------------------------------
(* A step is about one file system and at most one actor.                  *)

SameFs(g) ==
    /\ mnt'[g] = mnt[g] /\ cache'[g] = cache[g] /\ ofs'[g] = ofs[g] /\ thr'[g] = thr[g]
    /\ obj'[g] = obj[g] /\ (g \in reg' <=> g \in reg) /\ (g \in conf' <=> g \in conf)

(* What is not touched by a step of x that is about f.                     *)
Elsewhere(x, f) ==
    /\ \A y \in Actor : y # x => act'[y] = act[y]
    /\ \A g \in Fs : g # f => SameFs(g)

(* FileSystems::umount is about one mount point.                           *)
LEMMA UmountedEffect ==
    ASSUME TypeOK, NEW f \in Fs, Umounted(f)
    PROVE  /\ \A g \in Fs : g # f => /\ mnt'[g] = mnt[g] /\ cache'[g] = cache[g]
                                     /\ ofs'[g] = ofs[g] /\ thr'[g] = thr[g]
           /\ Serving(f) => thr'[f] # "run"
           /\ thr'[f] = "run" => thr[f] = "run"
           /\ thr[f] = "none" => thr'[f] = "none"
<1>1. \A g \in Fs : g # f => mnt'[g] = mnt[g] /\ cache'[g] = cache[g]
    BY DEF Umounted, TypeOK
<1>2. \A g \in Fs : g # f => ofs'[g] = ofs[g] /\ thr'[g] = thr[g]
    BY DEF Umounted, TypeOK
<1>3. thr'[f] = IF (mnt[f] = "ofs" /\ ofs[f] # "dead") /\ thr[f] = "run" THEN "exited" ELSE thr[f]
    BY DEF Umounted, TypeOK
<1>4. QED
    BY <1>1, <1>2, <1>3 DEF Serving

(* Steps of FuseFS::init and ~FuseFS.                                      *)
LEMMA ActorElsewhere ==
    ASSUME TypeOK, NEW x \in Actor, ActorStep(x), NEW f \in Fs, act[x].fs = f
    PROVE  Elsewhere(x, f) /\ todo' = todo /\ conf \subseteq conf'
<1> USE DEF server, host
<1>1. \A y \in Actor : y # x => act'[y] = act[y]
    BY DEF ActorStep, InitStep, UndoStep, Probe, Umount, FakeMount, PreMount,
       TimeOut, JoinThread, MountCache,
       PostMount, Detach, AddFs, Erase, UmountCache, UmountOverlay, JoinOverlay, NotManaged, Step, Over, TypeOK
<1>2. todo' = todo /\ conf \subseteq conf'
    BY DEF ActorStep, InitStep, UndoStep, Probe, Umount, FakeMount, PreMount,
       TimeOut, JoinThread, MountCache,
       PostMount, Detach, AddFs, Erase, UmountCache, UmountOverlay, JoinOverlay, NotManaged
<1>3. ASSUME NEW g \in Fs, g # f PROVE SameFs(g)
    <2> USE <1>3
    <2>1. CASE Probe(x) \/ TimeOut(x) \/ JoinThread(x) \/ JoinOverlay(x)
        BY <2>1 DEF Probe, TimeOut, JoinThread, JoinOverlay, SameFs
    <2>2. CASE Umount(x)
        BY <2>2, UmountedEffect DEF Umount, SameFs
    <2>3. CASE FakeMount(x)
        BY <2>3 DEF FakeMount, SameFs, TypeOK
    <2>4. CASE PreMount(x)
        BY <2>4 DEF PreMount, SameFs, TypeOK
    <2>5. CASE MountCache(x)
        BY <2>5 DEF MountCache, SameFs, TypeOK
    <2>6. CASE PostMount(x)
        BY <2>6 DEF PostMount, SameFs, TypeOK
    <2>7. CASE Detach(x)
        BY <2>7 DEF Detach, SameFs, TypeOK
    <2>8. CASE AddFs(x)
        BY <2>8 DEF AddFs, SameFs
    <2>9. CASE Erase(x)
        BY <2>9 DEF Erase, SameFs
    <2>10. CASE UmountCache(x)
        BY <2>10 DEF UmountCache, SameFs, TypeOK
    <2>11. CASE UmountOverlay(x)
        BY <2>11, UmountedEffect DEF UmountOverlay, SameFs
    <2>12. CASE NotManaged(x)
        BY <2>12 DEF NotManaged, SameFs, TypeOK
    <2>13. QED
        BY <2>1, <2>2, <2>3, <2>4, <2>5, <2>6, <2>7, <2>8, <2>9, <2>10, <2>11,
           <2>12 DEF ActorStep, InitStep, UndoStep
<1>4. QED
    BY <1>1, <1>2, <1>3 DEF Elsewhere

(* Where they take the actor and its file system: on to a state that is    *)
(* right for the next step, or to the end.                                 *)
LEMMA ActorEffect ==
    ASSUME TypeOK, NEW x \in Actor, ActorStep(x), NEW f \in Fs, act[x].fs = f, OwnInv(act[x].pc, f)
    PROVE  /\ act[x].pc \notin {"idle", "check"}
           /\ \/ /\ act'[x].fs = f /\ act'[x].pc \notin {"idle", "check"}
                 /\ OwnInv(act[x].pc, f)'
              \/ act'[x] = Idle /\ FreeInv(f)'
           /\ srv' = srv \/ (srv' # "down" /\ srv # "down")
<1> USE DEF server, host
<1>1. act[x].pc \notin {"idle", "check"}
    BY DEF ActorStep, InitStep, UndoStep, Probe, Umount, FakeMount, PreMount,
       TimeOut, JoinThread, MountCache,
       PostMount, Detach, AddFs, Erase, UmountCache, UmountOverlay, JoinOverlay, NotManaged, Step
<1>2. srv' = srv \/ (srv' # "down" /\ srv # "down")
    BY DEF ActorStep, InitStep, UndoStep, Probe, Umount, FakeMount, PreMount,
       TimeOut, JoinThread, MountCache,
       PostMount, Detach, AddFs, Erase, UmountCache, UmountOverlay, JoinOverlay, NotManaged
<1>3. ASSUME NEW p, NEW q, Step(x, p, q)
      PROVE  act[x].pc = p /\ act'[x].pc = q /\ act'[x].fs = f
    BY <1>3 DEF Step, TypeOK
<1> DEFINE G == /\ act'[x].fs = f /\ act'[x].pc \notin {"idle", "check"}
                /\ OwnInv(act[x].pc, f)'
<1>4. CASE Probe(x)
    <2>1. /\ act[x].pc = "probe" /\ act'[x].fs = f /\ act'[x].pc \in {"umount", "fake", "erase"}
        BY <1>4 DEF Probe, TypeOK
    <2>2. reg' = reg /\ obj' = obj /\ thr' = thr /\ mnt' = mnt /\ ofs' = ofs /\ cache' = cache
        BY <1>4 DEF Probe
    <2>3. obj[f] = Fresh /\ Calm(f) /\ f \in reg
        BY <2>1 DEF OwnInv
    <2>4. G
        BY <2>1, <2>2, <2>3 DEF OwnInv, Calm, Fresh
    <2>5. QED
        BY <2>4, <1>1, <1>2
<1>5. CASE Umount(x)
    <2>1. /\ act[x].pc = "umount" /\ act'[x].fs = f /\ act'[x].pc \in {"fake", "erase"}
        BY <1>5, <1>3 DEF Umount
    <2>2. obj[f] = Fresh /\ Calm(f) /\ f \in reg
        BY <2>1 DEF OwnInv
    <2>3. reg' = reg /\ obj' = obj /\ (thr'[f] = "run" => thr[f] = "run")
        BY <1>5, UmountedEffect DEF Umount
    <2>4. G
        BY <2>1, <2>2, <2>3 DEF OwnInv, Calm, Fresh
    <2>5. QED
        BY <2>4, <1>1, <1>2
<1>6. CASE FakeMount(x)
    <2>1. /\ act[x].pc = "fake" /\ act'[x].fs = f
          /\ act'[x].pc = "wait" \/ (act'[x].pc = "erase" /\ thr' = thr)
        BY <1>6, <1>3 DEF FakeMount
    <2>2. obj[f] = Fresh /\ Calm(f) /\ f \in reg
        BY <2>1 DEF OwnInv
    <2>3. reg' = reg /\ obj' = obj
        BY <1>6 DEF FakeMount
    <2>4. G
        BY <2>1, <2>2, <2>3 DEF OwnInv, Calm, Fresh
    <2>5. QED
        BY <2>4, <1>1, <1>2
<1>7. CASE PreMount(x)
    <2>1. act[x].pc = "wait" /\ act'[x].fs = f /\ act'[x].pc = "mount"
        BY <1>7, <1>3 DEF PreMount
    <2>2. obj[f] = Fresh /\ f \in reg
        BY <2>1 DEF OwnInv
    <2>3. reg' = reg /\ mnt' = mnt /\ ofs' = ofs /\ Live(f) /\ obj' = [obj EXCEPT ![f].started = TRUE]
        BY <1>7 DEF PreMount
    <2>4. obj'[f].started = TRUE /\ obj'[f].cache = obj[f].cache
        BY <2>3 DEF TypeOK
    <2>5. G
        BY <2>1, <2>2, <2>3, <2>4 DEF OwnInv, Serving, Live, Fresh
    <2>6. QED
        BY <2>5, <1>1, <1>2
<1>8. CASE TimeOut(x)
    <2>1. act[x].pc = "wait" /\ act'[x].fs = f /\ act'[x].pc = "join"
        BY <1>8, <1>3 DEF TimeOut
    <2>2. reg' = reg /\ obj' = obj
        BY <1>8 DEF TimeOut
    <2>3. G
        BY <2>1, <2>2 DEF OwnInv
    <2>4. QED
        BY <2>3, <1>1, <1>2
<1>9. CASE JoinThread(x)
    <2>1. act[x].pc = "join" /\ act'[x].fs = f /\ act'[x].pc = "erase"
        BY <1>9, <1>3 DEF JoinThread
    <2>2. reg' = reg /\ obj' = obj /\ thr'[f] = "none"
        BY <1>9 DEF JoinThread
    <2>3. G
        BY <2>1, <2>2 DEF OwnInv, Calm, Fresh
    <2>4. QED
        BY <2>3, <1>1, <1>2
<1>10. CASE MountCache(x)
    <2>1. /\ act[x].pc = "mount" /\ act'[x].fs = f /\ act'[x].pc \in {"post", "erase"}
        BY <1>10, <1>3 DEF MountCache
    <2>2. reg' = reg /\ thr' = thr /\ mnt' = mnt /\ ofs' = ofs
        BY <1>10 DEF MountCache
    <2>3. obj' = obj \/ obj' = [obj EXCEPT ![f].cache = TRUE]
        BY <1>10 DEF MountCache
    <2>4. obj'[f].started = obj[f].started
        BY <2>3 DEF TypeOK
    <2>5. G
        BY <2>1, <2>2, <2>4 DEF OwnInv, Serving
    <2>6. QED
        BY <2>5, <1>1, <1>2
<1>11. CASE PostMount(x)
    <2>1. /\ act[x].pc = "post" /\ act'[x].fs = f
          /\ (act'[x].pc = "detach" /\ ofs'[f] = "rooted") \/ (act'[x].pc = "erase" /\ ofs' = ofs)
        BY <1>11, <1>3 DEF PostMount, TypeOK
    <2>2. reg' = reg /\ thr' = thr /\ mnt' = mnt /\ obj' = obj
        BY <1>11 DEF PostMount
    <2>3. G
        BY <2>1, <2>2 DEF OwnInv, Serving, Rooted
    <2>4. QED
        BY <2>3, <1>1, <1>2
<1>12. CASE Detach(x)
    <2>1. reg' = reg /\ thr' = thr /\ mnt' = mnt /\ ofs' = ofs
        BY <1>12 DEF Detach
    <2>2. /\ act[x].pc = "detach" /\ act'[x].fs = f
          /\ \/ act'[x].pc = "addFs" /\ cache'[f] = FALSE /\ obj' = [obj EXCEPT ![f].cache = FALSE]
             \/ act'[x].pc = "erase" /\ obj' = obj
        BY <1>12, <1>3 DEF Detach, TypeOK
    <2>3. /\ obj'[f].started = obj[f].started
          /\ act'[x].pc = "addFs" => obj'[f].cache = FALSE
        BY <2>2 DEF TypeOK
    <2>4. G
        BY <2>1, <2>2, <2>3 DEF OwnInv, Serving, Rooted
    <2>5. QED
        BY <2>4, <1>1, <1>2
<1>13. CASE AddFs(x)
    <2>1. reg' = reg /\ thr' = thr /\ mnt' = mnt /\ ofs' = ofs /\ obj' = obj /\ cache' = cache
        BY <1>13 DEF AddFs
    <2>2. /\ act[x].pc = "addFs"
          /\ \/ act'[x] = Idle /\ f \in conf'
             \/ act'[x].pc = "erase" /\ act'[x].fs = f
        BY <1>13, <1>3 DEF AddFs, Over, TypeOK
    <2>3. f \in reg /\ obj[f].started /\ ~obj[f].cache /\ Rooted(f) /\ (thr[f] = "run" => ~cache[f])
        BY <2>2 DEF OwnInv
    <2>4. CASE act'[x] = Idle /\ f \in conf'
        BY <2>1, <2>3, <2>4, <1>1, <1>2 DEF FreeInv, Rooted
    <2>5. CASE act'[x].pc = "erase" /\ act'[x].fs = f
        <3>1. G
            BY <2>1, <2>3, <2>5 DEF OwnInv, Rooted, Serving
        <3>2. QED
            BY <3>1, <1>1, <1>2
    <2>6. QED
        BY <2>2, <2>4, <2>5
<1>14. CASE Erase(x)
    <2>1. act[x].pc = "erase" /\ act'[x].fs = f /\ act'[x].pc = "dtor"
        BY <1>14, <1>3 DEF Erase
    <2>2. f \notin reg' /\ obj' = obj /\ thr' = thr /\ mnt' = mnt /\ ofs' = ofs
        BY <1>14 DEF Erase
    <2>3. G
        BY <2>1, <2>2 DEF OwnInv, Calm, Serving
    <2>4. QED
        BY <2>3, <1>1, <1>2
<1>15. CASE UmountCache(x)
    <2>1. /\ act[x].pc = "dtor" /\ act'[x].fs = f
          /\ act'[x].pc = IF obj[f].started THEN "uofs" ELSE "failed"
        BY <1>15 DEF UmountCache, TypeOK
    <2>2. reg' = reg /\ obj' = obj /\ thr' = thr /\ mnt' = mnt /\ ofs' = ofs
        BY <1>15 DEF UmountCache
    <2>3. G
        BY <2>1, <2>2 DEF OwnInv, Calm, Serving
    <2>4. QED
        BY <2>3, <1>1, <1>2
<1>16. CASE UmountOverlay(x)
    <2>1. /\ act[x].pc = "uofs" /\ act'[x].fs = f /\ act'[x].pc \in {"ujoin", "failed"}
        BY <1>16, <1>3 DEF UmountOverlay
    <2>2. Serving(f) /\ f \notin reg
        BY <2>1 DEF OwnInv
    <2>3. reg' = reg /\ thr'[f] # "run"
        BY <1>16, <2>2, UmountedEffect DEF UmountOverlay, Serving
    <2>4. G
        BY <2>1, <2>2, <2>3 DEF OwnInv, Calm
    <2>5. QED
        BY <2>4, <1>1, <1>2
<1>17. CASE JoinOverlay(x)
    <2>1. act[x].pc = "ujoin" /\ act'[x].fs = f /\ act'[x].pc = "failed"
        BY <1>17, <1>3 DEF JoinOverlay
    <2>2. reg' = reg /\ thr' = thr
        BY <1>17 DEF JoinOverlay
    <2>3. G
        BY <2>1, <2>2 DEF OwnInv, Calm
    <2>4. QED
        BY <2>3, <1>1, <1>2
<1>18. CASE NotManaged(x)
    <2>1. act[x].pc = "failed" /\ act'[x] = Idle
        BY <1>18 DEF NotManaged, Over, TypeOK
    <2>2. reg' = reg /\ thr' = thr
        BY <1>18 DEF NotManaged
    <2>3. FreeInv(f)'
        BY <2>1, <2>2 DEF OwnInv, FreeInv, Calm, Rooted
    <2>4. QED
        BY <2>1, <2>3, <1>1, <1>2
<1>19. QED
    BY <1>1, <1>2, <1>3, <1>4, <1>5, <1>6, <1>7, <1>8, <1>9, <1>10, <1>11,
       <1>12, <1>13, <1>14, <1>15, <1>16, <1>17, <1>18 DEF ActorStep, InitStep,
       UndoStep

-----------------------------------------------------------------------------
(* Every step keeps the inductive invariant.                               *)

(* What is not touched stays right.                                        *)
LEMMA OthersKept ==
    ASSUME ManagedInv, NEW x \in Actor, NEW f \in Fs, Elsewhere(x, f),
           act[x].fs \in {f, NoFs}, act'[x].fs \in {f, NoFs},
           NEW g \in Fs, g # f
    PROVE  /\ FsInv(g)'
           /\ \A y \in Actor : Owner(y, g)' => Owner(y, g)
<1>1. g # NoFs
    BY FsAssumption
<1>2. SameFs(g) /\ \A y \in Actor : y # x => act'[y] = act[y]
    BY DEF Elsewhere
<1>3. \A y \in Actor : /\ Owner(y, g)' <=> Owner(y, g)
                       /\ Owner(y, g) => act'[y].pc = act[y].pc
    BY <1>1, <1>2 DEF Owner
<1>4. \A p : OwnInv(p, g) => OwnInv(p, g)'
    BY <1>2 DEF SameFs, OwnInv, Calm, Serving, Rooted
<1>5. FreeInv(g) => FreeInv(g)'
    BY <1>2 DEF SameFs, FreeInv, Calm, Rooted
<1>6. FsInv(g)
    BY DEF ManagedInv
<1>7. ASSUME NEW y \in Actor, Owner(y, g)' PROVE OwnInv(act[y].pc, g)'
    <2>1. Owner(y, g) /\ act'[y].pc = act[y].pc
        BY <1>3, <1>7
    <2>2. OwnInv(act[y].pc, g)
        BY <2>1, <1>6 DEF FsInv
    <2>3. PICK p : p = act[y].pc
        OBVIOUS
    <2>4. OwnInv(p, g)'
        BY <2>2, <2>3, <1>4
    <2>5. p = act'[y].pc
        BY <2>1, <2>3
    <2>6. QED
        BY <2>4, <2>5 DEF OwnInv, Calm, Serving, Rooted
<1>8. QED
    BY <1>3, <1>7, <1>5, <1>6 DEF FsInv

(* FuseFS::init and ~FuseFS.                                               *)
LEMMA ActorKeeps ==
    ASSUME ManagedInv, TypeOK', NEW x \in Actor, ActorStep(x)
    PROVE  ManagedInv'
<1>1. NoFs \notin Fs
    BY FsAssumption
<1>2. TypeOK /\ ActInv /\ DownInv /\ OwnerInv /\ TodoInv /\ \A g \in Fs : FsInv(g)
    BY DEF ManagedInv
<1>3. act[x].pc \notin {"idle", "check"}
    BY DEF ActorStep, InitStep, UndoStep, Probe, Umount, FakeMount, PreMount,
       TimeOut, JoinThread, MountCache,
       PostMount, Detach, AddFs, Erase, UmountCache, UmountOverlay, JoinOverlay, NotManaged, Step
<1>4. PICK f \in Fs : act[x].fs = f
    BY <1>3, <1>2 DEF ActInv
<1>5. Owner(x, f) /\ OwnInv(act[x].pc, f)
    BY <1>3, <1>4, <1>2 DEF Owner, FsInv
<1>6. ASSUME NEW y \in Actor, y # x, act[y].fs = f PROVE act[y].pc = "check" /\ f \in conf
    BY <1>6, <1>3, <1>4, <1>2 DEF OwnerInv
<1>7. /\ \/ /\ act'[x].fs = f /\ act'[x].pc \notin {"idle", "check"}
            /\ OwnInv(act[x].pc, f)'
         \/ act'[x] = Idle /\ FreeInv(f)'
      /\ srv' = srv \/ (srv' # "down" /\ srv # "down")
    BY <1>4, <1>5, <1>2, ActorEffect
<1>8. Elsewhere(x, f) /\ todo' = todo /\ conf \subseteq conf'
    BY <1>4, <1>2, ActorElsewhere
<1>9. Idle.pc = "idle" /\ Idle.fs = NoFs
    BY DEF Idle
<1>10. \A y \in Actor : y # x => act'[y] = act[y]
    BY <1>8 DEF Elsewhere
<1>11. \A g \in Fs : g # f => FsInv(g)' /\ \A y \in Actor : Owner(y, g)' => Owner(y, g)
    BY <1>4, <1>8, <1>7, <1>9, OthersKept
<1>12. FsInv(f)'
    <2>1. \A y \in Actor : y # x => ~Owner(y, f)'
        BY <1>10, <1>6 DEF Owner
    <2>2. CASE act'[x].fs = f /\ act'[x].pc \notin {"idle", "check"} /\ OwnInv(act[x].pc, f)'
        BY <2>1, <2>2 DEF FsInv, Owner
    <2>3. CASE act'[x] = Idle /\ FreeInv(f)'
        BY <2>1, <2>3, <1>9 DEF FsInv, Owner
    <2>4. QED
        BY <2>2, <2>3, <1>7
<1>13. ActInv'
    BY <1>10, <1>7, <1>9, <1>2 DEF ActInv
<1>14. DownInv'
    BY <1>7, <1>3, <1>2 DEF DownInv
<1>15. OwnerInv'
    <2> SUFFICES ASSUME NEW v \in Actor, NEW w \in Actor, v # w, act'[v].fs = act'[w].fs, act'[v].fs \in Fs
                 PROVE  act'[v].fs \in conf' /\ (act'[v].pc = "check" \/ act'[w].pc = "check")
        BY DEF OwnerInv
    <2>1. CASE v # x /\ w # x
        BY <2>1, <1>10, <1>8, <1>2 DEF OwnerInv
    <2>2. CASE v = x
        <3>1. act'[v].fs = f /\ act[w].fs = f /\ act'[w] = act[w]
            BY <2>2, <1>7, <1>9, <1>1, <1>10
        <3>2. QED
            BY <3>1, <2>2, <1>6, <1>8
    <2>3. CASE w = x
        <3>1. act'[w].fs = f /\ act[v].fs = f /\ act'[v] = act[v]
            BY <2>3, <1>7, <1>9, <1>1, <1>10
        <3>2. QED
            BY <3>1, <2>3, <1>6, <1>8
    <2>4. QED
        BY <2>1, <2>2, <2>3
<1>16. TodoInv'
    <2>1. \A g \in todo : g \in Fs /\ g # f
        BY <1>5, <1>2 DEF TodoInv, TypeOK
    <2>2. \A g \in todo : g \notin reg'
        BY <2>1, <1>8, <1>2 DEF TodoInv, Elsewhere, SameFs
    <2>3. QED
        BY <2>1, <2>2, <1>11, <1>8, <1>2 DEF TodoInv
<1>17. QED
    BY <1>12, <1>11, <1>13, <1>14, <1>15, <1>16 DEF ManagedInv

(* A thread that still runs is one whose overlay is untouched, or one that *)
(* nothing is said of.                                                     *)
Faithful(f) ==
    thr'[f] = "run" =>
       /\ thr[f] = "run"
       /\ \/ mnt'[f] = mnt[f] /\ ofs'[f] = ofs[f] /\ cache'[f] = cache[f]
          \/ ~Serving(f)

(* Overlay processes, their threads and the administrator.                 *)
LEMMA HostKeeps ==
    ASSUME ManagedInv, TypeOK', NEW f \in Fs,
           OverlayMounts(f) \/ OverlayDies(f) \/ Reap(f) \/ AdminMount(f) \/ AdminUmount(f)
    PROVE  ManagedInv'
<1> USE DEF server
<1>1. TypeOK /\ ActInv /\ DownInv /\ OwnerInv /\ TodoInv /\ \A g \in Fs : FsInv(g)
    BY DEF ManagedInv
<1>2. obj' = obj /\ reg' = reg /\ conf' = conf /\ act' = act /\ todo' = todo /\ srv' = srv
    BY DEF OverlayMounts, OverlayDies, Reap, AdminMount, AdminUmount
<1>3. /\ \A g \in Fs : g # f => /\ mnt'[g] = mnt[g] /\ cache'[g] = cache[g]
                                /\ ofs'[g] = ofs[g] /\ thr'[g] = thr[g]
      /\ Faithful(f) /\ (thr[f] = "none" => thr'[f] = "none")
    <2>1. CASE OverlayMounts(f)
        BY <2>1, <1>1 DEF OverlayMounts, TypeOK, Faithful, Serving
    <2>2. CASE OverlayDies(f)
        BY <2>2, <1>1 DEF OverlayDies, TypeOK, Faithful
    <2>3. CASE Reap(f)
        <3>1. thr'[f] = "none" /\ \A g \in Fs : g # f => thr'[g] = thr[g] /\ mnt'[g] = mnt[g]
            BY <2>3, <1>1 DEF Reap, TypeOK
        <3>2. \A g \in Fs : g # f => ofs'[g] = ofs[g] /\ cache'[g] = cache[g]
            BY <2>3, <1>1 DEF Reap, TypeOK
        <3>3. QED
            BY <3>1, <3>2 DEF Faithful
    <2>4. CASE AdminMount(f)
        BY <2>4, <1>1 DEF AdminMount, TypeOK, Faithful, Serving
    <2>5. CASE AdminUmount(f)
        BY <2>5, <1>1, UmountedEffect DEF AdminUmount, Faithful
    <2>6. QED
        BY <2>1, <2>2, <2>3, <2>4, <2>5
<1>4. ASSUME NEW g \in Fs PROVE FsInv(g)'
    <2>1. Faithful(g)
        BY <1>3 DEF Faithful
    <2>2. \A p : OwnInv(p, g) => OwnInv(p, g)'
        BY <2>1, <1>2 DEF OwnInv, Calm, Serving, Rooted, Faithful
    <2>3. FreeInv(g) => FreeInv(g)'
        BY <2>1, <1>2 DEF FreeInv, Calm, Serving, Rooted, Faithful
    <2>4. ASSUME NEW y \in Actor, Owner(y, g)' PROVE OwnInv(act[y].pc, g)'
        <3>1. OwnInv(act[y].pc, g)
            BY <2>4, <1>2, <1>1 DEF FsInv, Owner
        <3>2. PICK p : p = act[y].pc
            OBVIOUS
        <3>3. OwnInv(p, g)' /\ p = act'[y].pc
            BY <3>1, <3>2, <2>2, <1>2
        <3>4. QED
            BY <3>3 DEF OwnInv, Calm, Serving, Rooted
    <2>5. QED
        BY <2>3, <2>4, <1>2, <1>1 DEF FsInv, Owner
<1>5. ActInv' /\ OwnerInv' /\ TodoInv'
    BY <1>2, <1>1 DEF ActInv, OwnerInv, TodoInv, Owner
<1>6. DownInv'
    BY <1>2, <1>3, <1>1 DEF DownInv
<1>7. QED
    BY <1>4, <1>5, <1>6 DEF ManagedInv

(* A server that stops or dies has no actors left.                         *)
LEMMA ServerKeeps ==
    ASSUME ManagedInv, TypeOK', Start \/ Stop \/ Down \/ Crash \/ UNCHANGED vars
    PROVE  ManagedInv'
<1> USE DEF host
<1>1. TypeOK /\ ActInv /\ DownInv /\ OwnerInv /\ TodoInv /\ \A g \in Fs : FsInv(g)
    BY DEF ManagedInv
<1>2. NoFs \notin Fs
    BY FsAssumption
<1>3. Idle.pc = "idle" /\ Idle.fs = NoFs
    BY DEF Idle
<1>4. CASE Start \/ Stop \/ UNCHANGED vars
    <2>1. /\ obj' = obj /\ reg' = reg /\ conf' = conf /\ act' = act /\ mnt' = mnt /\ cache' = cache
          /\ ofs' = ofs /\ thr' = thr
        BY <1>4 DEF Start, Stop, vars
    <2>2. \A g \in Fs : FsInv(g)'
        BY <2>1, <1>1 DEF FsInv, Owner, OwnInv, FreeInv, Calm, Serving, Rooted
    <2>3. ActInv' /\ OwnerInv'
        BY <2>1, <1>1 DEF ActInv, OwnerInv
    <2>4. DownInv'
        BY <2>1, <1>4, <1>1 DEF Start, Stop, vars, DownInv
    <2>5. TodoInv'
        <3>1. CASE Start
            BY <3>1, <2>1, <1>1 DEF Start, DownInv, TodoInv, Owner
        <3>2. CASE Stop \/ UNCHANGED vars
            BY <3>2, <2>1, <1>1 DEF Stop, vars, TodoInv, Owner
        <3>3. QED
            BY <3>1, <3>2, <1>4
    <2>6. QED
        BY <2>2, <2>3, <2>4, <2>5 DEF ManagedInv
<1>5. CASE Down \/ Crash
    <2>1. \A x \in Actor : act'[x] = Idle
        BY <1>5, <1>1 DEF Down, Crash, AllIdle, ActInv
    <2>2. reg' = {} /\ todo' = {} /\ \A f \in Fs : thr'[f] = "none"
        BY <1>5 DEF Down, Crash
    <2>3. \A g \in Fs : FsInv(g)'
        BY <2>1, <2>2, <1>3 DEF FsInv, Owner, FreeInv, Calm, Rooted
    <2>4. ActInv' /\ OwnerInv' /\ DownInv' /\ TodoInv'
        BY <2>1, <2>2, <1>3, <1>2 DEF ActInv, OwnerInv, DownInv, TodoInv
    <2>5. QED
        BY <2>3, <2>4 DEF ManagedInv
<1>6. QED
    BY <1>4, <1>5

(* An actor takes up a file system, or turns away from it.                 *)
LEMMA TakesUp ==
    ASSUME ManagedInv, TypeOK', NEW x \in Actor, NEW f \in Fs, Elsewhere(x, f),
           srv' = srv, srv # "down", conf' = conf, todo' \subseteq todo,
           act[x].fs \in {f, NoFs},
           act'[x] = Idle \/ (act'[x].pc # "idle" /\ act'[x].fs = f),
           \A y \in Actor : y # x /\ act[y].fs = f => f \in conf /\ act[y].pc = "check",
           f \in todo' => f \notin reg' /\ \A y \in Actor : ~Owner(y, f)',
           FsInv(f)'
    PROVE  ManagedInv'
<1>1. NoFs \notin Fs
    BY FsAssumption
<1>2. TypeOK /\ ActInv /\ DownInv /\ OwnerInv /\ TodoInv /\ \A g \in Fs : FsInv(g)
    BY DEF ManagedInv
<1>3. Idle.pc = "idle" /\ Idle.fs = NoFs
    BY DEF Idle
<1>4. \A y \in Actor : y # x => act'[y] = act[y]
    BY DEF Elsewhere
<1>5. \A g \in Fs : g # f => FsInv(g)' /\ \A y \in Actor : Owner(y, g)' => Owner(y, g)
    BY <1>3, OthersKept
<1>6. ActInv'
    BY <1>4, <1>3, <1>2 DEF ActInv
<1>7. DownInv'
    BY DEF DownInv
<1>8. OwnerInv'
    <2> SUFFICES ASSUME NEW v \in Actor, NEW w \in Actor, v # w, act'[v].fs = act'[w].fs, act'[v].fs \in Fs
                 PROVE  act'[v].fs \in conf' /\ (act'[v].pc = "check" \/ act'[w].pc = "check")
        BY DEF OwnerInv
    <2>1. CASE v # x /\ w # x
        BY <2>1, <1>4, <1>2 DEF OwnerInv
    <2>2. CASE v = x
        <3>1. act'[v].fs = f /\ act[w].fs = f /\ act'[w] = act[w]
            BY <2>2, <1>3, <1>1, <1>4
        <3>2. QED
            BY <3>1, <2>2
    <2>3. CASE w = x
        <3>1. act'[w].fs = f /\ act[v].fs = f /\ act'[v] = act[v]
            BY <2>3, <1>3, <1>1, <1>4
        <3>2. QED
            BY <3>1, <2>3
    <2>4. QED
        BY <2>1, <2>2, <2>3
<1>9. TodoInv'
    <2>1. ASSUME NEW g \in todo', g # f PROVE g \notin reg' /\ \A y \in Actor : ~Owner(y, g)'
        <3>1. g \in Fs /\ g \in todo
            BY <2>1, <1>2 DEF TypeOK
        <3>2. g \notin reg'
            BY <3>1, <2>1, <1>2 DEF TodoInv, Elsewhere, SameFs
        <3>3. QED
            BY <3>1, <3>2, <2>1, <1>5, <1>2 DEF TodoInv
    <2>2. QED
        BY <2>1 DEF TodoInv
<1>10. QED
    BY <1>5, <1>6, <1>7, <1>8, <1>9 DEF ManagedInv

(* The new entry of managedFss: the object in it is one just constructed.  *)
LEMMA NewEntry ==
    ASSUME TypeOK, NEW f \in Fs, f \notin reg, Emplace(f), UNCHANGED <<conf, host>>, Calm(f)
    PROVE  /\ \A g \in Fs : g # f => SameFs(g)
           /\ OwnInv("probe", f)'
<1>1. obj' = [obj EXCEPT ![f] = Fresh] /\ reg' = reg \cup {f}
    BY DEF Emplace
<1>2. obj'[f] = Fresh /\ \A g \in Fs : g # f => obj'[g] = obj[g]
    BY <1>1 DEF TypeOK
<1>3. f \in reg' /\ thr' = thr
    BY <1>1 DEF host
<1>4. OwnInv("probe", f)'
    BY <1>2, <1>3 DEF OwnInv, Calm
<1>5. \A g \in Fs : g # f => SameFs(g)
    BY <1>1, <1>2 DEF SameFs, host
<1>6. QED
    BY <1>4, <1>5

(* TransRecall::run manages the configured file systems at a start.        *)
LEMMA ConfiguredKeeps ==
    ASSUME ManagedInv, TypeOK', NEW f \in Fs, ManageConfigured(f)
    PROVE  ManagedInv'
<1>1. NoFs \notin Fs
    BY FsAssumption
<1>2. TypeOK /\ ActInv /\ DownInv /\ OwnerInv /\ TodoInv /\ \A g \in Fs : FsInv(g)
    BY DEF ManagedInv
<1>3. "main" \in Actor /\ act["main"] = Idle /\ Idle.fs = NoFs /\ Idle.pc = "idle"
    BY <1>2 DEF Actor, ManageConfigured, ActInv, Idle
<1>4. f \in todo /\ f \in conf /\ f \notin reg /\ \A y \in Actor : ~Owner(y, f)
    BY <1>2 DEF ManageConfigured, TodoInv, TypeOK
<1>5. FreeInv(f) /\ Calm(f)
    BY <1>4, <1>2 DEF FsInv, FreeInv
<1>6. \A y \in Actor : act[y].fs = f => act[y].pc = "check"
    BY <1>4, <1>1, <1>2, <1>3 DEF Owner, ActInv
<1>7. /\ srv' = srv /\ srv # "down" /\ conf' = conf /\ todo' = todo \ {f}
      /\ UNCHANGED <<conf, host>>
    BY DEF ManageConfigured
<1>8. CASE FsObjOpens(f)
    <2>1. Emplace(f) /\ act' = [act EXCEPT !["main"] = [pc |-> "probe", fs |-> f, managed |-> FALSE]]
        BY <1>8 DEF ManageConfigured
    <2>2. /\ act'["main"].pc = "probe" /\ act'["main"].fs = f
          /\ \A y \in Actor : y # "main" => act'[y] = act[y]
        BY <2>1, <1>3, <1>2 DEF TypeOK
    <2>3. OwnInv("probe", f)' /\ \A g \in Fs : g # f => SameFs(g)
        BY <2>1, <1>4, <1>5, <1>7, <1>2, NewEntry
    <2>4. Elsewhere("main", f)
        BY <2>2, <2>3 DEF Elsewhere
    <2>5. \A y \in Actor : y # "main" => ~Owner(y, f)'
        BY <2>2, <1>4 DEF Owner
    <2>6. Owner("main", f)' /\ OwnInv(act["main"].pc, f)'
        BY <2>2, <2>3 DEF Owner, OwnInv
    <2>7. FsInv(f)'
        BY <2>5, <2>6, <1>3 DEF FsInv
    <2>8. QED
        BY <2>2, <2>4, <2>7, <1>3, <1>6, <1>4, <1>7, TakesUp
<1>9. CASE ~FsObjOpens(f)
    <2>1. reg' = reg /\ obj' = obj /\ act' = act
        BY <1>9 DEF ManageConfigured
    <2>2. /\ mnt' = mnt /\ cache' = cache /\ ofs' = ofs /\ thr' = thr
        BY <1>7 DEF host
    <2>3. \A g \in Fs : FsInv(g)'
        BY <2>1, <2>2, <1>7, <1>2 DEF FsInv, Owner, OwnInv, FreeInv, Calm,
           Serving, Rooted
    <2>4. ActInv' /\ OwnerInv' /\ DownInv'
        BY <2>1, <1>7, <1>2 DEF ActInv, OwnerInv, DownInv
    <2>5. TodoInv'
        BY <2>1, <1>7, <1>2 DEF TodoInv, Owner
    <2>6. QED
        BY <2>3, <2>4, <2>5 DEF ManagedInv
<1>10. QED
    BY <1>8, <1>9

(* ~Connector destroys the objects of the managed file systems.            *)
LEMMA ClearKeeps ==
    ASSUME ManagedInv, TypeOK', NEW f \in Fs, Clear(f)
    PROVE  ManagedInv'
<1>1. NoFs \notin Fs
    BY FsAssumption
<1>2. TypeOK /\ ActInv /\ DownInv /\ OwnerInv /\ TodoInv /\ \A g \in Fs : FsInv(g)
    BY DEF ManagedInv
<1>3. Idle.pc = "idle" /\ Idle.fs = NoFs /\ \A y \in Actor : act[y] = Idle
    BY <1>2 DEF Clear, AllIdle, ActInv, Idle
<1>4. "main" \in Actor
    BY DEF Actor
<1>5. /\ srv' = srv /\ srv # "down" /\ conf' = conf /\ todo' = todo /\ todo = {} /\ f \in reg
      /\ reg' = reg \ {f} /\ obj' = obj /\ mnt' = mnt /\ cache' = cache /\ ofs' = ofs /\ thr' = thr
    BY DEF Clear, host
<1>6. FreeInv(f)
    BY <1>3, <1>2 DEF FsInv, Owner
<1>7. /\ act'["main"].pc = "dtor" /\ act'["main"].fs = f
      /\ \A y \in Actor : y # "main" => act'[y] = act[y]
    BY <1>4, <1>2 DEF Clear, TypeOK
<1>8. Elsewhere("main", f)
    BY <1>7, <1>5 DEF Elsewhere, SameFs
<1>9. OwnInv(act["main"].pc, f)'
    BY <1>7, <1>5, <1>6 DEF OwnInv, FreeInv, Serving, Rooted
<1>10. \A y \in Actor : y # "main" => ~Owner(y, f)'
    BY <1>7, <1>3 DEF Owner
<1>11. FsInv(f)'
    BY <1>10, <1>9, <1>7, <1>4 DEF FsInv, Owner
<1>12. QED
    BY <1>11, <1>8, <1>7, <1>5, <1>3, <1>4, <1>1, TakesUp

(* The client looks a mount point up and sends the add message.            *)
LEMMA CommandKeeps ==
    ASSUME ManagedInv, TypeOK', NEW c \in Adder, NEW f \in Fs, AddCommand(c, f)
    PROVE  ManagedInv'
<1>1. NoFs \notin Fs
    BY FsAssumption
<1>2. TypeOK /\ ActInv /\ DownInv /\ OwnerInv /\ TodoInv /\ \A g \in Fs : FsInv(g)
    BY DEF ManagedInv
<1>3. c \in Actor /\ act[c].fs = NoFs
    BY <1>2 DEF Actor, AddCommand, ActInv, Idle
<1>4. \A y \in Actor : act[y].fs # f
    BY DEF AddCommand, Free
<1>5. /\ srv' = srv /\ srv # "down" /\ conf' = conf /\ todo' = todo /\ reg' = reg
      /\ obj' = obj /\ mnt' = mnt /\ cache' = cache /\ ofs' = ofs /\ thr' = thr
    BY DEF AddCommand, host, server
<1>6. /\ act'[c].pc = "check" /\ act'[c].fs = f
      /\ \A y \in Actor : y # c => act'[y] = act[y]
    BY <1>3, <1>2 DEF AddCommand, TypeOK
<1>7. Elsewhere(c, f)
    BY <1>6, <1>5 DEF Elsewhere, SameFs
<1>8. \A y \in Actor : ~Owner(y, f)' /\ ~Owner(y, f)
    BY <1>6, <1>4 DEF Owner
<1>9. FreeInv(f)
    BY <1>8, <1>2 DEF FsInv
<1>10. FsInv(f)'
    BY <1>8, <1>9, <1>5 DEF FsInv, FreeInv, Calm, Rooted
<1>11. f \in todo' => f \notin reg' /\ \A y \in Actor : ~Owner(y, f)'
    BY <1>8, <1>5, <1>2 DEF TodoInv
<1>12. QED
    BY <1>10, <1>7, <1>6, <1>5, <1>11, <1>4, <1>3, TakesUp

(* MessageParser::addMessage turns away, or is the only one to go on.      *)
LEMMA MessageKeeps ==
    ASSUME ManagedInv, TypeOK', NEW c \in Adder, AddMessage(c)
    PROVE  ManagedInv'
<1>1. NoFs \notin Fs
    BY FsAssumption
<1>2. TypeOK /\ ActInv /\ DownInv /\ OwnerInv /\ TodoInv /\ \A g \in Fs : FsInv(g)
    BY DEF ManagedInv
<1>3. c \in Actor /\ act[c].pc = "check" /\ Idle.pc = "idle" /\ Idle.fs = NoFs
    BY DEF Actor, AddMessage, Idle
<1>4. PICK f \in Fs : act[c].fs = f
    BY <1>3, <1>2 DEF ActInv
<1>5. srv' = srv /\ conf' = conf /\ todo' = todo /\ UNCHANGED <<conf, host>>
    BY DEF AddMessage
<1>6. srv # "down"
    BY <1>3, <1>2 DEF DownInv
<1>7. CASE Over(c) /\ UNCHANGED <<reg, obj>>
    <2>1. act'[c] = Idle /\ \A y \in Actor : y # c => act'[y] = act[y]
        BY <1>7, <1>3, <1>2 DEF Over, TypeOK
    <2>2. /\ reg' = reg /\ obj' = obj /\ mnt' = mnt /\ cache' = cache /\ ofs' = ofs /\ thr' = thr
        BY <1>7, <1>5 DEF host
    <2>3. \A y \in Actor, g \in Fs : Owner(y, g)' <=> Owner(y, g)
        BY <2>1, <1>3, <1>1 DEF Owner
    <2>4. \A g \in Fs : \A p : OwnInv(p, g) <=> OwnInv(p, g)'
        BY <2>2 DEF OwnInv, Calm, Serving, Rooted
    <2>5. ASSUME NEW g \in Fs PROVE FsInv(g)'
        <3>1. FreeInv(g) => FreeInv(g)'
            BY <2>2, <1>5 DEF FreeInv, Calm, Rooted
        <3>2. ASSUME NEW y \in Actor, Owner(y, g)' PROVE OwnInv(act[y].pc, g)'
            <4>1. y # c
                BY <3>2, <2>1, <1>3 DEF Owner
            <4>2. OwnInv(act[y].pc, g)
                BY <3>2, <2>3, <1>2 DEF FsInv
            <4>3. PICK p : p = act[y].pc
                OBVIOUS
            <4>4. OwnInv(p, g)' /\ p = act'[y].pc
                BY <4>1, <4>2, <4>3, <2>1, <2>4
            <4>5. QED
                BY <4>4 DEF OwnInv, Calm, Serving, Rooted
        <3>3. QED
            BY <3>1, <3>2, <2>3, <1>2 DEF FsInv
    <2>6. ActInv'
        BY <2>1, <1>2, <1>3 DEF ActInv
    <2>7. OwnerInv'
        <3> SUFFICES ASSUME NEW v \in Actor, NEW w \in Actor, v # w, act'[v].fs = act'[w].fs, act'[v].fs \in Fs
                     PROVE  act'[v].fs \in conf' /\ (act'[v].pc = "check" \/ act'[w].pc = "check")
            BY DEF OwnerInv
        <3>1. v # c /\ w # c
            BY <2>1, <1>3, <1>1
        <3>2. QED
            BY <3>1, <2>1, <1>5, <1>2 DEF OwnerInv
    <2>8. DownInv'
        BY <1>5, <1>6 DEF DownInv
    <2>9. TodoInv'
        BY <2>2, <2>3, <1>5, <1>2 DEF TodoInv, TypeOK
    <2>10. QED
        BY <2>5, <2>6, <2>7, <2>8, <2>9 DEF ManagedInv
<1>8. CASE f \notin conf /\ Emplace(f) /\ Step(c, "check", "probe")
    <2>1. \A y \in Actor : y # c => act[y].fs # f
        BY <1>8, <1>3, <1>4, <1>2 DEF OwnerInv
    <2>2. \A y \in Actor : ~Owner(y, f)
        BY <2>1, <1>3 DEF Owner
    <2>3. f \notin reg /\ Calm(f)
        BY <2>2, <1>8, <1>2 DEF FsInv, FreeInv
    <2>4. /\ act'[c].pc = "probe" /\ act'[c].fs = f
          /\ \A y \in Actor : y # c => act'[y] = act[y]
        BY <1>8, <1>3, <1>4, <1>2 DEF Step, TypeOK
    <2>5. OwnInv("probe", f)' /\ \A g \in Fs : g # f => SameFs(g)
        BY <2>3, <1>8, <1>5, <1>2, NewEntry
    <2>6. Elsewhere(c, f)
        BY <2>4, <2>5 DEF Elsewhere
    <2>7. \A y \in Actor : y # c => ~Owner(y, f)'
        BY <2>4, <2>1 DEF Owner
    <2>8. Owner(c, f)' /\ OwnInv(act[c].pc, f)'
        BY <2>4, <2>5 DEF Owner, OwnInv
    <2>9. FsInv(f)'
        BY <2>7, <2>8, <1>3 DEF FsInv
    <2>10. f \notin todo'
        BY <1>8, <1>5, <1>2 DEF TypeOK
    <2>11. QED
        BY <2>1, <2>4, <2>6, <2>9, <2>10, <1>3, <1>4, <1>5, <1>6, TakesUp
<1>9. QED
    BY <1>7, <1>8, <1>4 DEF AddMessage

(* All of them.                                                            *)
LEMMA NextManagedInv == ManagedInv /\ [Next]_vars => ManagedInv'
<1> SUFFICES ASSUME ManagedInv, [Next]_vars PROVE ManagedInv'
    OBVIOUS
<1>1. TypeOK'
    BY NextTypeOK DEF ManagedInv
<1>2. CASE Start \/ Stop \/ Down \/ Crash \/ UNCHANGED vars
    BY <1>2, <1>1, ServerKeeps
<1>3. CASE \E f \in Fs : ManageConfigured(f) \/ Clear(f)
    BY <1>3, <1>1, ConfiguredKeeps, ClearKeeps
<1>4. CASE \E c \in Adder, f \in Fs : AddCommand(c, f)
    BY <1>4, <1>1, CommandKeeps
<1>5. CASE \E c \in Adder : AddMessage(c)
    BY <1>5, <1>1, MessageKeeps
<1>6. CASE \E x \in Actor : ActorStep(x)
    BY <1>6, <1>1, ActorKeeps
<1>7. CASE \E f \in Fs : \/ OverlayMounts(f) \/ OverlayDies(f) \/ Reap(f)
                         \/ AdminMount(f) \/ AdminUmount(f)
    BY <1>7, <1>1, HostKeeps
<1>8. QED
    BY <1>2, <1>3, <1>4, <1>5, <1>6, <1>7 DEF Next

(* The inductive invariant holds in every reachable state.                 *)
LEMMA ManagedInvAlways == Spec => []ManagedInv
BY InitManagedInv, NextManagedInv, PTL DEF Spec

-----------------------------------------------------------------------------
(* The managed file systems keep their types, and a cache is mounted only  *)
(* inside an overlay, whatever fails on the way in or out of FuseFS::init. *)
THEOREM ManagedTypeCorrect == Spec => []TypeOK
<1>1. ManagedInv => TypeOK
    BY DEF ManagedInv
<1>2. QED
    BY <1>1, ManagedInvAlways, PTL

(* A file system nobody works on is managed completely or not at all: one  *)
(* without an entry in managedFss has no overlay of this server, and one   *)
(* with an entry is configured, was set up to the end of FuseFS::init, and *)
(* shows no way to the original file system while its overlay lives.       *)
THEOREM ManagedOrGoneAlways == Spec => []ManagedOrGone
<1>1. ASSUME ManagedInv PROVE ManagedOrGone
    <2> SUFFICES ASSUME NEW f \in Fs, Free(f) PROVE FreeInv(f)
        BY DEF ManagedOrGone, FreeInv, Calm, Rooted
    <2>1. \A x \in Actor : ~Owner(x, f)
        BY DEF Free, Owner
    <2>2. QED
        BY <2>1, <1>1 DEF ManagedInv, FsInv
<1>2. QED
    BY <1>1, ManagedInvAlways, PTL
=============================================================================
