-------------------------- MODULE BotServiceProofs --------------------------
(***************************************************************************)
(* Proofs about BotService, for every heartbeat, backoff and limit on      *)
(* faults.                                                                 *)
(***************************************************************************)
EXTENDS BotService, TLAPS

(***************************************************************************)
(* How far the process is decides which of its tasks exist, and whether    *)
(* they were told to stop.                                                 *)
(***************************************************************************)
TasksFollow ==
    /\ ~Up => writer = "ended" /\ publisher = "ended"
    /\ aborted <=> proc \in {"final", "exit"}
    /\ queue # <<>> => proc = "drain"
    /\ proc = "loop" => loop_state = "starting"
    /\ Up => ages.run = 0

(***************************************************************************)
(* A descriptor is open only while its writer is at it; the two writers    *)
(* meet only when this was remembered.                                     *)
(***************************************************************************)
WritersApart ==
    /\ fd["task"] # "closed" => writer = "writing"
    /\ fd["main"] # "closed" => proc = "final"
    /\ writer = "writing" => proc \in {"drain", "final", "exit"}
    /\ proc \in {"final", "exit"} /\ ~raced => writer # "writing"

(***************************************************************************)
(* The flag of the status is up only while there is a sidecar, or when no  *)
(* time passes any more.                                                   *)
(***************************************************************************)
SidecarFlag ==
    /\ child \in {"alive", "dead"} <=> publisher = "wait"
    /\ child = "alive" => publisher_alive /\ ages.sidecar = 0
    /\ publisher_alive => ages.sidecar = 0 /\ (publisher = "wait" \/ aborted)

Control == TypeOK /\ TasksFollow /\ WritersApart /\ SidecarFlag

(***************************************************************************)
(* The final write, when nothing disturbs it, brings "stopped" into the    *)
(* file: it is at most one step behind its own text.                       *)
(***************************************************************************)
FinalWrite ==
    /\ fd["main"] \in {"none", "tmp", "written"}
    /\ snap["main"] \in MakerStatus /\ snap["main"].loop_state = "stopped"
    /\ fd["main"] = "tmp" => tmp = Torn
    /\ fd["main"] = "written" => tmp = snap["main"]
StopWritten ==
    ~raced /\ ~lost =>
        /\ proc = "final" => FinalWrite
        /\ proc = "exit" => file \in MakerStatus /\ file.loop_state = "stopped"

(***************************************************************************)
(* What a missing sidecar has cost so far, for each place its task can be  *)
(* at: a backoff for each failure, the last one perhaps not yet over.      *)
(***************************************************************************)
Allowance(n) == Backoff * n
Missing(age) ==
    /\ publisher = "spawn" => age <= Allowance(faults)
    /\ publisher = "backoff" => age + Backoff <= Allowance(faults) + waited /\ waited <= Backoff
Supervised ==
    proc = "loop" /\ ~cancel /\ heartbeat > 0 /\ script =>
        /\ publisher # "ended"
        /\ publisher = "wait" => ages.sidecar = 0
        /\ child = "dead" => faults >= 1
        /\ Missing(ages.sidecar) \/ Missing(started)

(***************************************************************************)
(* What a status says of the time since is true: of each text that is, or  *)
(* may still get, into the file.                                           *)
(***************************************************************************)
HonestAt(f, run, without, start, offer) ==
    f \in MakerStatus =>
        /\ run <= f.updated_at
        /\ f.publisher_alive => without <= f.updated_at
        /\ start <= f.started_at
        /\ f.last_offer_publish # None =>
              \/ start <= f.last_offer_publish
              \/ offer # None /\ offer <= f.last_offer_publish
Honest(f) == HonestAt(f, ages.run, ages.sidecar, started, last_offer_publish)
AllHonest ==
    /\ Honest(file)
    /\ \A w \in Writers :
          /\ fd[w] # "closed" => Honest(snap[w])
          /\ fd[w] \notin {"closed", "none"} => Honest(tmp)

(***************************************************************************)
(* The file of a running loop is at most n Ticks old, tells what runs, and *)
(* was regular as long as the offers were.                                 *)
(***************************************************************************)
Fresh(n) ==
    /\ file \in MakerStatus /\ file.updated_at <= n /\ file.loop_state = "starting"
    /\ child = "alive" /\ ~file.publisher_alive => ages.lives <= file.updated_at
    /\ regular =>
          IF file.last_offer_publish # None
          THEN file.last_offer_publish <= heartbeat + file.updated_at
          ELSE file.started_at <= heartbeat + file.updated_at
KeptFresh ==
    proc = "loop" =>
        /\ regular => Since <= heartbeat
        /\ ~lost /\ ~cancel =>
              /\ writer # "ended"
              /\ writer = "sleep" => Fresh(0)
              /\ writer = "slept" => Fresh(1)
              /\ writer = "reading" => started = 0 \/ Fresh(1)
              /\ writer = "slow" => started <= 1 \/ Fresh(2)

-----------------------------------------------------------------------------
(***************************************************************************)
(* Ages are numbers, capped beyond every limit.                            *)
(***************************************************************************)
LEMMA CapType ==
    ASSUME heartbeat \in Nat
    PROVE  AgeCap \in Nat /\ AgeCap >= 4
<1> DEFINE S == {3, 3 * heartbeat, Backoff * MaxFaults}
<1>1. S \subseteq Nat
  BY ServiceAssumption
<1>2. \E m \in S : \A k \in S : k <= m
  <2>1. \A x, y, z \in Nat : \E m \in {x, y, z} : \A k \in {x, y, z} : k <= m
    OBVIOUS
  <2> QED
    BY <1>1, <2>1
<1> DEFINE m == CHOOSE m \in S : \A k \in S : k <= m
<1>3. m \in S /\ \A k \in S : k <= m
  BY <1>2
<1>4. m \in Nat /\ m >= 3
  BY <1>1, <1>3
<1> QED
  BY <1>4 DEF AgeCap

(***************************************************************************)
(* Growing older keeps the order of two ages, and adds at most one.        *)
(***************************************************************************)
LEMMA OlderType ==
    ASSUME heartbeat \in Nat
    PROVE  /\ \A a \in Nat : Older(a) \in Nat /\ Older(a) <= a + 1
           /\ \A a \in Nat \cup {None} : Older(a) \in Nat \cup {None} /\ (Older(a) = None <=> a = None)
           /\ \A a, b \in Nat : a <= b => Older(a) <= Older(b)
           /\ \A a \in 0..3 : Older(a) = a + 1
BY CapType, ServiceAssumption DEF Older

(***************************************************************************)
(* A status whose ages have grown is a status, of the same sidecar and the *)
(* same loop.                                                              *)
(***************************************************************************)
LEMMA AgedType ==
    ASSUME heartbeat \in Nat, NEW f \in MakerStatus
    PROVE  /\ f \notin {NoFile, Torn} /\ Aged(f) \in MakerStatus
           /\ Aged(f).updated_at = Older(f.updated_at)
           /\ Aged(f).started_at = Older(f.started_at)
           /\ Aged(f).last_offer_publish = Older(f.last_offer_publish)
           /\ Aged(f).publisher_alive = f.publisher_alive
           /\ Aged(f).loop_state = f.loop_state
<1>1. f \notin {NoFile, Torn}
  BY FileAssumption
<1> QED
  BY <1>1, OlderType DEF Aged, MakerStatus

(***************************************************************************)
(* A snapshot is a status.                                                 *)
(***************************************************************************)
LEMMA SnapshotType ==
    ASSUME TypeOK
    PROVE  snapshot \in MakerStatus
BY DEF TypeOK, Flags, snapshot, MakerStatus

(***************************************************************************)
(* The flags stay flags.                                                   *)
(***************************************************************************)
LEMMA FlagsStep ==
    ASSUME Flags, [Next]_vars
    PROVE  Flags'
<1> USE DEF config, main, sidecar, files, ghosts, Flags
<1>1. CASE Launch \/ RefuseToStart \/ StartLoop \/ InstallHandler \/ note_status_from_progress
  <2>1. CASE Launch \/ RefuseToStart
    BY <2>1, Zenon DEF Launch, RefuseToStart
  <2>2. CASE StartLoop
    BY <2>2, Zenon DEF StartLoop
  <2>3. CASE InstallHandler \/ note_status_from_progress
    BY <2>3, Zenon DEF InstallHandler, note_status_from_progress
  <2> QED
    BY <1>1, <2>1, <2>2, <2>3
<1>2. CASE LoopEnds \/ StopTasks \/ Exit
  BY <1>2, Zenon DEF LoopEnds, StopTasks, Exit, Forgotten
<1>3. CASE Signal \/ Crash
  <2>1. CASE Die /\ asked' \in BOOLEAN
    BY <2>1, Zenon DEF Die, Forgotten
  <2>2. CASE Signal /\ ~Die
    BY <2>2, Zenon DEF Signal
  <2> QED
    BY <1>3, <2>1, <2>2, Zenon DEF Signal, Crash
<1>4. CASE Publisher \/ note_offer_publish \/ SidecarDies
  <2>1. UNCHANGED <<script, handler, cancel, aborted, asked, regular, lost, raced, announced>>
    BY <1>4 DEF Publisher, SpawnSidecar, SidecarExited, KillSidecar, BackoffEnds,
       AbortPublisher, note_offer_publish, SidecarDies, PublisherOnly
  <2>2. publisher_alive' \in {TRUE, FALSE, publisher_alive}
    BY <1>4, Zenon DEF Publisher, SpawnSidecar, SidecarExited, KillSidecar, BackoffEnds,
       AbortPublisher, note_offer_publish, SidecarDies
  <2> QED
    BY <2>1, <2>2, Zenon
<1>5. CASE WriteStatus \/ ReadBalances \/ WriterWakes
  <2>1. UNCHANGED <<script, handler, cancel, aborted, asked, publisher_alive, regular, lost, raced,
                  announced>>
    BY <1>5 DEF WriteStatus, ReadBalances, WriterWakes, WriterOnly
  <2> QED
    BY <2>1, Zenon
<1>6. ASSUME NEW w \in Writers, OpenTmp(w) \/ WriteTmp(w) \/ WriteFails(w) \/ RenameTmp(w)
      PROVE  Flags'
  <2>1. UNCHANGED <<script, handler, cancel, aborted, asked, publisher_alive, regular, raced,
                  announced>>
    BY <1>6 DEF OpenTmp, WriteTmp, WriteFails, RenameTmp, FilesOnly
  <2>2. lost' \in {lost, TRUE}
    BY <1>6, Zenon DEF OpenTmp, WriteTmp, WriteFails, RenameTmp
  <2> QED
    BY <2>1, <2>2, Zenon
<1>7. CASE Tick
  BY <1>7, Zenon DEF Tick
<1>8. CASE UNCHANGED vars
  BY <1>8, Zenon DEF vars
<1> QED
  BY <1>1, <1>2, <1>3, <1>4, <1>5, <1>6, <1>7, <1>8 DEF Next, Main, Writer, Writing, Writers

(***************************************************************************)
(* The type invariant is kept by every step.                               *)
(***************************************************************************)
LEMMA TypeStep ==
    ASSUME TypeOK, [Next]_vars
    PROVE  TypeOK'
<1> USE DEF config, main, sidecar, files, ghosts, NoFault, LoopStates
<1>0. Flags'
  BY FlagsStep DEF TypeOK
<1>1. faults' \in Nat
  <2>1. Fault \/ NoFault \/ UNCHANGED vars
    <3>1. CASE Main \/ Launch \/ RefuseToStart \/ LoopEnds \/ Signal \/ Crash \/ Tick
      BY <3>1 DEF Main, Writing, Launch, RefuseToStart, StartLoop, InstallHandler, Crash, Signal,
         LoopEnds, note_status_from_progress, StopTasks, Exit, OpenTmp, WriteTmp, RenameTmp, Tick
    <3>2. CASE Publisher \/ note_offer_publish \/ SidecarDies
      BY <3>2 DEF Publisher, SpawnSidecar, note_offer_publish, SidecarDies, SidecarExited,
         KillSidecar, BackoffEnds, AbortPublisher
    <3>3. CASE Writer \/ \E w \in Writers : WriteFails(w)
      BY <3>3 DEF Writer, Writing, WriteStatus, ReadBalances, WriterWakes, OpenTmp, WriteTmp,
         WriteFails, RenameTmp
    <3> QED
      BY <3>1, <3>2, <3>3 DEF Next
  <2> QED
    BY <2>1 DEF TypeOK, Fault, vars
<1>2. ASSUME Die PROVE TypeOK'
  <2>1. /\ snap' \in [Writers -> MakerStatus \cup {Torn}]
        /\ fd' \in [Writers -> Descriptors]
    BY <1>2 DEF Die, Descriptors
  <2>2. ages' \in Ages
    BY <1>2 DEF Die, Forgotten, TypeOK, Ages
  <2>3. queue' \in Queues
    BY <1>2 DEF Die, Queues
  <2> QED
    BY <1>0, <1>1, <1>2, <2>1, <2>2, <2>3 DEF TypeOK, Die, Orphaned, Forgotten
<1>3. CASE Launch \/ RefuseToStart \/ InstallHandler
  BY <1>0, <1>1, <1>3 DEF TypeOK, Launch, RefuseToStart, InstallHandler
<1>4. CASE StartLoop \/ LoopEnds \/ Exit
  <2>1. ages' \in Ages
    BY <1>4 DEF TypeOK, StartLoop, LoopEnds, Exit, Forgotten, Ages
  <2>2. queue' \in Queues
    BY <1>4 DEF TypeOK, StartLoop, LoopEnds, Exit, Queues
  <2> QED
    BY <1>0, <1>1, <1>4, <2>1, <2>2 DEF TypeOK, StartLoop, LoopEnds, Exit, Forgotten,
       Dropped, Orphaned
<1>5. CASE note_status_from_progress
  <2>1. /\ queue' \in Queues
        /\ loop_state' \in LoopStates
    <3>1. CASE queue = <<"stopped">>
      <4>1. Head(queue) = "stopped" /\ Tail(queue) = <<>>
        BY <3>1
      <4> QED
        BY <1>5, <4>1 DEF note_status_from_progress, Queues
    <3>2. CASE queue = <<"cancelled", "stopped">>
      <4>1. Head(queue) = "cancelled" /\ Tail(queue) = <<"stopped">>
        BY <3>2
      <4> QED
        BY <1>5, <4>1 DEF note_status_from_progress, Queues
    <3> QED
      BY <1>5, <3>1, <3>2 DEF TypeOK, note_status_from_progress, Queues
  <2> QED
    BY <1>0, <1>1, <1>5, <2>1 DEF TypeOK, note_status_from_progress
<1>6. CASE StopTasks
  <2>1. [snapshot EXCEPT !.loop_state = "stopped"] \in MakerStatus
    BY SnapshotType DEF MakerStatus
  <2> QED
    BY <1>0, <1>1, <1>6, <2>1 DEF TypeOK, StopTasks, Writers, Descriptors
<1>7. CASE Signal
  <2>1. CASE handler \/ proc = "down"
    BY <1>0, <1>1, <1>7, <2>1 DEF TypeOK, Signal
  <2> QED
    BY <1>2, <1>7, <2>1 DEF Signal
<1>8. CASE Crash
  BY <1>2, <1>8 DEF Crash, TypeOK
<1>9. CASE \/ Publisher \/ note_offer_publish \/ SidecarDies
  <2>1. ages' \in Ages
    <3>1. CASE SpawnSidecar
      <4>1. ages \in Ages
        BY DEF TypeOK
      <4>2. ages' = [ages EXCEPT !.lives = 0, !.sidecar = IF child' = "alive" THEN 0 ELSE @]
        BY <3>1 DEF SpawnSidecar
      <4> QED
        BY <4>1, <4>2 DEF Ages
    <3>2. CASE ages' = ages
      BY <3>2 DEF TypeOK
    <3> QED
      BY <1>9, <3>1, <3>2 DEF Publisher, SidecarExited, KillSidecar, BackoffEnds, AbortPublisher,
         note_offer_publish, SidecarDies
  <2>2. CASE SpawnSidecar \/ SidecarDies \/ note_offer_publish
    BY <1>0, <1>1, <2>1, <2>2 DEF TypeOK, SpawnSidecar, note_offer_publish, SidecarDies, PublisherOnly
  <2>3. CASE SidecarExited \/ KillSidecar \/ BackoffEnds \/ AbortPublisher
    BY <1>0, <1>1, <2>1, <2>3 DEF TypeOK, SidecarExited, KillSidecar, BackoffEnds, AbortPublisher,
       Dropped, Orphaned, PublisherOnly
  <2> QED
    BY <1>9, <2>2, <2>3 DEF Publisher
<1>10. CASE WriteStatus \/ ReadBalances \/ WriterWakes
  BY <1>0, <1>1, <1>10, SnapshotType DEF TypeOK, WriteStatus, ReadBalances, WriterWakes, WriterOnly,
     Writers, Descriptors
<1>11. ASSUME NEW w \in Writers, OpenTmp(w) \/ WriteTmp(w) PROVE TypeOK'
  BY <1>0, <1>1, <1>11 DEF TypeOK, OpenTmp, WriteTmp, Written, FilesOnly, Descriptors
<1>12. ASSUME NEW w \in Writers, WriteFails(w) PROVE TypeOK'
  BY <1>0, <1>1, <1>12 DEF TypeOK, WriteFails, Done, FilesOnly, Descriptors
<1>13. ASSUME NEW w \in Writers, RenameTmp(w) PROVE TypeOK'
  <2>1. fd' \in [Writers -> Descriptors]
    <3>1. "closed" \in Descriptors /\ "file" \in Descriptors /\ "gone" \in Descriptors
      BY DEF Descriptors
    <3>2. \A u, v \in Writers : \A x, y \in Descriptors :
             [fd EXCEPT ![u] = x, ![v] = y] \in [Writers -> Descriptors]
      BY DEF TypeOK
    <3> QED
      BY <1>13, <3>1, <3>2 DEF TypeOK, RenameTmp, Writers
  <2> QED
    BY <1>0, <1>1, <1>13, <2>1 DEF TypeOK, RenameTmp, Done, FilesOnly
<1>14. CASE Tick
  <2>2. started' \in Nat /\ last_offer_publish' \in Nat \cup {None}
    BY <1>14, OlderType DEF Tick, TypeOK
  <2>3. ages' \in Ages
    BY <1>14, OlderType DEF Tick, TypeOK, Ages
  <2>4. file' \in MakerStatus \cup {NoFile, Torn}
    <3>1. CASE file \in {NoFile, Torn}
      BY <1>14, <3>1 DEF Tick, Aged
    <3>2. CASE file \in MakerStatus
      BY <1>14, <3>2, AgedType DEF Tick, TypeOK
    <3> QED
      BY <3>1, <3>2 DEF TypeOK
  <2>5. writer' \in {"reading", "slow", "sleep", "slept", "writing", "ended"} /\ waited' \in Nat
    BY <1>14 DEF Tick, TypeOK, ReadTakes
  <2> QED
    BY <1>0, <1>1, <1>14, <2>2, <2>3, <2>4, <2>5 DEF TypeOK, Tick
<1>15. CASE UNCHANGED vars
  BY <1>0, <1>15 DEF TypeOK, vars
<1> QED
  BY <1>3, <1>4, <1>5, <1>6, <1>7, <1>8, <1>9, <1>10, <1>11, <1>12, <1>13, <1>14, <1>15
     DEF Next, Main, Writer, Writing, Writers

(***************************************************************************)
(* What a step does to the three ages.                                     *)
(***************************************************************************)
LEMMA AgesStep ==
    ASSUME TypeOK
    PROVE  /\ StartLoop => /\ ages'.run = 0
                           /\ ages'.sidecar = ages.sidecar /\ ages'.lives = ages.lives
           /\ Forgotten => /\ ages'.run = ages.run
                           /\ ages'.sidecar = ages.sidecar /\ ages'.lives = 0
           /\ SpawnSidecar => /\ ages'.run = ages.run /\ ages'.lives = 0
                              /\ ages'.sidecar = IF child' = "alive" THEN 0 ELSE ages.sidecar
           /\ Tick => /\ ages'.run = IF Up THEN 0 ELSE Older(ages.run)
                      /\ ages'.sidecar = IF child = "alive" THEN 0 ELSE Older(ages.sidecar)
                      /\ ages'.lives = IF child = "alive" THEN Older(ages.lives) ELSE 0
<1>1. ages \in Ages
  BY DEF TypeOK
<1>2. ASSUME StartLoop \/ Forgotten
      PROVE  /\ StartLoop => /\ ages'.run = 0
                             /\ ages'.sidecar = ages.sidecar /\ ages'.lives = ages.lives
             /\ Forgotten => /\ ages'.run = ages.run
                             /\ ages'.sidecar = ages.sidecar /\ ages'.lives = 0
  BY <1>1 DEF StartLoop, Forgotten, Ages
<1>3. ASSUME SpawnSidecar
      PROVE  /\ ages'.run = ages.run /\ ages'.lives = 0
             /\ ages'.sidecar = IF child' = "alive" THEN 0 ELSE ages.sidecar
  <2>1. ages' = [ages EXCEPT !.lives = 0, !.sidecar = IF child' = "alive" THEN 0 ELSE @]
    BY <1>3 DEF SpawnSidecar
  <2> QED
    BY <1>1, <2>1 DEF Ages
<1>4. ASSUME Tick
      PROVE  /\ ages'.run = IF Up THEN 0 ELSE Older(ages.run)
             /\ ages'.sidecar = IF child = "alive" THEN 0 ELSE Older(ages.sidecar)
             /\ ages'.lives = IF child = "alive" THEN Older(ages.lives) ELSE 0
  BY <1>4 DEF Tick
<1> QED
  BY <1>2, <1>3, <1>4

(***************************************************************************)
(* A death leaves no task, no flag and no open descriptor.                 *)
(***************************************************************************)
LEMMA DeathControl ==
    ASSUME Control, TypeOK', Die
    PROVE  Control'
BY AgesStep DEF Control, TasksFollow, WritersApart, SidecarFlag, Up, Die, Orphaned, Writers, TypeOK

(***************************************************************************)
(* The steps of the process that are not a death keep the order of its     *)
(* tasks.                                                                  *)
(***************************************************************************)
LEMMA ProcessControl ==
    ASSUME Control, TypeOK',
           \/ Launch \/ RefuseToStart \/ StartLoop \/ InstallHandler \/ Signal \/ Crash
           \/ LoopEnds \/ note_status_from_progress \/ StopTasks \/ Exit
    PROVE  Control'
<1> USE DEF Control, TasksFollow, WritersApart, SidecarFlag, Up, config, main, sidecar, files,
            ghosts
<1>1. CASE Launch \/ RefuseToStart \/ InstallHandler
  BY <1>1 DEF Launch, RefuseToStart, InstallHandler
<1>2. CASE StartLoop
  BY <1>2, AgesStep DEF StartLoop, TypeOK
<1>3. CASE Signal \/ Crash
  <2>1. CASE Signal /\ (handler \/ proc = "down")
    BY <2>1 DEF Signal
  <2> QED
    BY <1>3, <2>1, DeathControl DEF Signal, Crash
<1>4. CASE LoopEnds
  BY <1>4, AgesStep DEF LoopEnds, Forgotten
<1>5. CASE note_status_from_progress
  BY <1>5 DEF note_status_from_progress
<1>6. CASE StopTasks
  BY <1>6 DEF StopTasks, TypeOK, Writers
<1>7. CASE Exit
  BY <1>7, AgesStep DEF Exit, Forgotten, Dropped, Orphaned
<1> QED
  BY <1>1, <1>2, <1>3, <1>4, <1>5, <1>6, <1>7

(***************************************************************************)
(* The steps of the publisher and of its sidecar keep the flag of the      *)
(* status.                                                                 *)
(***************************************************************************)
LEMMA PublisherControl ==
    ASSUME Control, TypeOK', Publisher \/ note_offer_publish \/ SidecarDies
    PROVE  Control'
<1> USE DEF Control, TasksFollow, WritersApart, SidecarFlag, Up, config, main, sidecar, files,
            ghosts, PublisherOnly
<1>1. CASE SpawnSidecar
  BY <1>1, AgesStep DEF SpawnSidecar
<1>2. CASE SidecarExited \/ KillSidecar
  BY <1>2 DEF SidecarExited, KillSidecar
<1>3. CASE BackoffEnds \/ AbortPublisher
  BY <1>3 DEF BackoffEnds, AbortPublisher, Dropped, Orphaned
<1>4. CASE note_offer_publish \/ SidecarDies
  BY <1>4 DEF note_offer_publish, SidecarDies
<1> QED
  BY <1>1, <1>2, <1>3, <1>4 DEF Publisher

(***************************************************************************)
(* The writers and the clock.                                              *)
(***************************************************************************)
LEMMA WriterControl ==
    ASSUME Control, TypeOK',
           \/ WriteStatus \/ ReadBalances \/ WriterWakes
           \/ \E w \in Writers : OpenTmp(w) \/ WriteTmp(w) \/ RenameTmp(w) \/ WriteFails(w)
    PROVE  Control'
<1> USE DEF Control, TasksFollow, WritersApart, SidecarFlag, Up, config, main, sidecar, files,
            ghosts, WriterOnly, FilesOnly
<1>1. CASE WriteStatus \/ ReadBalances \/ WriterWakes
  BY <1>1 DEF WriteStatus, ReadBalances, WriterWakes, TypeOK, Writers
<1>2. ASSUME NEW w \in Writers, OpenTmp(w) \/ WriteTmp(w) PROVE Control'
  BY <1>2 DEF OpenTmp, WriteTmp, TypeOK, Writers
<1>3. ASSUME NEW w \in Writers, WriteFails(w) PROVE Control'
  BY <1>3 DEF WriteFails, Done, TypeOK, Writers
<1>4. ASSUME NEW w \in Writers, RenameTmp(w) PROVE Control'
  BY <1>4 DEF RenameTmp, Done, TypeOK, Writers
<1> QED
  BY <1>1, <1>2, <1>3, <1>4

(***************************************************************************)
(* Time passes only when nothing is due, so the flag and the descriptors   *)
(* stay true.                                                              *)
(***************************************************************************)
LEMMA TickControl ==
    ASSUME Control, TypeOK', Tick
    PROVE  Control'
<1>1. ~Due /\ UNCHANGED <<config, main, loop_state, publisher, child, publisher_alive, snap, fd, tmp,
                          lost, raced>>
      /\ writer' = IF writer = "sleep" THEN "slept" ELSE ReadTakes(writer)
  BY DEF Tick
<1>2. TasksFollow'
  BY <1>1, AgesStep DEF Control, TasksFollow, Up, main, ReadTakes, Due
<1>3. WritersApart'
  BY <1>1 DEF Control, WritersApart, main, ReadTakes
<1>4. SidecarFlag'
  BY <1>1, AgesStep DEF Control, TasksFollow, SidecarFlag, Up, main, Due, TypeOK
<1> QED
  BY <1>2, <1>3, <1>4 DEF Control

(***************************************************************************)
(* Every step keeps the order of the tasks.                                *)
(***************************************************************************)
LEMMA ControlStep ==
    ASSUME Control, [Next]_vars
    PROVE  Control'
<1>1. TypeOK'
  BY TypeStep DEF Control
<1>2. CASE UNCHANGED vars
  BY <1>1, <1>2 DEF vars, config, main, sidecar, files, ghosts, Control, TasksFollow,
     WritersApart, SidecarFlag, Up
<1> QED
  BY <1>1, <1>2, ProcessControl, PublisherControl, WriterControl, TickControl
     DEF Next, Main, Writer, Writing, Writers

(***************************************************************************)
(* At first there is no process, and so no task.                           *)
(***************************************************************************)
LEMMA ControlInit == Init => Control
<1> SUFFICES ASSUME Init PROVE Control
  OBVIOUS
<1>1. heartbeat \in Nat
  BY ServiceAssumption DEF Init, resolve_heartbeat
<1>2. Flags
  <2>1. /\ script \in BOOLEAN /\ handler = FALSE /\ cancel = FALSE /\ aborted = FALSE
        /\ asked = FALSE /\ publisher_alive = FALSE /\ regular = TRUE /\ lost = FALSE
        /\ raced = FALSE /\ announced = FALSE
    BY DEF Init
  <2> QED
    BY <2>1, Zenon DEF Flags
<1>3. ages \in Ages /\ started \in Nat
  BY <1>1, CapType DEF Init, Ages
<1>4. queue \in Queues
  BY DEF Init, Queues
<1>5. TypeOK
  BY <1>1, <1>2, <1>3, <1>4 DEF Init, TypeOK, LoopStates, Writers, Descriptors
<1> QED
  BY <1>5 DEF Init, Control, TasksFollow, WritersApart, SidecarFlag, Up, Writers

(***************************************************************************)
(* The order of the tasks holds in every state.                            *)
(***************************************************************************)
LEMMA ControlHolds == Spec => []Control
<1> QED
  BY ControlInit, ControlStep, PTL DEF Spec

(***************************************************************************)
(* Every variable keeps its type.                                          *)
(***************************************************************************)
THEOREM TypeCorrect == Spec => []TypeOK
<1>1. Control => TypeOK
  BY DEF Control
<1> QED
  BY <1>1, ControlHolds, PTL

-----------------------------------------------------------------------------
(***************************************************************************)
(* The final write goes its way: while it does, and no writer raced it,    *)
(* nothing else has the files open.                                        *)
(***************************************************************************)
LEMMA StopStep ==
    ASSUME Control, Control', StopWritten, [Next]_vars
    PROVE  StopWritten'
<1> USE DEF config, main, sidecar, files, ghosts, StopWritten, FinalWrite
<1>0. TypeOK /\ TasksFollow /\ WritersApart
  BY DEF Control
<1>1. ASSUME Die PROVE StopWritten'
  BY <1>1 DEF Die
<1>2. CASE Launch \/ RefuseToStart \/ StartLoop \/ InstallHandler \/ LoopEnds \/ Exit
           \/ note_status_from_progress
  BY <1>2 DEF Launch, RefuseToStart, StartLoop, InstallHandler, LoopEnds, Exit,
     note_status_from_progress
<1>3. CASE StopTasks
  <2>1. [snapshot EXCEPT !.loop_state = "stopped"] \in MakerStatus
        /\ [snapshot EXCEPT !.loop_state = "stopped"].loop_state = "stopped"
    BY <1>0, SnapshotType DEF MakerStatus, LoopStates
  <2> QED
    BY <1>0, <1>3, <2>1 DEF StopTasks, TypeOK, Writers
<1>4. CASE Signal \/ Crash
  BY <1>1, <1>4 DEF Signal, Crash
<1>5. CASE Publisher \/ note_offer_publish \/ SidecarDies
  BY <1>5 DEF Publisher, SpawnSidecar, SidecarExited, KillSidecar, BackoffEnds, AbortPublisher,
     note_offer_publish, SidecarDies, PublisherOnly
<1>6. CASE WriteStatus \/ ReadBalances \/ WriterWakes
  BY <1>0, <1>6 DEF WriteStatus, ReadBalances, WriterWakes, WriterOnly, TasksFollow
<1>7. CASE OpenTmp("task") \/ WriteTmp("task") \/ RenameTmp("task") \/ WriteFails("task")
  BY <1>0, <1>7 DEF OpenTmp, WriteTmp, RenameTmp, WriteFails, Done, FilesOnly, WritersApart
<1>8. CASE OpenTmp("main") \/ WriteTmp("main") \/ WriteFails("main")
  BY <1>0, <1>8 DEF OpenTmp, WriteTmp, Written, WriteFails, Done, FilesOnly, WritersApart, TypeOK,
     Writers
<1>9. CASE RenameTmp("main")
  BY <1>0, <1>9, FileAssumption DEF RenameTmp, Done, FilesOnly, WritersApart, TypeOK, Writers
<1>10. CASE Tick
  BY <1>10 DEF Tick, Due
<1>11. CASE UNCHANGED vars
  BY <1>11 DEF vars
<1> QED
  BY <1>2, <1>3, <1>4, <1>5, <1>6, <1>7, <1>8, <1>9, <1>10, <1>11
     DEF Next, Main, Writer, Writing, Writers

(***************************************************************************)
(* A stop goes unseen in two ways only: a write of the status failed, or   *)
(* the status writer was at its own when cmd_maker_loop told it to stop.   *)
(***************************************************************************)
THEOREM StopsAreSeen == Spec => [](raced \/ StopIsSeen)
<1>1. Init => StopWritten
  BY DEF Init, StopWritten
<1>2. Control /\ StopWritten => raced \/ StopIsSeen
  BY DEF StopWritten, StopIsSeen, cmd_maker_status
<1> QED
  BY <1>1, <1>2, StopStep, ControlHolds, PTL DEF Spec

-----------------------------------------------------------------------------
(***************************************************************************)
(* Once a stop was announced for an interval there is no sidecar, and no   *)
(* task to start one; before, an orphan is there only when the process     *)
(* that left it is ending or gone.                                         *)
(***************************************************************************)
Reaped ==
    /\ handler \/ cancel => Up
    /\ child = "orphan" => ~Up \/ aborted
    /\ announced => publisher = "ended" /\ child = "none"

(***************************************************************************)
(* Each step keeps this: the clock, because everything the publisher does  *)
(* after the cancel is due; the death and the drop, because they find      *)
(* nothing to orphan.                                                      *)
(***************************************************************************)
LEMMA ReapedStep ==
    ASSUME Control, Reaped, [Next]_vars
    PROVE  Reaped'
<1> USE DEF config, main, sidecar, files, ghosts, Up
<1>0. TasksFollow /\ SidecarFlag /\ TypeOK
  BY DEF Control
<1>1. ASSUME Die PROVE Reaped'
  BY <1>1 DEF Die, Orphaned, Forgotten, Reaped
<1>2. CASE Launch \/ RefuseToStart \/ InstallHandler \/ note_status_from_progress
  BY <1>0, <1>2 DEF Launch, RefuseToStart, InstallHandler, note_status_from_progress, Reaped,
     TasksFollow
<1>3. CASE StartLoop
  BY <1>3 DEF StartLoop, Reaped
<1>4. CASE LoopEnds \/ StopTasks
  BY <1>4 DEF LoopEnds, StopTasks, Forgotten, Reaped
<1>5. CASE Exit
  BY <1>5 DEF Exit, Dropped, Orphaned, Forgotten, Reaped
<1>6. CASE Signal \/ Crash
  BY <1>1, <1>6 DEF Signal, Crash, Reaped
<1>7. CASE SpawnSidecar \/ SidecarExited \/ KillSidecar
  BY <1>0, <1>7 DEF SpawnSidecar, SidecarExited, KillSidecar, PublisherOnly, SidecarFlag, Reaped
<1>8. CASE BackoffEnds \/ AbortPublisher
  BY <1>0, <1>8 DEF BackoffEnds, AbortPublisher, Dropped, Orphaned, PublisherOnly, Reaped
<1>9. CASE note_offer_publish \/ SidecarDies
  BY <1>9 DEF note_offer_publish, SidecarDies, PublisherOnly, Reaped
<1>10. CASE WriteStatus \/ ReadBalances \/ WriterWakes
  BY <1>10 DEF WriteStatus, ReadBalances, WriterWakes, WriterOnly, Reaped
<1>11. ASSUME NEW w \in Writers, OpenTmp(w) \/ WriteTmp(w) \/ RenameTmp(w) \/ WriteFails(w)
       PROVE  Reaped'
  <2>1. UNCHANGED <<handler, cancel, aborted, sidecar, announced>>
    BY <1>11 DEF OpenTmp, WriteTmp, RenameTmp, WriteFails, FilesOnly
  <2>2. proc' = proc \/ (proc' = "exit" /\ proc = "final")
    BY <1>11 DEF OpenTmp, WriteTmp, RenameTmp, WriteFails, Done, WritersApart, Control,
       Writers
  <2> QED
    BY <2>1, <2>2 DEF Reaped
<1>12. CASE Tick
  <2>1. ~Due /\ UNCHANGED <<main, publisher, child>> /\ announced' = (announced \/ cancel)
    BY <1>12 DEF Tick
  <2>2. cancel => publisher = "ended" /\ child = "none"
    BY <1>0, <2>1 DEF Due, Reaped, TasksFollow, SidecarFlag, TypeOK
  <2> QED
    BY <2>1, <2>2 DEF Reaped
<1>13. CASE UNCHANGED vars
  BY <1>13 DEF vars, Reaped
<1> QED
  BY <1>2, <1>3, <1>4, <1>5, <1>6, <1>7, <1>8, <1>9, <1>10, <1>11, <1>12, <1>13
     DEF Next, Main, Publisher, Writer, Writing, Writers

(***************************************************************************)
(* A stop announced for an interval leaves no sidecar behind, however the  *)
(* process ends: the drop of the publisher's task is only needed by a loop *)
(* that ends at once or by itself.                                         *)
(***************************************************************************)
THEOREM StopsReap == Spec => []AnnouncedStopReaps
<1>1. Init => Reaped
  BY DEF Init, Reaped
<1>2. Reaped => AnnouncedStopReaps
  BY DEF Reaped, AnnouncedStopReaps
<1> QED
  BY <1>1, <1>2, ReapedStep, ControlHolds, PTL DEF Spec

-----------------------------------------------------------------------------
(***************************************************************************)
(* Another failure allows for another backoff.                             *)
(***************************************************************************)
LEMMA BackoffGrows ==
    ASSUME NEW n \in Nat
    PROVE  /\ Backoff \in Nat /\ Allowance(n) \in Nat
           /\ Allowance(n + 1) = Allowance(n) + Backoff
           /\ n >= 1 => Backoff <= Allowance(n)
<1>1. Backoff \in Nat
  BY ServiceAssumption
<1>2. \A b, k \in Nat : b * k \in Nat /\ b * (k + 1) = b * k + b
  BY SMT
<1>3. ASSUME n >= 1 PROVE Backoff <= Backoff * n
  <2>1. PICK k \in Nat : n = k + 1
    BY <1>3
  <2> QED
    BY <1>1, <1>2, <2>1
<1> QED
  BY <1>1, <1>2, <1>3 DEF Allowance

(***************************************************************************)
(* Every step keeps what a missing sidecar may have cost: only a failure   *)
(* starts a backoff, and no time passes between its end and the next       *)
(* spawn.                                                                  *)
(***************************************************************************)
LEMMA SupervisedStep ==
    ASSUME Control, Control', Supervised, [Next]_vars
    PROVE  Supervised'
<1> USE DEF config, main, sidecar, files, ghosts, NoFault
<1>0. /\ TypeOK /\ TasksFollow /\ SidecarFlag /\ faults \in Nat /\ waited \in Nat /\ started \in Nat
      /\ heartbeat \in Nat /\ ages.sidecar \in Nat
  BY DEF Control, TypeOK, Ages
<1>1. /\ Backoff \in Nat /\ Allowance(faults) \in Nat
      /\ Allowance(faults + 1) = Allowance(faults) + Backoff
      /\ faults >= 1 => Backoff <= Allowance(faults)
  BY <1>0, BackoffGrows
<1>2. ASSUME faults' \in {faults, faults + 1},
             UNCHANGED <<config, publisher, waited, child, started, ages>>,
             proc' = "loop" /\ ~cancel' => proc = "loop" /\ ~cancel
      PROVE  Supervised'
  BY <1>0, <1>1, <1>2 DEF Supervised, Missing
<1>3. ASSUME proc' # "loop" PROVE Supervised'
  BY <1>3 DEF Supervised
<1>4. CASE StartLoop
  BY <1>0, <1>1, <1>4, AgesStep DEF StartLoop, Supervised, Missing, SidecarFlag, TasksFollow, Up
<1>5. CASE \/ Launch \/ RefuseToStart \/ InstallHandler \/ Signal \/ Crash \/ LoopEnds
           \/ note_status_from_progress \/ StopTasks \/ Exit
  BY <1>2, <1>3, <1>5 DEF Launch, RefuseToStart, InstallHandler, Signal, Crash, Die, LoopEnds,
     note_status_from_progress, StopTasks, Exit
<1>6. CASE SpawnSidecar
  BY <1>0, <1>1, <1>6, AgesStep DEF SpawnSidecar, PublisherOnly, Fault, Supervised, Missing,
     SidecarFlag
<1>7. CASE SidecarExited
  BY <1>0, <1>1, <1>7 DEF SidecarExited, PublisherOnly, Supervised, Missing
<1>8. CASE KillSidecar \/ AbortPublisher
  <2>1. cancel' \/ proc' \in {"final", "exit"}
    BY <1>0, <1>8 DEF KillSidecar, AbortPublisher, PublisherOnly, TasksFollow
  <2> QED
    BY <2>1 DEF Supervised
<1>9. CASE BackoffEnds
  BY <1>0, <1>1, <1>9 DEF BackoffEnds, PublisherOnly, Supervised, Missing
<1>10. CASE note_offer_publish
  BY <1>2, <1>10 DEF note_offer_publish, PublisherOnly
<1>11. CASE SidecarDies
  BY <1>0, <1>1, <1>11 DEF SidecarDies, PublisherOnly, Supervised, Missing, SidecarFlag, Fault
<1>12. CASE WriteStatus \/ ReadBalances \/ WriterWakes
           \/ \E w \in Writers : OpenTmp(w) \/ WriteTmp(w) \/ RenameTmp(w) \/ WriteFails(w)
  BY <1>2, <1>12 DEF WriteStatus, ReadBalances, WriterWakes, WriterOnly, OpenTmp, WriteTmp,
     RenameTmp, WriteFails, Done, FilesOnly, Fault
<1>13. CASE Tick
  <2>1. ~Due /\ UNCHANGED <<config, main, publisher, child, faults>>
        /\ waited' = (IF publisher = "backoff" THEN waited + 1 ELSE waited)
        /\ started' = Older(started)
    BY <1>13 DEF Tick
  <2>2. /\ started' \in Nat /\ started' <= started + 1
        /\ ages'.sidecar \in Nat /\ ages'.sidecar <= ages.sidecar + 1
        /\ child = "alive" => ages'.sidecar = 0
    <3>1. /\ Older(started) \in Nat /\ Older(started) <= started + 1
          /\ Older(ages.sidecar) \in Nat /\ Older(ages.sidecar) <= ages.sidecar + 1
      BY <1>0, OlderType
    <3>2. ages'.sidecar = IF child = "alive" THEN 0 ELSE Older(ages.sidecar)
      BY <1>0, <1>13, AgesStep
    <3> QED
      BY <1>0, <2>1, <3>1, <3>2
  <2> QED
    BY <1>0, <1>1, <2>1, <2>2 DEF Due, Supervised, Missing, SidecarFlag, TypeOK
<1>14. CASE UNCHANGED vars
  BY <1>2, <1>14 DEF vars
<1> QED
  BY <1>4, <1>5, <1>6, <1>7, <1>8, <1>9, <1>10, <1>11, <1>12, <1>13, <1>14
     DEF Next, Main, Publisher, Writer, Writing, Writers

(***************************************************************************)
(* A running bot misses its sidecar for at most one backoff per failure.   *)
(***************************************************************************)
THEOREM SidecarsReturn == Spec => []SidecarReturns
<1>1. Init => Supervised
  BY DEF Init, Supervised
<1>2. Control /\ Supervised => SidecarReturns
  <2> SUFFICES ASSUME Control, Supervised PROVE SidecarReturns
    OBVIOUS
  <2>1. /\ faults \in Nat /\ waited \in Nat /\ started \in Nat /\ ages.sidecar \in Nat
        /\ publisher \in {"spawn", "wait", "backoff", "ended"}
    BY DEF Control, TypeOK, Ages
  <2>2. ASSUME proc = "loop" /\ ~cancel /\ heartbeat > 0 /\ script
        PROVE  \E age \in {ages.sidecar, started} : age <= Allowance(faults)
    BY <2>1, <2>2, BackoffGrows DEF Supervised, Missing
  <2> QED
    BY <2>2 DEF Allowance, SidecarReturns
<1> QED
  BY <1>1, <1>2, SupervisedStep, ControlHolds, PTL DEF Spec

-----------------------------------------------------------------------------
(***************************************************************************)
(* An honest text stays honest while no time passes, and while it is aged. *)
(***************************************************************************)
LEMMA HonestLater ==
    ASSUME NEW f, NEW run \in Nat, NEW without \in Nat, NEW start \in Nat, NEW offer \in Nat \cup {None},
           HonestAt(f, run, without, start, offer),
           NEW run1 \in {0, run}, NEW without1 \in {0, without},
           NEW start1 \in Nat, NEW offer1 \in Nat \cup {None},
           start1 = 0 \/ (start1 = start /\ offer1 \in {0, offer})
    PROVE  HonestAt(f, run1, without1, start1, offer1)
BY ServiceAssumption DEF HonestAt, MakerStatus

(***************************************************************************)
(* With every Tick the text in the file grows older by as much as what it  *)
(* is about, or more.                                                      *)
(***************************************************************************)
LEMMA HonestAged ==
    ASSUME TypeOK, TasksFollow, SidecarFlag, Honest(file), Tick
    PROVE  Honest(file)'
<1>1. CASE file \in MakerStatus
  <2>1. /\ heartbeat \in Nat /\ started \in Nat /\ last_offer_publish \in Nat \cup {None}
        /\ ages.run \in Nat /\ ages.sidecar \in Nat
        /\ file.updated_at \in Nat /\ file.started_at \in Nat
        /\ file.last_offer_publish \in Nat \cup {None}
    BY <1>1 DEF TypeOK, Ages, MakerStatus
  <2>2. /\ file' = Aged(file) /\ started' = Older(started)
        /\ last_offer_publish' = Older(last_offer_publish)
    BY DEF Tick
  <2>3. /\ ages'.run <= Older(ages.run) /\ ages'.run \in Nat
        /\ ages'.sidecar <= Older(ages.sidecar) /\ ages'.sidecar \in Nat
    <3>1. Older(ages.run) \in Nat /\ Older(ages.sidecar) \in Nat
      BY <2>1, OlderType
    <3>2. ages'.run \in {0, Older(ages.run)} /\ ages'.sidecar \in {0, Older(ages.sidecar)}
      BY AgesStep
    <3> QED
      BY <3>1, <3>2
  <2>4. /\ file'.updated_at = Older(file.updated_at) /\ file'.started_at = Older(file.started_at)
        /\ file'.last_offer_publish = Older(file.last_offer_publish)
        /\ file'.publisher_alive = file.publisher_alive
    BY <1>1, <2>1, <2>2, AgedType
  <2>5. ages'.run <= file'.updated_at /\ started' <= file'.started_at
    <3>1. /\ Older(ages.run) <= Older(file.updated_at) /\ Older(ages.run) \in Nat
          /\ Older(started) <= Older(file.started_at) /\ Older(file.updated_at) \in Nat
      BY <1>1, <2>1, CapType, ServiceAssumption DEF Honest, HonestAt, Older
    <3> QED
      BY <2>2, <2>3, <2>4, <3>1
  <2>6. file'.publisher_alive => ages'.sidecar <= file'.updated_at
    <3>1. CASE ~file.publisher_alive
      BY <2>4, <3>1
    <3>2. CASE ages.sidecar <= file.updated_at
      <4>1. /\ Older(ages.sidecar) <= Older(file.updated_at) /\ Older(ages.sidecar) \in Nat
            /\ Older(file.updated_at) \in Nat
        BY <2>1, <3>2, CapType, ServiceAssumption DEF Older
      <4> QED
        BY <2>3, <2>4, <4>1
    <3> QED
      BY <1>1, <3>1, <3>2 DEF Honest, HonestAt
  <2>7. file'.last_offer_publish # None =>
              \/ started' <= file'.last_offer_publish
              \/ last_offer_publish' # None /\ last_offer_publish' <= file'.last_offer_publish
    BY <1>1, <2>1, <2>2, <2>4, CapType, ServiceAssumption DEF Honest, HonestAt, Older
  <2> QED
    BY <2>5, <2>6, <2>7 DEF Honest, HonestAt
<1>2. CASE file \in {NoFile, Torn}
  BY <1>2, FileAssumption DEF Tick, Aged, Honest, HonestAt
<1> QED
  BY <1>1, <1>2 DEF TypeOK

(***************************************************************************)
(* A snapshot is honest when it is taken.                                  *)
(***************************************************************************)
LEMMA SnapshotHonest ==
    ASSUME TypeOK, TasksFollow, SidecarFlag, Up, NEW s \in LoopStates
    PROVE  Honest([snapshot EXCEPT !.loop_state = s]) /\ Honest(snapshot)
BY DEF TypeOK, Ages, TasksFollow, SidecarFlag, Honest, HonestAt, snapshot

(***************************************************************************)
(* Nothing but an honest snapshot gets into the file, and it stays honest  *)
(* there; no time passes while one is on its way.                          *)
(***************************************************************************)
LEMMA HonestStep ==
    ASSUME Control, AllHonest, [Next]_vars
    PROVE  AllHonest'
<1> USE DEF config, main, sidecar, files, ghosts
<1>0. TypeOK /\ TasksFollow /\ WritersApart /\ SidecarFlag
  BY DEF Control
<1>1. /\ ages.run \in Nat /\ ages.sidecar \in Nat /\ started \in Nat
      /\ last_offer_publish \in Nat \cup {None}
  BY <1>0 DEF TypeOK, Ages
<1>2. ASSUME UNCHANGED <<ages, started, last_offer_publish>>,
             Honest(file') \/ file' \in {NoFile, Torn},
             \A w \in Writers :
                /\ fd'[w] # "closed" => Honest(snap'[w])
                /\ fd'[w] \notin {"closed", "none"} => Honest(tmp') \/ tmp' \in {NoFile, Torn}
      PROVE  AllHonest'
  BY <1>2, FileAssumption DEF AllHonest, Honest, HonestAt
<1>3. ASSUME ages'.run \in {0, ages.run}, ages'.sidecar \in {0, ages.sidecar},
             started' \in Nat, last_offer_publish' \in Nat \cup {None},
             started' = 0 \/ (started' = started /\ last_offer_publish' \in {0, last_offer_publish}),
             UNCHANGED file, UNCHANGED <<snap, fd, tmp>> \/ \A w \in Writers : fd'[w] = "closed"
      PROVE  AllHonest'
  <2>1. ASSUME NEW f, Honest(f)
        PROVE  HonestAt(f, ages'.run, ages'.sidecar, started', last_offer_publish')
    BY <1>1, <1>3, <2>1, HonestLater DEF Honest
  <2> QED
    BY <1>3, <2>1 DEF AllHonest, Honest
<1>4. ASSUME Die PROVE AllHonest'
  <2>1. UNCHANGED <<file, started, last_offer_publish>> /\ \A w \in Writers : fd'[w] = "closed"
    BY <1>4 DEF Die
  <2> QED
    BY <1>0, <1>1, <1>3, <1>4, <2>1, AgesStep DEF Die
<1>5. CASE StartLoop
  BY <1>0, <1>1, <1>3, <1>5, AgesStep DEF StartLoop
<1>6. CASE Launch \/ RefuseToStart \/ InstallHandler \/ note_status_from_progress
  BY <1>1, <1>3, <1>6 DEF Launch, RefuseToStart, InstallHandler, note_status_from_progress
<1>7. CASE LoopEnds \/ Exit
  BY <1>0, <1>1, <1>3, <1>7, AgesStep DEF LoopEnds, Exit
<1>8. CASE Signal \/ Crash
  BY <1>1, <1>3, <1>4, <1>8 DEF Signal, Crash
<1>9. CASE SpawnSidecar
  BY <1>0, <1>1, <1>3, <1>9, AgesStep DEF SpawnSidecar, PublisherOnly
<1>10. CASE SidecarExited \/ KillSidecar \/ BackoffEnds \/ AbortPublisher \/ note_offer_publish
            \/ SidecarDies
  BY <1>1, <1>3, <1>10 DEF SidecarExited, KillSidecar, BackoffEnds, AbortPublisher,
     note_offer_publish, SidecarDies, PublisherOnly
<1>11. CASE StopTasks
  <2>1. Honest([snapshot EXCEPT !.loop_state = "stopped"])
    BY <1>0, <1>11, SnapshotHonest DEF StopTasks, Up, LoopStates
  <2> QED
    BY <1>0, <1>2, <1>11, <2>1 DEF StopTasks, AllHonest, TypeOK, Writers
<1>12. CASE WriteStatus \/ ReadBalances \/ WriterWakes
  <2>1. writer \in {"reading", "slow"} => Honest(snapshot)
    BY <1>0, SnapshotHonest DEF Up, TasksFollow, LoopStates
  <2> QED
    BY <1>0, <1>2, <1>12, <2>1 DEF WriteStatus, ReadBalances, WriterWakes, WriterOnly, AllHonest,
       TypeOK, Writers
<1>13. ASSUME NEW w \in Writers, OpenTmp(w) PROVE AllHonest'
  BY <1>0, <1>2, <1>13 DEF OpenTmp, FilesOnly, AllHonest, TypeOK
<1>14. ASSUME NEW w \in Writers, WriteTmp(w) PROVE AllHonest'
  <2>1. /\ Honest(snap[w]) /\ (file' = file \/ file' \in {snap[w], Torn})
        /\ (tmp' = tmp /\ Honest(tmp)) \/ tmp' \in {snap[w], Torn}
    BY <1>0, <1>14 DEF WriteTmp, Written, AllHonest, TypeOK
  <2>2. \A u \in Writers : fd'[u] # "closed" => fd[u] # "closed"
    BY <1>0, <1>14 DEF WriteTmp, TypeOK
  <2> QED
    BY <1>0, <1>2, <1>14, <2>1, <2>2 DEF WriteTmp, FilesOnly, AllHonest
<1>15. ASSUME NEW w \in Writers, WriteFails(w) PROVE AllHonest'
  BY <1>0, <1>2, <1>15 DEF WriteFails, Done, FilesOnly, AllHonest, TypeOK
<1>16. ASSUME NEW w \in Writers, RenameTmp(w) PROVE AllHonest'
  <2>1. /\ \A u \in Writers : fd'[u] # "closed" => fd[u] # "closed" /\ snap'[u] = snap[u]
        /\ \A u \in Writers : fd'[u] \notin {"closed", "none"} => fd[u] \notin {"closed", "none"}
    BY <1>0, <1>16 DEF RenameTmp, Done, TypeOK, Writers
  <2>2. file' \in {file, tmp} /\ tmp' \in {tmp, NoFile} /\ Honest(tmp)
    BY <1>16 DEF RenameTmp, AllHonest
  <2> QED
    BY <1>2, <1>16, <2>1, <2>2 DEF RenameTmp, FilesOnly, AllHonest
<1>17. CASE Tick
  <2>1. \A w \in Writers : fd'[w] = "closed"
    BY <1>0, <1>17 DEF Tick, Due, WritersApart, Writers
  <2>2. Honest(file)'
    BY <1>0, <1>17, HonestAged DEF AllHonest
  <2> QED
    BY <2>1, <2>2 DEF AllHonest
<1>18. CASE UNCHANGED vars
  BY <1>1, <1>3, <1>18 DEF vars
<1> QED
  BY <1>5, <1>6, <1>7, <1>8, <1>9, <1>10, <1>11, <1>12, <1>13, <1>14, <1>15, <1>16, <1>17, <1>18
     DEF Next, Main, Publisher, Writer, Writing, Writers

(***************************************************************************)
(* A green healthcheck is honest about the bot, its sidecar and its offer. *)
(***************************************************************************)
THEOREM GreenIsHonest == Spec => []HealthIsHonest
<1>1. Init => AllHonest
  BY FileAssumption DEF Init, AllHonest, Honest, HonestAt
<1>2. Control /\ AllHonest => HealthIsHonest
  <2> SUFFICES ASSUME Control, AllHonest, cmd_maker_status PROVE HealthIsHonest
    BY DEF HealthIsHonest
  <2>1. /\ file \in MakerStatus /\ ages.run \in Nat /\ ages.sidecar \in Nat /\ started \in Nat
        /\ last_offer_publish \in Nat \cup {None} /\ heartbeat \in Nat
        /\ file.updated_at \in Nat /\ file.started_at \in Nat
        /\ file.last_offer_publish \in Nat \cup {None}
    BY DEF Control, TypeOK, Ages, cmd_maker_status, MakerStatus
  <2>2. ages.run <= 3 /\ (heartbeat > 0 => ages.sidecar <= 3)
    BY <2>1 DEF AllHonest, Honest, HonestAt, cmd_maker_status
  <2>3. heartbeat > 0 =>
           \/ started <= 3 * heartbeat
           \/ last_offer_publish # None /\ last_offer_publish <= 3 * heartbeat
    BY <2>1, ServiceAssumption DEF AllHonest, Honest, HonestAt, cmd_maker_status
  <2> QED
    BY <2>1, <2>2, <2>3, ServiceAssumption DEF HealthIsHonest
<1> QED
  BY <1>1, <1>2, HonestStep, ControlHolds, PTL DEF Spec

-----------------------------------------------------------------------------
(***************************************************************************)
(* A fresh file stays fresh while no time passes, and grows one Tick older *)
(* with each.                                                              *)
(***************************************************************************)
LEMMA FreshKept ==
    ASSUME UNCHANGED <<file, heartbeat>>, regular' => regular,
           child' = "alive" => ages'.lives = 0 \/ (child = "alive" /\ ages'.lives = ages.lives),
           NEW n \in Nat, Fresh(n)
    PROVE  Fresh(n)'
<1>1. file \in MakerStatus /\ file.updated_at \in Nat
  BY DEF Fresh, MakerStatus
<1> QED
  BY <1>1 DEF Fresh

(***************************************************************************)
(* One Tick makes a fresh file one Tick older, and what it tells of the    *)
(* offer at most as much.                                                  *)
(***************************************************************************)
LEMMA FreshAged ==
    ASSUME TypeOK, Tick, NEW n \in {0, 1}, Fresh(n)
    PROVE  Fresh(n + 1)'
<1>1. /\ file \in MakerStatus /\ file.updated_at \in Nat /\ file.started_at \in Nat
      /\ file.last_offer_publish \in Nat \cup {None} /\ heartbeat \in Nat /\ ages.lives \in Nat
  BY DEF Fresh, MakerStatus, TypeOK, Ages
<1>2. /\ file' = Aged(file) /\ UNCHANGED <<heartbeat, child>> /\ (regular' => regular)
  BY DEF Tick, config
<1>3. file.updated_at \in {0, 1} /\ file.updated_at <= n
  BY <1>1 DEF Fresh
<1>4. /\ file' \in MakerStatus /\ file'.updated_at = file.updated_at + 1
      /\ file'.started_at = Older(file.started_at)
      /\ file'.last_offer_publish = Older(file.last_offer_publish)
      /\ file'.publisher_alive = file.publisher_alive /\ file'.loop_state = file.loop_state
  <2>1. Older(file.updated_at) = file.updated_at + 1
    BY <1>1, <1>3, CapType, ServiceAssumption DEF Older
  <2> QED
    BY <1>1, <1>2, <2>1, AgedType
<1>5. child' = "alive" /\ ~file'.publisher_alive => ages'.lives <= file'.updated_at
  <2>1. Older(ages.lives) \in Nat /\ Older(ages.lives) <= ages.lives + 1
    BY <1>1, OlderType
  <2>2. child = "alive" => ages'.lives = Older(ages.lives)
    BY AgesStep
  <2>3. child = "alive" /\ ~file.publisher_alive => ages.lives <= file.updated_at
    BY DEF Fresh
  <2> QED
    BY <1>1, <1>2, <1>4, <2>1, <2>2, <2>3
<1>6. regular' => IF file'.last_offer_publish # None
                  THEN file'.last_offer_publish <= heartbeat + file'.updated_at
                  ELSE file'.started_at <= heartbeat + file'.updated_at
  BY <1>1, <1>2, <1>4, CapType, ServiceAssumption DEF Fresh, Older
<1>7. file'.updated_at <= n + 1 /\ file'.loop_state = "starting"
  BY <1>1, <1>3, <1>4 DEF Fresh
<1> QED
  BY <1>2, <1>4, <1>5, <1>6, <1>7 DEF Fresh

(***************************************************************************)
(* The writer keeps the file of a running loop fresh: two Ticks pass at    *)
(* most between two snapshots.                                             *)
(***************************************************************************)
LEMMA FreshStep ==
    ASSUME Control, KeptFresh, [Next]_vars
    PROVE  KeptFresh'
<1> USE DEF config, main, sidecar, files, ghosts
<1>0. TypeOK /\ TasksFollow /\ WritersApart /\ SidecarFlag /\ started \in Nat /\ heartbeat \in Nat
  BY DEF Control, TypeOK
<1>1. ASSUME proc' # "loop" PROVE KeptFresh'
  BY <1>1 DEF KeptFresh
<1>2. ASSUME UNCHANGED <<proc, file, heartbeat, started, writer>>,
             regular' => regular, cancel => cancel', lost => lost',
             last_offer_publish' \in {0, last_offer_publish},
             child' = "alive" => ages'.lives = 0 \/ (child = "alive" /\ ages'.lives = ages.lives)
      PROVE  KeptFresh'
  <2>1. \A n \in {0, 1, 2} : Fresh(n) => Fresh(n)'
    BY <1>2, FreshKept
  <2>2. (regular => Since <= heartbeat) => (regular' => Since' <= heartbeat')
    BY <1>0, <1>2, ServiceAssumption DEF Since
  <2> QED
    BY <1>2, <2>1, <2>2 DEF KeptFresh
<1>3. CASE \/ Launch \/ RefuseToStart \/ Crash \/ LoopEnds \/ note_status_from_progress
           \/ StopTasks \/ Exit
  BY <1>0, <1>1, <1>3 DEF Launch, RefuseToStart, Crash, Die, LoopEnds, note_status_from_progress,
     StopTasks, Exit, TasksFollow
<1>4. CASE StartLoop
  BY <1>0, <1>4 DEF StartLoop, KeptFresh, Since
<1>5. CASE InstallHandler \/ Signal
  BY <1>1, <1>2, <1>5 DEF InstallHandler, Signal, Die
<1>6. CASE SpawnSidecar
  BY <1>0, <1>2, <1>6, AgesStep DEF SpawnSidecar, PublisherOnly
<1>7. CASE SidecarExited \/ KillSidecar \/ BackoffEnds \/ AbortPublisher \/ note_offer_publish
           \/ SidecarDies
  BY <1>2, <1>7 DEF SidecarExited, KillSidecar, BackoffEnds, AbortPublisher, note_offer_publish,
     SidecarDies, PublisherOnly, Dropped, Orphaned
<1>8. CASE WriteStatus
  <2>1. ASSUME regular => Since <= heartbeat, proc = "loop" PROVE Fresh(0)'
    <3>1. /\ file' = snapshot /\ snapshot \in MakerStatus
          /\ UNCHANGED <<heartbeat, child, ages, regular>>
      BY <1>0, <1>8, SnapshotType DEF WriteStatus, WriterOnly
    <3>2. /\ snapshot.updated_at = 0 /\ snapshot.loop_state = "starting"
          /\ snapshot.publisher_alive = publisher_alive /\ snapshot.started_at = started
          /\ snapshot.last_offer_publish = last_offer_publish
      BY <1>0, <2>1 DEF snapshot, TasksFollow
    <3>3. child = "alive" => publisher_alive
      BY <1>0 DEF SidecarFlag
    <3>4. regular => IF last_offer_publish # None THEN last_offer_publish <= heartbeat + 0
                     ELSE started <= heartbeat + 0
      BY <1>0, <2>1 DEF Since, TypeOK
    <3> QED
      BY <3>1, <3>2, <3>3, <3>4 DEF Fresh
  <2> QED
    BY <1>8, <2>1 DEF WriteStatus, WriterOnly, KeptFresh, Since
<1>9. CASE ReadBalances
  BY <1>1, <1>9 DEF ReadBalances, WriterOnly
<1>10. CASE WriterWakes
  <2>1. Fresh(1) => Fresh(1)'
    BY <1>10, FreshKept DEF WriterWakes, WriterOnly
  <2> QED
    BY <1>0, <1>10, <2>1 DEF WriterWakes, WriterOnly, KeptFresh, Since, TasksFollow
<1>11. ASSUME NEW w \in Writers, OpenTmp(w) \/ WriteTmp(w) \/ RenameTmp(w) PROVE KeptFresh'
  BY <1>0, <1>1, <1>11 DEF OpenTmp, WriteTmp, RenameTmp, Done, WritersApart, Writers
<1>12. ASSUME NEW w \in Writers, WriteFails(w) PROVE KeptFresh'
  BY <1>0, <1>12 DEF WriteFails, Done, FilesOnly, KeptFresh, Since
<1>13. CASE Tick
  <2>1. /\ ~Due /\ UNCHANGED <<config, main, lost>> /\ started' = Older(started)
        /\ writer' = IF writer = "sleep" THEN "slept" ELSE ReadTakes(writer)
        /\ regular' => Since' <= heartbeat
    BY <1>13 DEF Tick
  <2>2. /\ Fresh(0) => Fresh(1)'
        /\ Fresh(1) => Fresh(2)'
    BY <1>0, <1>13, FreshAged
  <2>3. started = 0 => started' <= 1
    BY <1>0, <2>1, OlderType
  <2> QED
    BY <2>1, <2>2, <2>3 DEF KeptFresh, Due, ReadTakes
<1>14. CASE UNCHANGED vars
  BY <1>2, <1>14 DEF vars
<1> QED
  BY <1>3, <1>4, <1>5, <1>6, <1>7, <1>8, <1>9, <1>10, <1>11, <1>12, <1>13, <1>14
     DEF Next, Main, Publisher, Writer, Writing, Writers

(***************************************************************************)
(* A bot that runs and publishes is not reported ill.                      *)
(***************************************************************************)
THEOREM NoAlarmIsFalse == Spec => []NoFalseAlarm
<1>1. Init => KeptFresh
  BY DEF Init, KeptFresh
<1>2. Control /\ KeptFresh => NoFalseAlarm
  <2> SUFFICES ASSUME Control, KeptFresh, proc = "loop", ~lost, started >= 3, ~cancel,
                      heartbeat > 0 => ages.lives >= 3 /\ child = "alive" /\ regular
               PROVE  cmd_maker_status
    BY DEF NoFalseAlarm
  <2>1. /\ started \in Nat /\ heartbeat \in Nat /\ ages.lives \in Nat
        /\ writer \in {"reading", "slow", "sleep", "slept"}
    BY DEF Control, TypeOK, Ages, WritersApart, KeptFresh
  <2>2. Fresh(0) \/ Fresh(1) \/ Fresh(2)
    BY <2>1 DEF KeptFresh
  <2>3. /\ file \in MakerStatus /\ file.updated_at \in Nat /\ file.updated_at <= 2
        /\ file.started_at \in Nat /\ file.last_offer_publish \in Nat \cup {None}
        /\ file.loop_state = "starting" /\ file \notin {NoFile, Torn}
    BY <2>2, FileAssumption DEF Fresh, MakerStatus
  <2>4. heartbeat > 0 => file.publisher_alive
    BY <2>1, <2>2, <2>3 DEF Fresh
  <2>5. heartbeat > 0 => IF file.last_offer_publish # None
                         THEN file.last_offer_publish <= 3 * heartbeat
                         ELSE file.started_at <= 3 * heartbeat
    BY <2>1, <2>2, <2>3, ServiceAssumption DEF Fresh
  <2> QED
    BY <2>3, <2>4, <2>5 DEF cmd_maker_status
<1> QED
  BY <1>1, <1>2, FreshStep, ControlHolds, PTL DEF Spec
=============================================================================
