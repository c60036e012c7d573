----------------------------- MODULE BotService -----------------------------
(***************************************************************************)
(* The process around the maker's swap loop (cli/maker.rs, cli/bot.rs): it *)
(* supervises the Node sidecar that publishes the offer, writes a status   *)
(* file for the container's healthcheck, stops on a signal, and is started *)
(* again by its supervisor when it stops by itself.                        *)
(*                                                                         *)
(* Its tasks run on several threads.  A task that is aborted ends at its   *)
(* next await: the status writer's snapshot, write and rename are          *)
(* synchronous, and race the last write of cmd_maker_loop on one temporary *)
(* file.                                                                   *)
(*                                                                         *)
(* A Tick is STATUS_WRITE_INTERVAL_SECS, which is also what the three      *)
(* bounded balance reads of the writer take together at most.              *)
(***************************************************************************)
EXTENDS Naturals, Sequences

CONSTANTS
    Heartbeats,        \* what the two heartbeat knobs may be set to, in Ticks
    DEFAULT_HEARTBEAT_SECS,
    Backoff,           \* the 30 s between two sidecars, in Ticks
    MaxFaults,
    None, NoFile, Torn

ASSUME ServiceAssumption ==
    /\ Heartbeats \subseteq Nat /\ DEFAULT_HEARTBEAT_SECS \in Nat
    /\ Backoff \in Nat /\ MaxFaults \in Nat /\ None \notin Nat

(***************************************************************************)
(* MakerStatus: what the status file holds, its timestamps as ages.        *)
(***************************************************************************)
LoopStates == {"starting", "cancelled", "stopped"}
MakerStatus ==
    [updated_at : Nat, last_offer_publish : Nat \cup {None}, started_at : Nat,
     publisher_alive : BOOLEAN, loop_state : LoopStates]

ASSUME FileAssumption == NoFile # Torn /\ {NoFile, Torn} \cap MakerStatus = {}

VARIABLES
    heartbeat, script,          \* the configuration; whether the script exists
    proc, handler, cancel, aborted,
    asked,                      \* the operator asked for a stop
    queue, loop_state,          \* progress events on their way to the status
    publisher, waited, child, publisher_alive, last_offer_publish, started,
    writer, snap, fd, tmp, file,
    ages,                       \* since the bot ran, since it had a sidecar; how
                                \* long the sidecar lives
    regular,                    \* offers came out at least every heartbeat so far
    lost,                       \* a write of the status failed in this process
    raced,                      \* the final write met the writer's
    announced,                  \* a Tick has passed since the tasks were told to stop
    faults

config == <<heartbeat, script>>
main == <<proc, handler, cancel, aborted, asked, queue>>
sidecar == <<publisher, waited, child, publisher_alive, last_offer_publish, started>>
files == <<snap, fd, tmp, file>>
ghosts == <<ages, regular, lost, raced, announced>>
vars == <<config, main, loop_state, sidecar, writer, files, ghosts, faults>>

Fault == faults < MaxFaults /\ faults' = faults + 1
NoFault == UNCHANGED faults
Up == proc \notin {"down", "starting"}
Writers == {"task", "main"}
Queues == {<<>>, <<"stopped">>, <<"cancelled", "stopped">>}
Descriptors == {"closed", "none", "tmp", "file", "gone", "written"}

-----------------------------------------------------------------------------
(***************************************************************************)
(* One heartbeat for the sidecar and the healthcheck: the canonical knob,  *)
(* or its alias, or the default; 0 means that nothing is published.        *)
(***************************************************************************)
resolve_heartbeat(canonical, alias) ==
    IF canonical # None THEN canonical ELSE IF alias # None THEN alias ELSE DEFAULT_HEARTBEAT_SECS

(***************************************************************************)
(* A mistake: what the file says is not checked to be recent.              *)
(***************************************************************************)
cmd_maker_status_AnyAge ==
    /\ file \notin {NoFile, Torn}
    /\ heartbeat > 0 =>
          /\ file.publisher_alive
          /\ IF file.last_offer_publish # None
             THEN file.last_offer_publish <= 3 * heartbeat
             ELSE file.started_at <= 3 * heartbeat
    /\ file.loop_state \notin {"stopped", "cancelled"}

(***************************************************************************)
(* The healthcheck, swap-cli maker --status.                               *)
(***************************************************************************)
cmd_maker_status ==
    /\ file \notin {NoFile, Torn}
    /\ file.updated_at <= 3
    /\ heartbeat > 0 =>
          /\ file.publisher_alive
          /\ IF file.last_offer_publish # None
             THEN file.last_offer_publish <= 3 * heartbeat
             ELSE file.started_at <= 3 * heartbeat
    /\ file.loop_state \notin {"stopped", "cancelled"}

(***************************************************************************)
(* Timestamps are kept as ages, up to one past every limit they meet.      *)
(***************************************************************************)
AgeCap == 1 + (CHOOSE m \in {3, 3 * heartbeat, Backoff * MaxFaults} :
                   \A k \in {3, 3 * heartbeat, Backoff * MaxFaults} : k <= m)
Ages == [run : Nat, sidecar : Nat, lives : Nat]
Older(age) == IF age = None \/ age = AgeCap THEN age ELSE age + 1
snapshot ==
    [updated_at |-> 0, last_offer_publish |-> last_offer_publish, started_at |-> started,
     publisher_alive |-> publisher_alive, loop_state |-> loop_state]

-----------------------------------------------------------------------------
(***************************************************************************)
(* cmd_maker_loop: recovery and the guards of the startup, which may end   *)
(* the process; then the tasks and the loop.                               *)
(***************************************************************************)
Launch ==
    /\ proc = "down" /\ ~asked
    /\ proc' = "starting"
    /\ NoFault
    /\ UNCHANGED <<config, handler, cancel, aborted, asked, queue, loop_state, sidecar, writer,
                   files, ghosts>>

RefuseToStart ==
    /\ proc = "starting"
    /\ proc' = "down"
    /\ NoFault
    /\ UNCHANGED <<config, handler, cancel, aborted, asked, queue, loop_state, sidecar, writer,
                   files, ghosts>>

StartLoop ==
    /\ proc = "starting"
    /\ proc' = "loop"
    /\ cancel' = FALSE /\ aborted' = FALSE /\ loop_state' = "starting"
    /\ started' = 0 /\ last_offer_publish' = None /\ publisher_alive' = FALSE
    /\ publisher' = IF heartbeat > 0 /\ script THEN "spawn" ELSE "ended"
    /\ writer' = "reading"
    /\ ages' = [ages EXCEPT !.run = 0] /\ regular' = TRUE
    /\ lost' = FALSE /\ raced' = FALSE /\ announced' = FALSE /\ child' = "none"
    /\ NoFault
    /\ UNCHANGED <<config, handler, asked, queue, waited, files>>

(***************************************************************************)
(* wait_for_shutdown_signal: the handler is there once its task has been   *)
(* polled.  Before, the signal kills the process.                          *)
(***************************************************************************)
InstallHandler ==
    /\ proc = "loop" /\ ~handler
    /\ handler' = TRUE
    /\ NoFault
    /\ UNCHANGED <<config, proc, cancel, aborted, asked, queue, loop_state, sidecar, writer, files,
                   ghosts>>

(***************************************************************************)
(* What the properties remember of a running loop ends with it.            *)
(***************************************************************************)
Forgotten ==
    /\ regular' = FALSE /\ lost' = FALSE /\ raced' = FALSE
    /\ ages' = [ages EXCEPT !.lives = 0] /\ UNCHANGED announced

(***************************************************************************)
(* The process is gone, without a drop: its sidecar is nobody's child, and *)
(* is not followed once the next process has started its loop.             *)
(***************************************************************************)
Orphaned == IF child \in {"alive", "orphan"} THEN "orphan" ELSE "none"

(***************************************************************************)
(* The publisher's task is dropped with its child in it.  kill_on_drop     *)
(* alone can race the teardown of the process, says spawn_offer_publisher: *)
(* the sidecar is killed or stays.                                         *)
(***************************************************************************)
Dropped == {Orphaned} \cup (IF child = "orphan" THEN {} ELSE {"none"})

Die ==
    /\ proc' = "down" /\ handler' = FALSE /\ queue' = <<>> /\ aborted' = FALSE
    /\ publisher' = "ended" /\ waited' = 0 /\ child' = Orphaned
    /\ writer' = "ended"
    /\ snap' = [w \in Writers |-> Torn] /\ fd' = [w \in Writers |-> "closed"]
    /\ tmp' = NoFile /\ cancel' = FALSE /\ loop_state' = "starting" /\ publisher_alive' = FALSE
    /\ Forgotten /\ UNCHANGED <<config, last_offer_publish, started, file>>

Crash == proc # "down" /\ Die /\ Fault /\ UNCHANGED asked

Signal ==
    /\ ~asked /\ asked' = TRUE
    /\ IF handler \/ proc = "down"
       THEN /\ cancel' = (cancel \/ proc # "down")
            /\ UNCHANGED <<config, proc, handler, aborted, queue, loop_state, sidecar, writer,
                           files, ghosts>>
       ELSE Die
    /\ NoFault

(***************************************************************************)
(* run_maker_loop ends: cancelled, or with an unresolved swap.  Its last   *)
(* events go through the progress drain (note_status_from_progress).       *)
(***************************************************************************)
LoopEnds ==
    /\ proc = "loop"
    /\ proc' = "drain"
    /\ \/ cancel /\ queue' = <<"cancelled", "stopped">> /\ NoFault
       \/ queue' = <<"stopped">> /\ Fault
    /\ Forgotten
    /\ UNCHANGED <<config, handler, cancel, aborted, asked, loop_state, sidecar, writer, files>>

note_status_from_progress ==
    /\ queue # <<>>
    /\ loop_state' = Head(queue) /\ queue' = Tail(queue)
    /\ NoFault
    /\ UNCHANGED <<config, proc, handler, cancel, aborted, asked, sidecar, writer, files,
                   ghosts>>

(***************************************************************************)
(* The tasks are told to stop, and the last snapshot is taken.             *)
(***************************************************************************)
StopTasks ==
    /\ proc = "drain" /\ queue = <<>>
    /\ proc' = "final"
    /\ cancel' = TRUE /\ aborted' = TRUE /\ loop_state' = "stopped"
    /\ snap' = [snap EXCEPT !["main"] = [snapshot EXCEPT !.loop_state = "stopped"]]
    /\ fd' = [fd EXCEPT !["main"] = "none"]
    /\ raced' = (writer = "writing")
    /\ NoFault
    /\ UNCHANGED <<config, handler, asked, queue, sidecar, writer, tmp, file, ages, regular, lost,
                   announced>>

(***************************************************************************)
(* main returns: the runtime waits for what its threads are at and drops   *)
(* the tasks, the publisher's with its child.                              *)
(***************************************************************************)
Exit ==
    /\ proc = "exit" /\ writer # "writing"
    /\ proc' = "down" /\ handler' = FALSE /\ aborted' = FALSE
    /\ publisher' = "ended" /\ waited' = 0 /\ child' \in Dropped /\ writer' = "ended"
    /\ cancel' = FALSE /\ loop_state' = "starting" /\ publisher_alive' = FALSE
    /\ NoFault
    /\ UNCHANGED <<config, asked, queue, last_offer_publish, started, files>> /\ Forgotten

-----------------------------------------------------------------------------
(***************************************************************************)
(* spawn_offer_publisher.                                                  *)
(***************************************************************************)
PublisherOnly ==
    UNCHANGED <<config, main, loop_state, started, writer, files, regular, lost, raced, announced>>

(***************************************************************************)
(* A mistake: a sidecar that cannot be started is not tried again.         *)
(***************************************************************************)
SpawnSidecar_Once ==
    /\ publisher = "spawn"
    /\ IF cancel
       THEN publisher' = "ended" /\ NoFault /\ UNCHANGED <<child, publisher_alive>>
       ELSE \/ /\ publisher' = "wait" /\ child' = "alive" /\ publisher_alive' = TRUE
               /\ NoFault
            \/ publisher' = "ended" /\ publisher_alive' = FALSE /\ Fault /\ UNCHANGED child
    /\ waited' = 0 /\ ages' = [ages EXCEPT !.lives = 0, !.sidecar = IF child' = "alive" THEN 0 ELSE @]
    /\ UNCHANGED last_offer_publish /\ PublisherOnly

SpawnSidecar ==
    /\ publisher = "spawn"
    /\ IF cancel
       THEN publisher' = "ended" /\ NoFault /\ UNCHANGED <<child, publisher_alive>>
       ELSE \/ /\ publisher' = "wait" /\ child' = "alive" /\ publisher_alive' = TRUE
               /\ NoFault
            \/ publisher' = "backoff" /\ publisher_alive' = FALSE /\ Fault /\ UNCHANGED child
    /\ waited' = 0 /\ ages' = [ages EXCEPT !.lives = 0, !.sidecar = IF child' = "alive" THEN 0 ELSE @]
    /\ UNCHANGED last_offer_publish /\ PublisherOnly

(***************************************************************************)
(* The reader of the sidecar's output sees a confirmed publication.        *)
(***************************************************************************)
note_offer_publish ==
    /\ child = "alive" /\ last_offer_publish # 0
    /\ last_offer_publish' = 0
    /\ NoFault
    /\ UNCHANGED <<publisher, waited, child, publisher_alive, ages>> /\ PublisherOnly

SidecarDies ==
    /\ child = "alive"
    /\ child' = "dead"
    /\ Fault
    /\ UNCHANGED <<publisher, waited, publisher_alive, last_offer_publish, ages>> /\ PublisherOnly

SidecarExited ==
    /\ publisher = "wait" /\ child = "dead"
    /\ publisher' = "backoff" /\ waited' = 0 /\ child' = "none" /\ publisher_alive' = FALSE
    /\ NoFault
    /\ UNCHANGED <<last_offer_publish, ages>> /\ PublisherOnly

(***************************************************************************)
(* A mistake: the sidecar is left to kill_on_drop.                         *)
(***************************************************************************)
KillSidecar_ByDrop ==
    /\ publisher = "wait" /\ cancel
    /\ publisher' = "ended" /\ child' \in Dropped /\ publisher_alive' = FALSE
    /\ NoFault
    /\ UNCHANGED <<waited, last_offer_publish, ages>> /\ PublisherOnly

(***************************************************************************)
(* wait_for_cancel wins: the sidecar is killed and reaped.                 *)
(***************************************************************************)
KillSidecar ==
    /\ publisher = "wait" /\ cancel
    /\ publisher' = "ended" /\ child' = "none" /\ publisher_alive' = FALSE
    /\ NoFault
    /\ UNCHANGED <<waited, last_offer_publish, ages>> /\ PublisherOnly

BackoffEnds ==
    /\ publisher = "backoff"
    /\ publisher' = IF cancel THEN "ended" ELSE "spawn"
    /\ cancel \/ waited = Backoff
    /\ NoFault
    /\ UNCHANGED <<waited, child, publisher_alive, last_offer_publish, ages>> /\ PublisherOnly

(***************************************************************************)
(* The abort of cmd_maker_loop reaches the task before it looks at the     *)
(* flag, every 200 ms, and drops its child; publisher_alive stays.         *)
(***************************************************************************)
AbortPublisher ==
    /\ aborted /\ publisher \in {"wait", "backoff"}
    /\ publisher' = "ended" /\ child' \in Dropped
    /\ NoFault
    /\ UNCHANGED <<waited, publisher_alive, last_offer_publish, ages>> /\ PublisherOnly

Publisher == \/ SpawnSidecar \/ SidecarExited \/ KillSidecar \/ BackoffEnds \/ AbortPublisher

-----------------------------------------------------------------------------
(***************************************************************************)
(* spawn_status_writer: balances, a snapshot, the file, and a wait.  While *)
(* the loop runs nobody else writes the file, and a write is one step.     *)
(***************************************************************************)
WriterOnly == UNCHANGED <<config, main, loop_state, sidecar, ages, regular, raced, announced>>

WriteStatus ==
    /\ writer \in {"reading", "slow"} /\ proc = "loop"
    /\ writer' = "sleep"
    /\ file' = snapshot
    /\ NoFault /\ UNCHANGED <<snap, fd, tmp, lost>> /\ WriterOnly

ReadBalances ==
    /\ writer \in {"reading", "slow"} /\ proc # "loop"
    /\ IF aborted
       THEN writer' = "ended" /\ UNCHANGED <<snap, fd>>
       ELSE /\ writer' = "writing"
            /\ snap' = [snap EXCEPT !["task"] = snapshot]
            /\ fd' = [fd EXCEPT !["task"] = "none"]
    /\ NoFault /\ UNCHANGED <<tmp, file, lost>> /\ WriterOnly

WriterWakes ==
    /\ writer = "slept" \/ (writer = "sleep" /\ (cancel \/ aborted))
    /\ writer' = IF cancel \/ aborted THEN "ended" ELSE "reading"
    /\ NoFault /\ UNCHANGED <<snap, fd, tmp, file, lost>> /\ WriterOnly

(***************************************************************************)
(* write_status_file, of either writer: the temporary file is truncated    *)
(* (torn), written, and renamed.  A file that both write holds the text of *)
(* one, or a mixture.  After a rename the other's descriptor is of the     *)
(* file itself.                                                            *)
(***************************************************************************)
Done(w) ==
    /\ snap' = [snap EXCEPT ![w] = Torn]
    /\ IF w = "main" THEN proc' = "exit" /\ UNCHANGED writer
                     ELSE writer' = "sleep" /\ UNCHANGED proc

FilesOnly == UNCHANGED <<config, handler, cancel, aborted, asked, queue, loop_state, sidecar,
                         ages, regular, raced, announced>>

OpenTmp(w) ==
    /\ fd[w] = "none"
    /\ tmp' = Torn
    /\ fd' = [fd EXCEPT ![w] = "tmp"]
    /\ NoFault /\ UNCHANGED <<proc, writer, snap, file, lost>> /\ FilesOnly

Written(w, was) == IF was = Torn THEN {snap[w]} ELSE {snap[w], Torn}
WriteTmp(w) ==
    /\ fd[w] \in {"tmp", "file", "gone"}
    /\ CASE fd[w] = "tmp"  -> tmp' \in Written(w, tmp) /\ UNCHANGED file
         [] fd[w] = "file" -> file' \in Written(w, file) /\ UNCHANGED tmp
         [] OTHER          -> UNCHANGED <<tmp, file>>
    /\ fd' = [fd EXCEPT ![w] = "written"]
    /\ NoFault /\ UNCHANGED <<proc, writer, snap, lost>> /\ FilesOnly

(***************************************************************************)
(* A write fails: the file stays as it is until the next one.              *)
(***************************************************************************)
WriteFails(w) ==
    /\ \/ fd[w] \in {"none", "tmp", "file", "gone"}
       \/ w = "task" /\ writer \in {"reading", "slow"} /\ proc = "loop"
    /\ Done(w)
    /\ fd' = [fd EXCEPT ![w] = "closed"] /\ lost' = TRUE
    /\ Fault /\ UNCHANGED <<tmp, file>> /\ FilesOnly

RenameTmp(w) ==
    LET other == IF w = "main" THEN "task" ELSE "main"
        moved == [tmp |-> "file", file |-> "gone"] IN
    /\ fd[w] = "written"
    /\ IF tmp = NoFile
       THEN /\ lost' = TRUE
            /\ fd' = [fd EXCEPT ![w] = "closed"]
            /\ UNCHANGED <<tmp, file>>
       ELSE /\ file' = tmp /\ tmp' = NoFile
            /\ fd' = [fd EXCEPT ![w] = "closed",
                                ![other] = IF @ \in DOMAIN moved THEN moved[@] ELSE @]
            /\ UNCHANGED lost
    /\ Done(w)
    /\ NoFault /\ FilesOnly

Writing(w) == OpenTmp(w) \/ WriteTmp(w) \/ RenameTmp(w)
Writer == WriteStatus \/ ReadBalances \/ WriterWakes \/ Writing("task")

-----------------------------------------------------------------------------
(***************************************************************************)
(* Time (external): what is due is done first.  Startup, the loop and its  *)
(* last wait may take long; the reads of the writer take one Tick at most. *)
(***************************************************************************)
Due ==
    \/ proc = "loop" /\ ~handler
    \/ proc \in {"drain", "final", "exit"}
    \/ writer \in {"slow", "writing", "slept"}
    \/ writer = "sleep" /\ cancel
    \/ publisher = "spawn"
    \/ publisher = "wait" /\ (cancel \/ child = "dead")
    \/ publisher = "backoff" /\ (cancel \/ waited = Backoff)

(***************************************************************************)
(* A mistake: the balance reads have no timeout.                           *)
(***************************************************************************)
ReadTakes_Unbounded(w) == w

ReadTakes(w) == IF w = "reading" THEN "slow" ELSE w
Aged(f) == IF f \in {NoFile, Torn} THEN f
           ELSE [f EXCEPT !.updated_at = Older(@), !.started_at = Older(@),
                          !.last_offer_publish = Older(@)]
Since == IF last_offer_publish = None THEN started ELSE last_offer_publish
Tick ==
    /\ ~Due
    /\ writer' = IF writer = "sleep" THEN "slept" ELSE ReadTakes(writer)
    /\ waited' = IF publisher = "backoff" THEN waited + 1 ELSE waited
    /\ started' = Older(started) /\ last_offer_publish' = Older(last_offer_publish)
    /\ file' = Aged(file)
    /\ ages' = [run |-> IF Up THEN 0 ELSE Older(ages.run),
                sidecar |-> IF child = "alive" THEN 0 ELSE Older(ages.sidecar),
                lives |-> IF child = "alive" THEN Older(ages.lives) ELSE 0]
    /\ regular' = (regular /\ Since' <= heartbeat)
    /\ announced' = (announced \/ cancel)
    /\ NoFault
    /\ UNCHANGED <<config, main, loop_state, publisher, child, publisher_alive, snap, fd, tmp,
                   lost, raced>>

Init ==
    /\ heartbeat \in {resolve_heartbeat(c, a) : c, a \in Heartbeats \cup {None}}
    /\ script \in BOOLEAN /\ (heartbeat = 0 => script)
    /\ proc = "down" /\ handler = FALSE /\ cancel = FALSE /\ aborted = FALSE /\ asked = FALSE
    /\ queue = <<>> /\ loop_state = "starting"
    /\ publisher = "ended" /\ waited = 0 /\ child = "none" /\ publisher_alive = FALSE
    /\ last_offer_publish = None /\ started = AgeCap
    /\ writer = "ended" /\ tmp = NoFile /\ file = NoFile
    /\ snap = [w \in Writers |-> Torn] /\ fd = [w \in Writers |-> "closed"]
    /\ ages = [run |-> AgeCap, sidecar |-> AgeCap, lives |-> 0]
    /\ regular = TRUE /\ lost = FALSE /\ raced = FALSE /\ announced = FALSE /\ faults = 0

Main == \/ StartLoop \/ InstallHandler \/ note_status_from_progress \/ StopTasks \/ Exit
        \/ Writing("main")

Next ==
    \/ Main \/ Publisher \/ Writer
    \/ Launch \/ RefuseToStart \/ LoopEnds
    \/ note_offer_publish \/ SidecarDies
    \/ \E w \in Writers : WriteFails(w)
    \/ Signal \/ Crash \/ Tick

Spec == Init /\ [][Next]_vars

(***************************************************************************)
(* Every variable keeps its type.                                          *)
(***************************************************************************)
Flags ==
    /\ script \in BOOLEAN /\ handler \in BOOLEAN /\ cancel \in BOOLEAN /\ aborted \in BOOLEAN
    /\ asked \in BOOLEAN /\ publisher_alive \in BOOLEAN /\ regular \in BOOLEAN
    /\ lost \in BOOLEAN /\ raced \in BOOLEAN /\ announced \in BOOLEAN
TypeOK ==
    /\ Flags
    /\ heartbeat \in Nat /\ waited \in Nat /\ started \in Nat /\ faults \in Nat /\ ages \in Ages
    /\ last_offer_publish \in Nat \cup {None}
    /\ proc \in {"down", "starting", "loop", "drain", "final", "exit"}
    /\ queue \in Queues /\ loop_state \in LoopStates
    /\ publisher \in {"spawn", "wait", "backoff", "ended"}
    /\ child \in {"none", "alive", "dead", "orphan"}
    /\ writer \in {"reading", "slow", "sleep", "slept", "writing", "ended"}
    /\ snap \in [Writers -> MakerStatus \cup {Torn}] /\ fd \in [Writers -> Descriptors]
    /\ tmp \in MakerStatus \cup {NoFile, Torn} /\ file \in MakerStatus \cup {NoFile, Torn}

-----------------------------------------------------------------------------
(***************************************************************************)
(* A green healthcheck is honest: within three intervals the bot was       *)
(* running and had a sidecar, and within three heartbeats an offer was     *)
(* confirmed or the bot was started, although the file says so only of the *)
(* moment of a snapshot (cmd_maker_status).                                *)
(***************************************************************************)
HealthIsHonest ==
    cmd_maker_status =>
        /\ ages.run <= 3
        /\ heartbeat > 0 =>
              ages.sidecar <= 3 /\ \E age \in {started, last_offer_publish} \ {None} : age <= 3 * heartbeat

(***************************************************************************)
(* No false alarm: a bot that runs and whose sidecar publishes is reported *)
(* healthy, however slow the balance reads are, unless a write of the      *)
(* status failed (STATUS_BALANCE_READ_TIMEOUT).                            *)
(***************************************************************************)
NoFalseAlarm ==
    /\ proc = "loop" /\ ~lost /\ started >= 3
    /\ heartbeat > 0 => ages.lives >= 3 /\ child = "alive" /\ regular
    => cmd_maker_status \/ cancel

(***************************************************************************)
(* A stop that is announced leaves no sidecar to advertise the maker: one  *)
(* interval after a handled signal it is reaped, was it running, dying,    *)
(* being started or waited for, and none comes back, however the process   *)
(* ends from there, a crash and the unsafe drop of its task included       *)
(* (spawn_offer_publisher).  A loop that ends at once, or by itself, gives *)
(* no such time.                                                           *)
(***************************************************************************)
AnnouncedStopReaps == announced => child \notin {"alive", "orphan"}

(***************************************************************************)
(* A stop is seen at once: cmd_maker_loop takes a final snapshot so that   *)
(* it is "visible the moment the process actually stops".  Once it is      *)
(* written, and no write failed, the healthcheck is red.                   *)
(***************************************************************************)
StopIsSeen == proc = "exit" /\ ~lost => ~cmd_maker_status

(***************************************************************************)
(* A sidecar that is gone comes back while the bot runs: it is missing for *)
(* at most one backoff per failure, whatever made it exit or kept it from  *)
(* starting (spawn_offer_publisher).                                       *)
(***************************************************************************)
SidecarReturns ==
    proc = "loop" /\ ~cancel /\ heartbeat > 0 /\ script =>
        \E age \in {ages.sidecar, started} : age <= Backoff * faults
=============================================================================
