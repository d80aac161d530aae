---------------------------- MODULE DrawlatchCli ----------------------------
(***************************************************************************)
(* The commands start, stop and restart (bin/drawlatch.js), each a process *)
(* of its own, which share the PID file, and the server processes they     *)
(* spawn and signal.  A command's steps end where it waits or where it     *)
(* touches what other commands touch.  Status reads only what readPid()    *)
(* and the health check read here.                                         *)
(***************************************************************************)
EXTENDS ServerProcess

CONSTANTS
  Terminals,              \* where commands are given, one at a time in each
  NoPid                   \* no PID file

ASSUME CommandsAssumption == IsFiniteSet(Terminals) /\ NoPid \notin Pids

VARIABLES
  pidFile,
  command,                \* what runs in each terminal
  foreign,                \* a server in the foreground holds the port
  alone,                  \* history: no two commands were under way at a time
  misled                  \* history: start called running what was not, and
                          \* there was no other command and no foreign server

cliVars == <<pidFile, command, foreign, alone, misled>>
vars == <<serverVars, cliVars>>

(***************************************************************************)
(* A command: where it is, whether it is restart, the process it has read  *)
(* from the file or spawned, and values.tunnel.                            *)
(***************************************************************************)
Idle == [at |-> "idle", restarts |-> FALSE, pid |-> NoPid, tunnel |-> FALSE]

At(c, label) == command[c].at = label
Pid(c) == command[c].pid

Init ==
  /\ ServerInit
  /\ pidFile = NoPid
  /\ command = [c \in Terminals |-> Idle]
  /\ foreign \in BOOLEAN
  /\ alone = TRUE
  /\ misled = FALSE

UnderWay == {c \in Terminals : ~At(c, "idle")}
Taken == foreign \/ listening # {}

Becomes(c, new) == command' = [command EXCEPT ![c] = new]
Goto(c, label) == Becomes(c, [command[c] EXCEPT !.at = label])
End(c) == Becomes(c, Idle)

(***************************************************************************)
(* readPid(): the file goes if its process is gone.                        *)
(***************************************************************************)
ReadPid ==
  IF pidFile # NoPid /\ server[pidFile] \in Alive THEN pidFile ELSE NoPid

-----------------------------------------------------------------------------
(***************************************************************************)
(* The first step of each command.  The bound on processes leaves one for  *)
(* each start and restart under way.                                       *)
(***************************************************************************)
Spawning == {c \in UnderWay : command[c].restarts \/ At(c, "spawn")}

CanSpawn == Cardinality({p \in Pids : server[p] = "none"}) > Cardinality(Spawning)

Given(c) ==
  /\ At(c, "idle")
  /\ alone' = (alone /\ UnderWay = {})
  /\ pidFile' = ReadPid
  /\ UNCHANGED <<serverVars, foreign, misled>>

Start(c) ==
  /\ CanSpawn
  /\ Given(c)
  /\ \/ ReadPid # NoPid /\ UNCHANGED command
     \/ /\ ReadPid = NoPid
        /\ \E t \in BOOLEAN : Becomes(c, [Idle EXCEPT !.at = "spawn", !.tunnel = t])

Stop(c) ==
  /\ Given(c)
  /\ \/ ReadPid = NoPid /\ UNCHANGED command
     \/ ReadPid # NoPid /\ Becomes(c, [Idle EXCEPT !.at = "signal", !.pid = ReadPid])

Restart(c) ==
  /\ CanSpawn
  /\ Given(c)
  /\ Becomes(c, [Idle EXCEPT !.at = IF ReadPid = NoPid THEN "start" ELSE "probe",
                             !.restarts = TRUE])

-----------------------------------------------------------------------------
(***************************************************************************)
(* Restart asks whoever listens whether there is a tunnel, then stops and  *)
(* starts; each of the two reads the PID file anew.  If there is none by   *)
(* then, the exit in cmdStop() ends the whole command.                     *)
(***************************************************************************)
Probe(c) ==
  /\ At(c, "probe")
  /\ \E t \in BOOLEAN :
       /\ t => listening \cap stopTunnel # {}
       /\ Becomes(c, [command[c] EXCEPT !.at = "stop", !.tunnel = t])
  /\ UNCHANGED <<serverVars, pidFile, foreign, alone, misled>>

\* Mutant: restart does not look whether the server is still there.
RestartStopsUnchecked(c) ==
  /\ At(c, "stop")
  /\ pidFile' = ReadPid
  /\ Becomes(c, [command[c] EXCEPT !.at = "signal", !.pid = ReadPid])
  /\ UNCHANGED <<serverVars, foreign, alone, misled>>

RestartStops(c) ==
  /\ At(c, "stop")
  /\ pidFile' = ReadPid
  /\ \/ ReadPid = NoPid /\ End(c)
     \/ ReadPid # NoPid /\ Becomes(c, [command[c] EXCEPT !.at = "signal", !.pid = ReadPid])
  /\ UNCHANGED <<serverVars, foreign, alone, misled>>

RestartStarts(c) ==
  /\ At(c, "start")
  /\ pidFile' = ReadPid
  /\ \/ ReadPid = NoPid /\ Goto(c, "spawn")
     \/ ReadPid # NoPid /\ End(c)
  /\ UNCHANGED <<serverVars, foreign, alone, misled>>

Stopped(c) == IF command[c].restarts THEN Goto(c, "start") ELSE End(c)

Signal(c) ==
  /\ At(c, "signal")
  /\ \/ /\ server[Pid(c)] \in Alive
        /\ Sigterm(Pid(c))
        /\ Goto(c, "waitForExit")
        /\ UNCHANGED pidFile
     \/ /\ server[Pid(c)] \notin Alive
        /\ pidFile' = NoPid
        /\ Stopped(c)
        /\ UNCHANGED serverVars
  /\ UNCHANGED <<foreign, alone, misled>>

\* Mutant: a server that takes more than five seconds is left to itself.
WaitForExitOnly(c) ==
  /\ At(c, "waitForExit")
  /\ UNCHANGED serverVars
  /\ Goto(c, "clean")
  /\ UNCHANGED <<pidFile, foreign, alone, misled>>

(***************************************************************************)
(* The process ends within five seconds or is killed.                      *)
(***************************************************************************)
WaitForExit(c) ==
  /\ At(c, "waitForExit")
  /\ \/ server[Pid(c)] \notin Alive /\ UNCHANGED serverVars
     \/ server[Pid(c)] \in Alive /\ Sigkill(Pid(c))
  /\ Goto(c, "clean")
  /\ UNCHANGED <<pidFile, foreign, alone, misled>>

CleanPidFile(c) ==
  /\ At(c, "clean")
  /\ pidFile' = NoPid
  /\ Stopped(c)
  /\ UNCHANGED <<serverVars, foreign, alone, misled>>

(***************************************************************************)
(* The tunnel is the server's affair from here on.                         *)
(***************************************************************************)
SpawnServer(c) ==
  /\ At(c, "spawn")
  /\ \E p \in Pids :
       /\ \A q \in 1 .. p - 1 : server[q] # "none"
       /\ Spawn(p, command[c].tunnel)
       /\ Becomes(c, [command[c] EXCEPT !.at = "write", !.pid = p, !.tunnel = FALSE])
  /\ UNCHANGED <<pidFile, foreign, alone, misled>>

WritePidFile(c) ==
  /\ At(c, "write")
  /\ pidFile' = Pid(c)
  /\ Goto(c, "waitForHealth")
  /\ UNCHANGED <<serverVars, foreign, alone, misled>>

(***************************************************************************)
(* Whoever listens answers for the new server; or none does in time.       *)
(***************************************************************************)
WaitForHealth(c) ==
  /\ At(c, "waitForHealth")
  /\ \/ Taken /\ misled' = (misled \/ (alone /\ ~foreign /\ Pid(c) \notin listening))
     \/ UNCHANGED misled
  /\ End(c)
  /\ UNCHANGED <<serverVars, pidFile, foreign, alone>>

(***************************************************************************)
(* Someone else signals the server: the system, or a key.                  *)
(***************************************************************************)
Signalled ==
  /\ \E p \in Pids : server[p] = "up" /\ Shutdown(p)
  /\ UNCHANGED cliVars

Proceeds(c) ==
  \/ Probe(c) \/ RestartStops(c) \/ RestartStarts(c)
  \/ Signal(c) \/ WaitForExit(c) \/ CleanPidFile(c)
  \/ SpawnServer(c) \/ WritePidFile(c) \/ WaitForHealth(c)

Next ==
  \/ ServerStep(Taken) /\ UNCHANGED cliVars
  \/ Signalled
  \/ \E c \in Terminals : Start(c) \/ Stop(c) \/ Restart(c) \/ Proceeds(c)

(***************************************************************************)
(* A command goes on, and ten seconds pass.                                *)
(***************************************************************************)
Fairness ==
  /\ \A c \in Terminals : WF_vars(Proceeds(c))
  /\ \A p \in Pids : WF_vars(ForcedExit(p) /\ UNCHANGED cliVars)

Spec == Init /\ [][Next]_vars /\ Fairness

-----------------------------------------------------------------------------
Holding == {"signal", "waitForExit", "clean", "write", "waitForHealth"}
Labels == Holding \cup {"idle", "probe", "stop", "start", "spawn"}

(***************************************************************************)
(* The type invariant of commands and servers; a command that signals,     *)
(* waits or cleans up has a process to do it for.                          *)
(***************************************************************************)
TypeOK ==
  /\ ServerTypeOK
  /\ pidFile \in Pids \cup {NoPid}
  /\ command \in [Terminals -> [at : Labels, restarts : BOOLEAN,
                                pid : Pids \cup {NoPid}, tunnel : BOOLEAN]]
  /\ \A c \in Terminals : command[c].at \in Holding => Pid(c) # NoPid
  /\ foreign \in BOOLEAN /\ alone \in BOOLEAN /\ misled \in BOOLEAN

(***************************************************************************)
(* Commands given one after the other lose no server: between them every   *)
(* live process is the one in the PID file, so that stop finds it.  And    *)
(* what start calls running is the process it has spawned, and listens,    *)
(* unless a server in the foreground holds the port and answers for it.    *)
(* Two commands at a time break both.                                      *)
(***************************************************************************)
ServersAreKnown ==
  /\ alone /\ UnderWay = {} => \A p \in Pids : server[p] \in Alive => pidFile = p
  /\ ~misled

(***************************************************************************)
(* A server that is not cut short leaves no cloudflared behind, if it knew *)
(* of one when it was told to stop: it does not exit before its tunnel.    *)
(***************************************************************************)
CleanExitStopsTunnel ==
  \A p \in owing : server[p] = "dead" => cloudflared[p] \notin Running

(***************************************************************************)
(* A server that is told to stop does, even if it waits for the close      *)
(* event of a cloudflared that was killed long ago; and every command      *)
(* ends.                                                                   *)
(***************************************************************************)
EverythingEnds ==
  /\ \A p \in Pids : server[p] \in Stopping ~> server[p] = "dead"
  /\ \A c \in Terminals : ~At(c, "idle") ~> At(c, "idle")
=============================================================================
