------------------------- MODULE DrawlatchCli_proofs -------------------------
(***************************************************************************)
(* Proofs about DrawlatchCli for any number of processes, terminals and    *)
(* crashes.                                                                *)
(***************************************************************************)
EXTENDS DrawlatchCli, TLAPS

(***************************************************************************)
(* A server that owes it to its tunnel has been told to stop.  While it    *)
(* waits it has the tunnel in hand; it lets go of its port, and then ends, *)
(* when there is none any more.                                            *)
(***************************************************************************)
Owed ==
  \A p \in owing :
    \/ server[p] = "stopping" /\ p \in stopTunnel
    \/ server[p] \in {"closing", "dead"} /\ cloudflared[p] \notin Running

(***************************************************************************)
(* A process that was never spawned has no tunnel.                         *)
(***************************************************************************)
Unborn == \A p \in Pids : server[p] = "none" => cloudflared[p] = "none"

(***************************************************************************)
(* What the servers alone preserve, and all of it.                         *)
(***************************************************************************)
SInv == ServerTypeOK /\ Unborn /\ Owed

IInv == TypeOK /\ Unborn /\ Owed

-----------------------------------------------------------------------------
LEMMA InitIInv == Init => IInv
<1> SUFFICES ASSUME Init PROVE IInv
  OBVIOUS
<1>1. ServerTypeOK /\ Unborn /\ Owed
  BY ProcessesAssumption DEF Init, ServerInit, ServerTypeOK, Unborn, Owed
<1>2. Idle \in [at : Labels, restarts : BOOLEAN, pid : Pids \cup {NoPid}, tunnel : BOOLEAN]
  BY DEF Idle, Labels
<1>3. Idle.at \notin Holding
  BY DEF Idle, Holding
<1> QED
  BY <1>1, <1>2, <1>3 DEF Init, IInv, TypeOK

LEMMA SpawnStep ==
  ASSUME SInv, NEW p \in Pids, NEW tunnel, Spawn(p, tunnel)
  PROVE  SInv'
<1>1. ServerTypeOK'
  <2>1. /\ server' \in [Pids -> Alive \cup {"none", "dead"}]
        /\ cloudflared' \in [Pids -> Running \cup {"none", "wanted", "exited", "killed"}]
    BY DEF SInv, ServerTypeOK, Spawn, Alive
  <2>2. /\ UNCHANGED <<listening, stopTunnel, owing, crashes>>
        /\ p \notin listening /\ p \notin stopTunnel
        /\ \A q \in Pids : q # p => server'[q] = server[q] /\ cloudflared'[q] = cloudflared[q]
    BY DEF SInv, ServerTypeOK, Unborn, Spawn
  <2> QED
    BY <2>1, <2>2 DEF SInv, ServerTypeOK
<1>2. Unborn' /\ Owed'
  BY DEF SInv, ServerTypeOK, Unborn, Owed, Spawn, Alive, Running
<1> QED
  BY <1>1, <1>2 DEF SInv

LEMMA ListenStep ==
  ASSUME SInv, NEW p \in Pids, NEW taken, Listen(p, taken)
  PROVE  SInv'
<1>1. p \notin owing
  BY DEF SInv, Owed, Listen
<1>2. ServerTypeOK'
  <2>1. /\ server' = [server EXCEPT ![p] = "up"] /\ listening' \subseteq listening \cup {p}
        /\ UNCHANGED <<stopTunnel, owing, crashes>>
        /\ \/ UNCHANGED cloudflared
           \/ /\ cloudflared[p] = "wanted"
              /\ \E s \in {"starting", "none"} : cloudflared' = [cloudflared EXCEPT ![p] = s]
    BY DEF Listen
  <2> QED
    BY <2>1 DEF SInv, ServerTypeOK, Alive, Running
<1>3. Unborn' /\ Owed'
  BY <1>1 DEF SInv, ServerTypeOK, Unborn, Owed, Listen, Alive
<1> QED
  BY <1>2, <1>3 DEF SInv

(***************************************************************************)
(* What becomes of the cloudflared of a server that runs.                  *)
(***************************************************************************)
LEMMA TunnelStep ==
  ASSUME SInv, NEW p \in Pids,
         TunnelUrl(p) \/ TunnelFails(p) \/ TunnelDies(p) \/ TunnelStops(p)
  PROVE  SInv'
<1>1. CASE TunnelUrl(p)
  BY <1>1 DEF SInv, ServerTypeOK, Unborn, Owed, TunnelUrl, Alive, Running
<1>2. CASE TunnelFails(p)
  BY <1>2 DEF SInv, ServerTypeOK, Unborn, Owed, TunnelFails, Alive, Running
<1>3. CASE TunnelDies(p)
  <2>1. ServerTypeOK'
    BY <1>3, ProcessesAssumption DEF SInv, ServerTypeOK, TunnelDies, Alive, Running
  <2>2. Unborn' /\ Owed'
    BY <1>3 DEF SInv, ServerTypeOK, Unborn, Owed, TunnelDies, Alive, Running
  <2> QED
    BY <2>1, <2>2 DEF SInv
<1>4. CASE TunnelStops(p)
  BY <1>4 DEF SInv, ServerTypeOK, Unborn, Owed, TunnelStops, Alive, Running
<1> QED
  BY <1>1, <1>2, <1>3, <1>4

(***************************************************************************)
(* shutdown() closes at once only if it knows of no tunnel, or knows that  *)
(* it has exited.                                                          *)
(***************************************************************************)
LEMMA ShutdownStep ==
  ASSUME SInv, NEW p \in Pids, server[p] \in Alive \ {"booting"}, Shutdown(p)
  PROVE  SInv'
<1>1. ServerTypeOK'
  BY DEF SInv, ServerTypeOK, Shutdown, Alive, Running
<1>2. \A q \in Pids : q # p =>
        server'[q] = server[q] /\ cloudflared'[q] = cloudflared[q] /\ (q \in owing' => q \in owing)
  BY DEF SInv, ServerTypeOK, Shutdown
<1>3. ASSUME p \in owing'
      PROVE  \/ server'[p] = "stopping" /\ p \in stopTunnel
             \/ server'[p] = "closing" /\ cloudflared'[p] \notin Running
  <2>1. CASE server[p] = "closing"
    BY <1>3, <2>1 DEF SInv, ServerTypeOK, Owed, Shutdown, Alive, Running
  <2>2. CASE server[p] # "closing"
    <3>1. p \in stopTunnel
      BY <1>3, <2>2 DEF SInv, Owed, Shutdown, Alive
    <3> QED
      BY <2>2, <3>1 DEF SInv, ServerTypeOK, Shutdown, Waits, Alive, Running
  <2> QED
    BY <2>1, <2>2
<1>4. Owed'
  BY <1>1, <1>2, <1>3 DEF SInv, ServerTypeOK, Owed, Shutdown
<1>5. Unborn'
  BY DEF SInv, ServerTypeOK, Unborn, Shutdown, Alive
<1> QED
  BY <1>1, <1>4, <1>5 DEF SInv

(***************************************************************************)
(* A process ends on its own terms only when it has closed; whatever cuts  *)
(* it short takes it from those that owe.                                  *)
(***************************************************************************)
LEMMA DeathStep ==
  ASSUME SInv, NEW p \in Pids,
         SigtermBooting(p) \/ Sigkill(p) \/ Drained(p) \/ ForcedExit(p) \/ Crash(p)
  PROVE  SInv'
<1>1. /\ server' = [server EXCEPT ![p] = "dead"]
      /\ listening' = listening \ {p}
      /\ stopTunnel' = stopTunnel \ {p}
      /\ UNCHANGED cloudflared
      /\ \/ owing' = owing \ {p}
         \/ owing' = owing /\ server[p] \in {"booting", "up", "closing"}
      /\ \/ UNCHANGED crashes
         \/ crashes < MaxCrashes /\ crashes' = crashes + 1
  <2>1. Dies(p)
    BY DEF SigtermBooting, Sigkill, Drained, ForcedExit, Crash
  <2>2. \/ owing' = owing \ {p}
        \/ owing' = owing /\ server[p] \in {"booting", "up", "closing"}
    BY DEF SigtermBooting, Sigkill, Drained, ForcedExit, Crash
  <2>3. \/ UNCHANGED crashes
        \/ crashes < MaxCrashes /\ crashes' = crashes + 1
    BY DEF SigtermBooting, Sigkill, Drained, ForcedExit, Crash
  <2> QED
    BY <2>1, <2>2, <2>3 DEF Dies
<1>2. ServerTypeOK'
  BY <1>1, ProcessesAssumption DEF SInv, ServerTypeOK, Alive
<1>3. Unborn' /\ Owed'
  BY <1>1 DEF SInv, ServerTypeOK, Unborn, Owed
<1> QED
  BY <1>2, <1>3 DEF SInv

-----------------------------------------------------------------------------
(***************************************************************************)
(* Steps that are not a command's.                                         *)
(***************************************************************************)
LEMMA ServerStepSInv ==
  ASSUME SInv, ServerStep(Taken)
  PROVE  SInv'
BY ListenStep, TunnelStep, DeathStep DEF ServerStep

LEMMA SigtermStep ==
  ASSUME SInv, NEW p \in Pids, Sigterm(p)
  PROVE  SInv'
BY ShutdownStep, DeathStep DEF Sigterm

LEMMA OwnSteps ==
  ASSUME IInv, UNCHANGED cliVars, ServerStep(Taken) \/ Signalled
  PROVE  IInv'
<1>1. SInv'
  BY ServerStepSInv, ShutdownStep DEF IInv, TypeOK, SInv, Signalled, Alive
<1> QED
  BY <1>1 DEF IInv, TypeOK, SInv, cliVars, Pid

(***************************************************************************)
(* The steps of a command.                                                 *)
(***************************************************************************)
CommandTypes ==
  [at : Labels, restarts : BOOLEAN, pid : Pids \cup {NoPid}, tunnel : BOOLEAN]

Sound(r) == r \in CommandTypes /\ (r.at \in Holding => r.pid # NoPid)

LEMMA BecomesSound ==
  ASSUME IInv, SInv', NEW c \in Terminals, NEW new, Sound(new), Becomes(c, new),
         pidFile' \in Pids \cup {NoPid}, UNCHANGED foreign,
         alone' \in BOOLEAN, misled' \in BOOLEAN
  PROVE  IInv'
BY DEF IInv, SInv, TypeOK, Becomes, Sound, CommandTypes, Pid

LEMMA ReadPidType ==
  ASSUME IInv
  PROVE  ReadPid \in Pids \cup {NoPid}
BY DEF IInv, TypeOK, ReadPid

LEMMA IdleSound == Sound(Idle)
BY DEF Sound, Idle, CommandTypes, Labels, Holding

LEMMA MovedSound ==
  ASSUME IInv, NEW c \in Terminals, NEW label \in Labels,
         label \in Holding => Pid(c) # NoPid
  PROVE  Sound([command[c] EXCEPT !.at = label])
BY DEF IInv, TypeOK, Sound, CommandTypes, Pid

LEMMA AimedSound ==
  ASSUME IInv, NEW c \in Terminals, NEW label \in Labels, NEW p \in Pids
  PROVE  /\ Sound([command[c] EXCEPT !.at = label, !.pid = p])
         /\ Sound([command[c] EXCEPT !.at = label, !.pid = p, !.tunnel = FALSE])
         /\ Sound([Idle EXCEPT !.at = label, !.pid = p])
BY CommandsAssumption DEF IInv, TypeOK, Sound, CommandTypes, Idle

LEMMA SameServers == ASSUME IInv, UNCHANGED serverVars PROVE SInv'
BY DEF IInv, TypeOK, SInv, ServerTypeOK, Unborn, Owed, serverVars

LEMMA SameCommands ==
  ASSUME IInv, SInv', UNCHANGED command, pidFile' \in Pids \cup {NoPid}, UNCHANGED foreign,
         alone' \in BOOLEAN, misled' \in BOOLEAN
  PROVE  IInv'
BY DEF IInv, SInv, TypeOK, Pid

-----------------------------------------------------------------------------
LEMMA GivenStep ==
  ASSUME IInv, NEW c \in Terminals, Start(c) \/ Stop(c) \/ Restart(c)
  PROVE  IInv'
<1>1. /\ UNCHANGED <<serverVars, foreign, misled>>
      /\ pidFile' = ReadPid
      /\ alone' = (alone /\ UnderWay = {})
  BY DEF Start, Stop, Restart, Given
<1>2. /\ SInv' /\ pidFile' \in Pids \cup {NoPid}
      /\ alone' \in BOOLEAN /\ misled' \in BOOLEAN
  BY <1>1, SameServers, ReadPidType DEF IInv, TypeOK
<1>3. \/ UNCHANGED command
      \/ \E new : Sound(new) /\ Becomes(c, new)
  <2>1. CASE Start(c)
    <3>1. \A t \in BOOLEAN : Sound([Idle EXCEPT !.at = "spawn", !.tunnel = t])
      BY DEF Sound, CommandTypes, Idle, Labels, Holding
    <3> QED
      BY <2>1, <3>1 DEF Start
  <2>2. CASE Stop(c)
    <3>1. ReadPid # NoPid => Sound([Idle EXCEPT !.at = "signal", !.pid = ReadPid])
      BY ReadPidType, AimedSound DEF Labels, Holding
    <3> QED
      BY <2>2, <3>1 DEF Stop
  <2>3. CASE Restart(c)
    <3>1. \A label \in {"start", "probe"} : Sound([Idle EXCEPT !.at = label, !.restarts = TRUE])
      BY DEF Sound, CommandTypes, Idle, Labels, Holding
    <3> QED
      BY <2>3, <3>1 DEF Restart
  <2> QED
    BY <2>1, <2>2, <2>3
<1> QED
  BY <1>1, <1>2, <1>3, SameCommands, BecomesSound

(***************************************************************************)
(* Where a command goes next.                                              *)
(***************************************************************************)
LEMMA NextPlace ==
  ASSUME IInv, SInv', NEW c \in Terminals, pidFile' \in Pids \cup {NoPid},
         UNCHANGED foreign, alone' \in BOOLEAN, misled' \in BOOLEAN,
         \/ End(c)
         \/ Stopped(c)
         \/ \E label \in Labels : (label \in Holding => Pid(c) # NoPid) /\ Goto(c, label)
  PROVE  IInv'
<1>1. CASE End(c)
  BY <1>1, IdleSound, BecomesSound DEF End
<1>2. ASSUME NEW label \in Labels, label \in Holding => Pid(c) # NoPid, Goto(c, label)
      PROVE  IInv'
  BY <1>2, MovedSound, BecomesSound DEF Goto
<1>3. CASE Stopped(c)
  BY <1>1, <1>2, <1>3 DEF Stopped, Labels, Holding
<1> QED
  BY <1>1, <1>2, <1>3

(***************************************************************************)
(* A command that holds a process has one to signal.                       *)
(***************************************************************************)
LEMMA HeldPid ==
  ASSUME IInv, NEW c \in Terminals, command[c].at \in Holding
  PROVE  Pid(c) \in Pids
BY DEF IInv, TypeOK, Pid

LEMMA ProceedsStep ==
  ASSUME IInv, NEW c \in Terminals, Proceeds(c)
  PROVE  IInv'
<1>1. /\ pidFile \in Pids \cup {NoPid} /\ ReadPid \in Pids \cup {NoPid}
      /\ alone \in BOOLEAN /\ misled \in BOOLEAN /\ SInv
  BY ReadPidType DEF IInv, TypeOK, SInv
<1>2. CASE Probe(c)
  <2>1. \A t \in BOOLEAN : Sound([command[c] EXCEPT !.at = "stop", !.tunnel = t])
    BY DEF IInv, TypeOK, Sound, CommandTypes, Labels, Holding
  <2>2. PICK t \in BOOLEAN : Becomes(c, [command[c] EXCEPT !.at = "stop", !.tunnel = t])
    BY <1>2 DEF Probe
  <2>3. UNCHANGED <<serverVars, pidFile, foreign, alone, misled>>
    BY <1>2 DEF Probe
  <2> QED
    BY <1>1, <2>1, <2>2, <2>3, SameServers, BecomesSound
<1>3. CASE RestartStops(c)
  <2>1. ReadPid # NoPid => Sound([command[c] EXCEPT !.at = "signal", !.pid = ReadPid])
    BY <1>1, AimedSound DEF Labels, Holding
  <2>2. SInv' /\ pidFile' \in Pids \cup {NoPid} /\ UNCHANGED <<foreign, alone, misled>>
    BY <1>1, <1>3, SameServers DEF RestartStops
  <2>3. CASE End(c)
    BY <1>1, <2>2, <2>3, NextPlace
  <2>4. CASE /\ ReadPid # NoPid
             /\ Becomes(c, [command[c] EXCEPT !.at = "signal", !.pid = ReadPid])
    BY <1>1, <2>1, <2>2, <2>4, BecomesSound
  <2> QED
    BY <1>3, <2>3, <2>4 DEF RestartStops
<1>4. CASE RestartStarts(c)
  BY <1>1, <1>4, SameServers, NextPlace DEF RestartStarts, Labels, Holding
<1>5. CASE Signal(c)
  <2>1. Pid(c) \in Pids /\ Pid(c) # NoPid
    BY <1>5, HeldPid, CommandsAssumption DEF Signal, At, Holding
  <2>2. UNCHANGED <<foreign, alone, misled>> /\ pidFile' \in Pids \cup {NoPid}
    BY <1>1, <1>5 DEF Signal
  <2>3. SInv'
    BY <1>1, <1>5, <2>1, SigtermStep, SameServers DEF Signal
  <2>4. Goto(c, "waitForExit") \/ Stopped(c)
    BY <1>5 DEF Signal
  <2> QED
    BY <1>1, <2>1, <2>2, <2>3, <2>4, NextPlace DEF Labels, Holding
<1>6. CASE WaitForExit(c)
  <2>1. Pid(c) \in Pids /\ Pid(c) # NoPid
    BY <1>6, HeldPid, CommandsAssumption DEF WaitForExit, At, Holding
  <2>2. UNCHANGED <<pidFile, foreign, alone, misled>> /\ Goto(c, "clean")
    BY <1>6 DEF WaitForExit
  <2>3. SInv'
    BY <1>1, <1>6, <2>1, DeathStep, SameServers DEF WaitForExit
  <2> QED
    BY <1>1, <2>1, <2>2, <2>3, NextPlace DEF Labels, Holding
<1>7. CASE CleanPidFile(c)
  BY <1>1, <1>7, SameServers, NextPlace DEF CleanPidFile
<1>8. CASE SpawnServer(c)
  <2>1. PICK p \in Pids :
          /\ Spawn(p, command[c].tunnel)
          /\ Becomes(c, [command[c] EXCEPT !.at = "write", !.pid = p, !.tunnel = FALSE])
    BY <1>8 DEF SpawnServer
  <2>2. SInv' /\ UNCHANGED <<pidFile, foreign, alone, misled>>
    BY <1>1, <1>8, <2>1, SpawnStep DEF SpawnServer
  <2>3. Sound([command[c] EXCEPT !.at = "write", !.pid = p, !.tunnel = FALSE])
    BY AimedSound DEF Labels, Holding
  <2> QED
    BY <1>1, <2>1, <2>2, <2>3, BecomesSound
<1>9. CASE WritePidFile(c)
  <2>1. Pid(c) \in Pids /\ Pid(c) # NoPid
    BY <1>9, HeldPid, CommandsAssumption DEF WritePidFile, At, Holding
  <2> QED
    BY <1>1, <1>9, <2>1, SameServers, NextPlace DEF WritePidFile, Labels, Holding
<1>10. CASE WaitForHealth(c)
  <2>1. misled' \in BOOLEAN /\ End(c) /\ UNCHANGED <<serverVars, pidFile, foreign, alone>>
    BY <1>1, <1>10 DEF WaitForHealth
  <2> QED
    BY <1>1, <2>1, SameServers, NextPlace
<1> QED
  BY <1>2, <1>3, <1>4, <1>5, <1>6, <1>7, <1>8, <1>9, <1>10 DEF Proceeds

LEMMA NextIInv ==
  ASSUME IInv, [Next]_vars
  PROVE  IInv'
<1>1. CASE UNCHANGED vars
  <2>1. UNCHANGED <<serverVars, pidFile, command, foreign, alone, misled>>
    BY <1>1 DEF vars, cliVars
  <2>2. SInv'
    BY <2>1, SameServers
  <2> QED
    BY <2>1, <2>2, SameCommands DEF IInv, TypeOK
<1>2. CASE UNCHANGED cliVars /\ (ServerStep(Taken) \/ Signalled)
  BY <1>2, OwnSteps
<1>3. ASSUME NEW c \in Terminals, Start(c) \/ Stop(c) \/ Restart(c) \/ Proceeds(c)
      PROVE  IInv'
  BY <1>3, GivenStep, ProceedsStep
<1> QED
  BY <1>1, <1>2, <1>3 DEF Next, Signalled

(***************************************************************************)
(* The strengthened invariant holds in every reachable state.              *)
(***************************************************************************)
THEOREM Invariance == Spec => []IInv
BY InitIInv, NextIInv, PTL DEF Spec

-----------------------------------------------------------------------------
(***************************************************************************)
(* Commands and servers stay typed; a command that signals, waits or       *)
(* cleans up has a process to do it for.                                   *)
(***************************************************************************)
THEOREM TypeCorrect == Spec => []TypeOK
<1>1. IInv => TypeOK
  BY DEF IInv
<1> QED
  BY <1>1, Invariance, PTL

(***************************************************************************)
(* No server that knew its tunnel and was not cut short exits before it.   *)
(***************************************************************************)
THEOREM CleanExit == Spec => []CleanExitStopsTunnel
<1>1. IInv => CleanExitStopsTunnel
  BY DEF IInv, Owed, CleanExitStopsTunnel
<1> QED
  BY <1>1, Invariance, PTL
-----------------------------------------------------------------------------
(***************************************************************************)
(* Why commands that are given one after the other lose no server.  All    *)
(* the while, a server that lives is in the PID file, but for the time     *)
(* between its spawn and writePid(); while a command has read or spawned a *)
(* process it is that one; and there is none when start spawns, nor when   *)
(* stop removes the file.  Accounts says it of a command r and the content *)
(* of the file.                                                            *)
(***************************************************************************)
Following == {"signal", "waitForExit", "write", "waitForHealth"}

Accounts(r, file, p) ==
  /\ r.at \notin {"spawn", "clean"}
  /\ r.at # "write" => file = p
  /\ r.at \in Following => r.pid = p

Known ==
  /\ ~misled
  /\ alone =>
       /\ \A c, d \in UnderWay : c = d
       /\ \A p \in Pids : server[p] \in Alive =>
            /\ UnderWay = {} => pidFile = p
            /\ \A c \in UnderWay : Accounts(command[c], pidFile, p)

(***************************************************************************)
(* Only a spawn adds to the processes that live.                           *)
(***************************************************************************)
NoneIsBorn == \A p \in Pids : server'[p] \in Alive => server[p] \in Alive

LEMMA ShutdownBearsNone ==
  ASSUME ServerTypeOK, NEW p \in Pids, server[p] \in Alive, Shutdown(p)
  PROVE  NoneIsBorn
BY DEF ServerTypeOK, Shutdown, Alive, NoneIsBorn

LEMMA DeathBearsNone ==
  ASSUME ServerTypeOK, NEW p \in Pids, Dies(p)
  PROVE  NoneIsBorn
BY DEF ServerTypeOK, Dies, Alive, NoneIsBorn

LEMMA OwnStepsBearNone ==
  ASSUME ServerTypeOK, ServerStep(Taken) \/ Signalled
  PROVE  NoneIsBorn
<1>1. CASE Signalled
  BY <1>1, ShutdownBearsNone DEF Signalled, Alive
<1>2. ASSUME NEW p \in Pids, Listen(p, Taken)
      PROVE  NoneIsBorn
  BY <1>2 DEF ServerTypeOK, Listen, Alive, NoneIsBorn
<1>3. ASSUME NEW p \in Pids, TunnelUrl(p) \/ TunnelFails(p) \/ TunnelDies(p)
      PROVE  NoneIsBorn
  BY <1>3 DEF TunnelUrl, TunnelFails, TunnelDies, NoneIsBorn
<1>4. ASSUME NEW p \in Pids, TunnelStops(p)
      PROVE  NoneIsBorn
  BY <1>4 DEF ServerTypeOK, TunnelStops, Alive, NoneIsBorn
<1>5. ASSUME NEW p \in Pids, Drained(p) \/ ForcedExit(p) \/ Crash(p)
      PROVE  NoneIsBorn
  BY <1>5, DeathBearsNone DEF Drained, ForcedExit, Crash
<1> QED
  BY <1>1, <1>2, <1>3, <1>4, <1>5 DEF ServerStep

LEMMA SigtermBearsNone ==
  ASSUME ServerTypeOK, NEW p \in Pids, Sigterm(p)
  PROVE  NoneIsBorn
BY ShutdownBearsNone, DeathBearsNone DEF Sigterm, SigtermBooting

LEMMA KnownOwnSteps ==
  ASSUME Known, NoneIsBorn, UNCHANGED cliVars
  PROVE  Known'
BY DEF Known, NoneIsBorn, cliVars, UnderWay, At

(***************************************************************************)
(* The one command that is under way goes on, and answers for the          *)
(* processes that live; or ends, and the file does.                        *)
(***************************************************************************)
LEMMA KnownMove ==
  ASSUME IInv, Known, NEW c \in Terminals, UNCHANGED alone, ~misled',
         ~At(c, "idle"), NEW new, Becomes(c, new),
         alone => \A p \in Pids : server'[p] \in Alive => Accounts(new, pidFile', p)
  PROVE  Known'
<1> SUFFICES ASSUME alone'
             PROVE  /\ \A a, b \in UnderWay' : a = b
                    /\ \A p \in Pids : server'[p] \in Alive =>
                         /\ UnderWay' = {} => pidFile' = p
                         /\ \A a \in UnderWay' : Accounts(command'[a], pidFile', p)
  BY DEF Known
<1>1. UnderWay = {c}
  BY DEF Known, UnderWay
<1>2. command'[c] = new /\ \A a \in Terminals : a # c => command'[a] = command[a]
  BY DEF Becomes, IInv, TypeOK
<1>3. UnderWay' = IF new.at = "idle" THEN {} ELSE {c}
  BY <1>1, <1>2 DEF UnderWay, At
<1>4. ASSUME NEW p \in Pids, server'[p] \in Alive
      PROVE  /\ UnderWay' = {} => pidFile' = p
             /\ \A a \in UnderWay' : Accounts(command'[a], pidFile', p)
  <2>1. Accounts(new, pidFile', p)
    BY <1>4
  <2>2. new.at = "idle" => pidFile' = p
    BY <2>1 DEF Accounts
  <2> QED
    BY <1>2, <1>3, <2>1, <2>2
<1> QED
  BY <1>3, <1>4

(***************************************************************************)
(* readPid() finds the process that lives, if the file has it.             *)
(***************************************************************************)
LEMMA ReadPidFinds ==
  ASSUME NEW p \in Pids, server[p] \in Alive, pidFile = p
  PROVE  ReadPid = p /\ ReadPid # NoPid
BY CommandsAssumption DEF ReadPid

(***************************************************************************)
(* Nothing is known of commands that were given while another was under    *)
(* way.  One that is given alone finds what lives in the file.             *)
(***************************************************************************)
LEMMA KnownGiven ==
  ASSUME IInv, Known, NEW c \in Terminals, Start(c) \/ Stop(c) \/ Restart(c)
  PROVE  Known'
<1>1. /\ UNCHANGED <<server, misled>>
      /\ pidFile' = ReadPid
      /\ alone' = (alone /\ UnderWay = {})
  BY DEF Start, Stop, Restart, Given, serverVars
<1> SUFFICES ASSUME alone, UnderWay = {}
             PROVE  /\ \A a, b \in UnderWay' : a = b
                    /\ \A p \in Pids : server[p] \in Alive =>
                         /\ UnderWay' = {} => ReadPid = p
                         /\ \A a \in UnderWay' : Accounts(command'[a], ReadPid, p)
  BY <1>1 DEF Known
<1>2. \A p \in Pids : server[p] \in Alive => ReadPid = p /\ ReadPid # NoPid
  BY ReadPidFinds DEF Known
<1>3. CASE UNCHANGED command
  BY <1>2, <1>3 DEF UnderWay, At
<1>4. ASSUME NEW new, Becomes(c, new),
             \A p \in Pids : server[p] \in Alive => Accounts(new, ReadPid, p)
      PROVE  /\ \A a, b \in UnderWay' : a = b
             /\ \A p \in Pids : server[p] \in Alive =>
                  /\ UnderWay' = {} => ReadPid = p
                  /\ \A a \in UnderWay' : Accounts(command'[a], ReadPid, p)
  <2>1. command'[c] = new /\ \A a \in Terminals : a # c => command'[a] = command[a]
    BY <1>4 DEF Becomes, IInv, TypeOK
  <2>2. UnderWay' \subseteq {c}
    BY <2>1 DEF UnderWay, At
  <2> QED
    BY <1>2, <1>4, <2>1, <2>2
<1>5. CASE Start(c)
  BY <1>2, <1>3, <1>4, <1>5 DEF Start
<1>6. CASE Stop(c)
  <2>1. \A p \in Pids : server[p] \in Alive =>
          Accounts([Idle EXCEPT !.at = "signal", !.pid = ReadPid], ReadPid, p)
    BY <1>2 DEF Accounts, Following, Idle
  <2> QED
    BY <1>3, <1>4, <1>6, <2>1 DEF Stop
<1>7. CASE Restart(c)
  <2>1. \A label \in {"start", "probe"}, p \in Pids : server[p] \in Alive =>
          Accounts([Idle EXCEPT !.at = label, !.restarts = TRUE], ReadPid, p)
    BY <1>2 DEF Accounts, Following, Idle
  <2> QED
    BY <1>4, <1>7, <2>1 DEF Restart
<1> QED
  BY <1>5, <1>6, <1>7

(***************************************************************************)
(* The steps of a command, of which each is taken as the step of the only  *)
(* one.                                                                    *)
(***************************************************************************)
LEMMA KnownProceeds ==
  ASSUME IInv, Known, NEW c \in Terminals, Proceeds(c)
  PROVE  Known'
<1> DEFINE r == command[c]
<1>1. r \in CommandTypes /\ ~misled /\ ServerTypeOK
  BY DEF IInv, TypeOK, CommandTypes, Known
<1>2. ~At(c, "idle")
  BY DEF Proceeds, Probe, RestartStops, RestartStarts, Signal, WaitForExit,
         CleanPidFile, SpawnServer, WritePidFile, WaitForHealth, At
<1>3. ASSUME alone, NEW p \in Pids, server[p] \in Alive
      PROVE  /\ Accounts(r, pidFile, p)
             /\ pidFile = p => ReadPid = p /\ ReadPid # NoPid
  BY <1>2, <1>3, ReadPidFinds DEF Known, UnderWay
<1>4. CASE Probe(c)
  <2>1. PICK t \in BOOLEAN : Becomes(c, [r EXCEPT !.at = "stop", !.tunnel = t])
    BY <1>4 DEF Probe
  <2>2. UNCHANGED <<server, pidFile, alone, misled>> /\ r.at = "probe"
    BY <1>4 DEF Probe, serverVars, At
  <2>3. alone => \A p \in Pids : server'[p] \in Alive =>
          Accounts([r EXCEPT !.at = "stop", !.tunnel = t], pidFile', p)
    BY <1>1, <1>3, <2>2 DEF Accounts, Following, CommandTypes
  <2> QED
    BY <1>1, <1>2, <2>1, <2>2, <2>3, KnownMove
<1>5. CASE RestartStops(c)
  <2>1. UNCHANGED <<server, alone, misled>> /\ pidFile' = ReadPid /\ r.at = "stop"
    BY <1>5 DEF RestartStops, serverVars, At
  <2>2. alone => \A p \in Pids : server'[p] \in Alive => ReadPid = p /\ ReadPid # NoPid
    BY <1>3, <2>1 DEF Accounts
  <2>3. CASE ReadPid = NoPid /\ End(c)
    BY <1>1, <1>2, <2>1, <2>2, <2>3, KnownMove DEF End
  <2>4. CASE Becomes(c, [r EXCEPT !.at = "signal", !.pid = ReadPid])
    <3>1. alone => \A p \in Pids : server'[p] \in Alive =>
            Accounts([r EXCEPT !.at = "signal", !.pid = ReadPid], pidFile', p)
      BY <1>1, <2>1, <2>2 DEF Accounts, Following, CommandTypes
    <3> QED
      BY <1>1, <1>2, <2>1, <2>4, <3>1, KnownMove
  <2> QED
    BY <1>5, <2>3, <2>4 DEF RestartStops
<1>6. CASE RestartStarts(c)
  <2>1. UNCHANGED <<server, alone, misled>> /\ pidFile' = ReadPid /\ r.at = "start"
    BY <1>6 DEF RestartStarts, serverVars, At
  <2>2. alone => \A p \in Pids : server'[p] \in Alive => ReadPid = p /\ ReadPid # NoPid
    BY <1>3, <2>1 DEF Accounts
  <2>3. CASE ReadPid = NoPid /\ Goto(c, "spawn")
    BY <1>1, <1>2, <2>1, <2>2, <2>3, KnownMove DEF Goto
  <2>4. CASE End(c)
    <3>1. alone => \A p \in Pids : server'[p] \in Alive => Accounts(Idle, pidFile', p)
      BY <2>1, <2>2 DEF Accounts, Following, Idle
    <3> QED
      BY <1>1, <1>2, <2>1, <2>4, <3>1, KnownMove DEF End
  <2> QED
    BY <1>6, <2>3, <2>4 DEF RestartStarts
<1> DEFINE NoneLives == \A p \in Pids : server'[p] \notin Alive
<1>7. ASSUME alone => NoneLives, UNCHANGED <<alone, misled>>,
             Stopped(c) \/ Goto(c, "clean")
      PROVE  Known'
  <2>1. PICK new : Becomes(c, new)
    BY <1>7 DEF Stopped, Goto, End
  <2> QED
    BY <1>1, <1>2, <1>7, <2>1, KnownMove
<1>8. CASE Signal(c)
  <2>1. Pid(c) \in Pids /\ r.at = "signal" /\ UNCHANGED <<alone, misled>>
    BY <1>8, HeldPid, CommandsAssumption DEF Signal, At, Holding
  <2>2. alone => \A p \in Pids : server[p] \in Alive => pidFile = p /\ Pid(c) = p
    BY <1>3, <2>1 DEF Accounts, Following, Pid
  <2>3. CASE server[Pid(c)] \in Alive
    <3>1. Sigterm(Pid(c)) /\ Goto(c, "waitForExit") /\ UNCHANGED pidFile
      BY <1>8, <2>3 DEF Signal
    <3>2. NoneIsBorn
      BY <1>1, <2>1, <3>1, SigtermBearsNone
    <3>3. alone => \A p \in Pids : server'[p] \in Alive =>
            Accounts([r EXCEPT !.at = "waitForExit"], pidFile', p)
      BY <1>1, <2>2, <3>1, <3>2 DEF NoneIsBorn, Accounts, Following, CommandTypes, Pid
    <3> QED
      BY <1>1, <1>2, <2>1, <3>1, <3>3, KnownMove DEF Goto
  <2>4. CASE server[Pid(c)] \notin Alive
    <3>1. Stopped(c) /\ UNCHANGED server
      BY <1>8, <2>4 DEF Signal, serverVars
    <3>2. alone => NoneLives
      BY <2>2, <2>4, <3>1
    <3> QED
      BY <1>7, <2>1, <3>1, <3>2
  <2> QED
    BY <2>3, <2>4
<1>9. CASE WaitForExit(c)
  <2>1. /\ Pid(c) \in Pids /\ r.at = "waitForExit"
        /\ Goto(c, "clean") /\ UNCHANGED <<alone, misled>>
    BY <1>9, HeldPid, CommandsAssumption DEF WaitForExit, At, Holding
  <2>2. alone => \A p \in Pids : server[p] \in Alive => Pid(c) = p
    BY <1>3, <2>1 DEF Accounts, Following, Pid
  <2>3. NoneIsBorn /\ server'[Pid(c)] \notin Alive
    <3>1. CASE server[Pid(c)] \notin Alive /\ UNCHANGED server
      BY <3>1 DEF NoneIsBorn
    <3>2. CASE Sigkill(Pid(c))
      <4>1. Dies(Pid(c))
        BY <3>2 DEF Sigkill
      <4> QED
        BY <1>1, <2>1, <4>1, DeathBearsNone DEF Dies, ServerTypeOK, Alive
    <3> QED
      BY <1>9, <3>1, <3>2 DEF WaitForExit, serverVars
  <2>4. alone => NoneLives
    BY <2>2, <2>3 DEF NoneIsBorn
  <2> QED
    BY <1>7, <2>1, <2>4
<1>10. CASE CleanPidFile(c)
  <2>1. r.at = "clean" /\ Stopped(c) /\ UNCHANGED <<server, alone, misled>>
    BY <1>10 DEF CleanPidFile, serverVars, At
  <2>2. alone => NoneLives
    BY <1>3, <2>1 DEF Accounts
  <2> QED
    BY <1>7, <2>1, <2>2
<1>11. CASE SpawnServer(c)
  <2>1. PICK p \in Pids :
          /\ Spawn(p, r.tunnel)
          /\ Becomes(c, [r EXCEPT !.at = "write", !.pid = p, !.tunnel = FALSE])
    BY <1>11 DEF SpawnServer
  <2>2. r.at = "spawn" /\ UNCHANGED <<alone, misled>>
    BY <1>11 DEF SpawnServer, At
  <2>3. alone => \A q \in Pids : server'[q] \in Alive => q = p
    BY <1>1, <1>3, <2>1, <2>2 DEF Accounts, Spawn, ServerTypeOK
  <2>4. alone => \A q \in Pids : server'[q] \in Alive =>
          Accounts([r EXCEPT !.at = "write", !.pid = p, !.tunnel = FALSE], pidFile', q)
    BY <1>1, <2>3 DEF Accounts, Following, CommandTypes
  <2> QED
    BY <1>1, <1>2, <2>1, <2>2, <2>4, KnownMove
<1>12. CASE WritePidFile(c)
  <2>1. /\ r.at = "write" /\ UNCHANGED <<server, alone, misled>>
        /\ Goto(c, "waitForHealth") /\ pidFile' = Pid(c)
    BY <1>12 DEF WritePidFile, serverVars, At
  <2>2. alone => \A p \in Pids : server'[p] \in Alive =>
          Accounts([r EXCEPT !.at = "waitForHealth"], pidFile', p)
    BY <1>1, <1>3, <2>1 DEF Accounts, Following, CommandTypes, Pid
  <2> QED
    BY <1>1, <1>2, <2>1, <2>2, KnownMove DEF Goto
<1>13. CASE WaitForHealth(c)
  <2>1. r.at = "waitForHealth" /\ End(c) /\ UNCHANGED <<server, pidFile, alone>>
    BY <1>13 DEF WaitForHealth, serverVars, At
  <2>2. alone => \A p \in Pids : server[p] \in Alive => pidFile = p /\ Pid(c) = p
    BY <1>3, <2>1 DEF Accounts, Following, Pid
  <2>3. alone /\ ~foreign /\ Taken => Pid(c) \in listening
    <3>1. listening \subseteq {p \in Pids : server[p] \in Alive}
      BY <1>1 DEF ServerTypeOK, Alive
    <3> QED
      BY <2>2, <3>1 DEF Taken
  <2>4. ~misled'
    BY <1>1, <1>13, <2>3 DEF WaitForHealth
  <2>5. alone => \A p \in Pids : server'[p] \in Alive => Accounts(Idle, pidFile', p)
    BY <2>1, <2>2 DEF Accounts, Following, Idle
  <2> QED
    BY <1>2, <2>1, <2>4, <2>5, KnownMove DEF End
<1> QED
  BY <1>4, <1>5, <1>6, <1>8, <1>9, <1>10, <1>11, <1>12, <1>13 DEF Proceeds

LEMMA InitKnown == Init => Known
BY DEF Init, ServerInit, Known, Alive, UnderWay, At, Idle

LEMMA NextKnown ==
  ASSUME IInv, Known, [Next]_vars
  PROVE  Known'
<1>1. CASE UNCHANGED vars
  BY <1>1, KnownOwnSteps DEF vars, serverVars, NoneIsBorn
<1>2. CASE UNCHANGED cliVars /\ (ServerStep(Taken) \/ Signalled)
  BY <1>2, OwnStepsBearNone, KnownOwnSteps DEF IInv, TypeOK
<1>3. ASSUME NEW c \in Terminals, Start(c) \/ Stop(c) \/ Restart(c) \/ Proceeds(c)
      PROVE  Known'
  BY <1>3, KnownGiven, KnownProceeds
<1> QED
  BY <1>1, <1>2, <1>3 DEF Next, Signalled

(***************************************************************************)
(* Commands given one after the other lose no server, however many there   *)
(* are and whatever dies in between; and start calls running what runs,    *)
(* unless a server in the foreground answers for it.                       *)
(***************************************************************************)
THEOREM NoServerIsLost == Spec => []ServersAreKnown
<1>1. Known => ServersAreKnown
  BY DEF Known, ServersAreKnown
<1>2. Spec => []Known
  BY InitKnown, NextKnown, Invariance, PTL DEF Spec
<1> QED
  BY <1>1, <1>2, PTL
=============================================================================
