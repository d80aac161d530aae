---------------------------- MODULE ServerProcess ----------------------------
(***************************************************************************)
(* The processes of the remote server, from main() to their exit           *)
(* (src/remote/server.ts), and the cloudflared each starts when asked for  *)
(* a tunnel (src/remote/tunnel.ts).  The actions change the variables of   *)
(* this module only.                                                       *)
(***************************************************************************)
EXTENDS Naturals, FiniteSets

CONSTANTS
  MaxProcesses,           \* bound: servers that are ever spawned
  MaxCrashes              \* bound: servers and tunnels that die by themselves

ASSUME ProcessesAssumption == MaxProcesses \in Nat /\ MaxCrashes \in Nat

Pids == 1 .. MaxProcesses

VARIABLES
  server,                 \* how far each process is
  listening,              \* those that listen on the port
  cloudflared,            \* what has become of the cloudflared of each
  stopTunnel,             \* those whose main() has set this variable
  owing,                  \* history: those that knew their tunnel when they
                          \* were told to stop, and have not been cut short
  crashes                 \* history: of servers and tunnels

serverVars == <<server, listening, cloudflared, stopTunnel, owing, crashes>>

(***************************************************************************)
(* A server boots, is up once listen() has called back, waits for its      *)
(* tunnel to stop, and closes: it has let go of the port and waits for its *)
(* connections.                                                            *)
(***************************************************************************)
Alive == {"booting", "up", "stopping", "closing"}
Stopping == {"stopping", "closing"}
Running == {"starting", "up", "terminating"}

ServerInit ==
  /\ server = [p \in Pids |-> "none"]
  /\ listening = {}
  /\ cloudflared = [p \in Pids |-> "none"]
  /\ stopTunnel = {}
  /\ owing = {}
  /\ crashes = 0

Spawn(p, tunnel) ==
  /\ server[p] = "none"
  /\ server' = [server EXCEPT ![p] = "booting"]
  /\ cloudflared' = [cloudflared EXCEPT ![p] = IF tunnel THEN "wanted" ELSE "none"]
  /\ UNCHANGED <<listening, stopTunnel, owing, crashes>>

(***************************************************************************)
(* main() listens, and starts the tunnel, if cloudflared is installed.     *)
(* Express calls the callback of listen() for an error as well, and main() *)
(* ignores its argument: with the port taken the process goes on, deaf.    *)
(***************************************************************************)
Listen(p, taken) ==
  /\ server[p] = "booting"
  /\ server' = [server EXCEPT ![p] = "up"]
  /\ listening' = IF taken THEN listening ELSE listening \cup {p}
  /\ \/ /\ cloudflared[p] = "wanted"
        /\ \E s \in {"starting", "none"} : cloudflared' = [cloudflared EXCEPT ![p] = s]
     \/ cloudflared[p] = "none" /\ UNCHANGED cloudflared
  /\ UNCHANGED <<stopTunnel, owing, crashes>>

(***************************************************************************)
(* A process that dies takes its port and its variables along.             *)
(***************************************************************************)
Dies(p) ==
  /\ server' = [server EXCEPT ![p] = "dead"]
  /\ listening' = listening \ {p}
  /\ stopTunnel' = stopTunnel \ {p}
  /\ UNCHANGED cloudflared

-----------------------------------------------------------------------------
(***************************************************************************)
(* startTunnel() resolves with the URL, or rejects: cloudflared exits, or  *)
(* is told to after fifteen seconds.                                       *)
(***************************************************************************)
TunnelUrl(p) ==
  /\ server[p] \in Alive /\ cloudflared[p] = "starting"
  /\ cloudflared' = [cloudflared EXCEPT ![p] = "up"]
  /\ stopTunnel' = stopTunnel \cup {p}
  /\ UNCHANGED <<server, listening, owing, crashes>>

TunnelFails(p) ==
  /\ server[p] \in Alive /\ cloudflared[p] = "starting"
  /\ \E s \in {"exited", "terminating"} : cloudflared' = [cloudflared EXCEPT ![p] = s]
  /\ UNCHANGED <<server, listening, stopTunnel, owing, crashes>>

(***************************************************************************)
(* cloudflared dies: with an exit code, or killed, which leaves exitCode   *)
(* null for ever.                                                          *)
(***************************************************************************)
TunnelDies(p) ==
  /\ cloudflared[p] = "up" /\ server[p] \in Alive
  /\ crashes < MaxCrashes /\ crashes' = crashes + 1
  /\ \E s \in {"exited", "killed"} : cloudflared' = [cloudflared EXCEPT ![p] = s]
  /\ UNCHANGED <<server, listening, stopTunnel, owing>>

(***************************************************************************)
(* A cloudflared told to stop does; stopTunnel() sees to that with SIGKILL *)
(* and goes on at the close event.                                         *)
(***************************************************************************)
TunnelStops(p) ==
  /\ cloudflared[p] = "terminating"
  /\ cloudflared' = [cloudflared EXCEPT ![p] = "exited"]
  /\ \/ /\ server[p] = "stopping"
        /\ server' = [server EXCEPT ![p] = "closing"]
        /\ listening' = listening \ {p}
     \/ server[p] # "stopping" /\ UNCHANGED <<server, listening>>
  /\ UNCHANGED <<stopTunnel, owing, crashes>>

-----------------------------------------------------------------------------
(***************************************************************************)
(* Before main() the process has no handler.                               *)
(***************************************************************************)
SigtermBooting(p) == server[p] = "booting" /\ Dies(p) /\ UNCHANGED <<owing, crashes>>

Waits(p) == p \in stopTunnel /\ cloudflared[p] # "exited"

\* Mutant: shutdown() does not wait for the tunnel.
ShutdownHurried(p) ==
  /\ owing' = owing \cup {q \in stopTunnel : q = p /\ server[q] = "up"}
  /\ server' = [server EXCEPT ![p] = "closing"]
  /\ listening' = listening \ {p}
  /\ cloudflared' = [cloudflared EXCEPT
                       ![p] = IF p \in stopTunnel /\ @ = "up" THEN "terminating" ELSE @]
  /\ UNCHANGED <<stopTunnel, crashes>>

(***************************************************************************)
(* shutdown() waits in stopTunnel(), if main() has that by now and         *)
(* exitCode is null, and then closes.                                      *)
(***************************************************************************)
Shutdown(p) ==
  /\ owing' = owing \cup {q \in stopTunnel : q = p /\ server[q] = "up"}
  /\ IF Waits(p) /\ server[p] # "closing"
       THEN server' = [server EXCEPT ![p] = "stopping"] /\ UNCHANGED listening
       ELSE server' = [server EXCEPT ![p] = "closing"] /\ listening' = listening \ {p}
  /\ cloudflared' = [cloudflared EXCEPT
                       ![p] = IF p \in stopTunnel /\ @ = "up" THEN "terminating" ELSE @]
  /\ UNCHANGED <<stopTunnel, crashes>>

Sigterm(p) ==
  \/ SigtermBooting(p)
  \/ server[p] \in Alive \ {"booting"} /\ Shutdown(p)

(***************************************************************************)
(* SIGKILL, whose victim is gone before anyone looks again.                *)
(***************************************************************************)
Sigkill(p) == Dies(p) /\ owing' = owing \ {p} /\ UNCHANGED crashes

Drained(p) == server[p] = "closing" /\ Dies(p) /\ UNCHANGED <<owing, crashes>>

\* Mutant: the forced exit is cancelled once the server closes.
ForcedExitClosingOnly(p) ==
  /\ server[p] = "closing"
  /\ Dies(p)
  /\ owing' = owing \ {p}
  /\ UNCHANGED crashes

(***************************************************************************)
(* Ten seconds after the signal the process ends, whatever it waits for.   *)
(***************************************************************************)
ForcedExit(p) ==
  /\ server[p] \in Stopping
  /\ Dies(p)
  /\ owing' = owing \ {p}
  /\ UNCHANGED crashes

Crash(p) ==
  /\ server[p] \in {"booting", "up"}
  /\ crashes < MaxCrashes /\ crashes' = crashes + 1
  /\ Dies(p)
  /\ UNCHANGED owing

ServerStep(taken) ==
  \E p \in Pids :
    \/ Listen(p, taken)
    \/ TunnelUrl(p) \/ TunnelFails(p) \/ TunnelDies(p) \/ TunnelStops(p)
    \/ Drained(p) \/ ForcedExit(p) \/ Crash(p)

ServerTypeOK ==
  /\ server \in [Pids -> Alive \cup {"none", "dead"}]
  /\ listening \subseteq {p \in Pids : server[p] \in {"up", "stopping"}}
  /\ cloudflared \in [Pids -> Running \cup {"none", "wanted", "exited", "killed"}]
  /\ stopTunnel \subseteq {p \in Pids : cloudflared[p] \in {"up", "terminating",
                                                            "exited", "killed"}}
  /\ owing \subseteq Pids
  /\ crashes \in 0 .. MaxCrashes
=============================================================================
