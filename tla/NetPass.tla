-------------------------------- MODULE NetPass --------------------------------
(***************************************************************************)
(* The tunnel to the network pass (netpass/manager.go).  Start writes the  *)
(* key into a file, starts the client and shows it as running; Stop takes  *)
(* it out of the status first, and removes the file and kills the client   *)
(* without the mutex, and either may fail; a goroutine waits for each      *)
(* client.  What a client writes is read by the one Manager, whichever     *)
(* client it is.                                                           *)
(*                                                                         *)
(* A configuration is a number, 0 one without a key; the client names the  *)
(* tunnel after itself.                                                    *)
(***************************************************************************)
EXTENDS Naturals

CONSTANTS
    Stoppers,       \* callers of Stop
    Configs,        \* configurations, 0 among them
    MaxTunnels,     \* bound: clients started
    MaxEdits,       \* bound: changes of the configuration
    MaxTunnelFaults \* bound: failures, and crashes of the service

ASSUME TunnelBounds == {MaxTunnels, MaxEdits, MaxTunnelFaults} \subseteq Nat /\ 0 \in Configs

VARIABLES
    netConfig,  \* Manager.config
    status,     \* Manager.status: running, connected, and the client whose name it shows
    tunnel,     \* Manager.command: the client, or 0
    netClient,  \* the clients
    usedBy,     \* the configuration each was started with
    watched,    \* clients whose wait goroutine has not looked yet
    keyFile,    \* the client's config.json is there
    stopper,    \* what each Stop took out of the status: [at, client]
    unkilled,   \* history: the clients a Stop has said it could not kill
    edits, tunnelFaults

tunnelVars == <<netConfig, status, tunnel, netClient, usedBy, watched, keyFile, stopper, unkilled,
                edits, tunnelFaults>>

Clients == 1..MaxTunnels
Stopped == [running |-> FALSE, connected |-> FALSE, named |-> 0]
NoStop  == [at |-> "rest", client |-> 0]

TunnelInit ==
    /\ netConfig \in Configs /\ status = Stopped /\ tunnel = 0
    /\ netClient = [n \in Clients |-> "none"] /\ usedBy = [n \in Clients |-> 0]
    /\ watched = {} /\ keyFile = FALSE /\ stopper = [s \in Stoppers |-> NoStop]
    /\ unkilled = {} /\ edits = 0 /\ tunnelFaults = 0

TunnelFault == tunnelFaults < MaxTunnelFaults /\ tunnelFaults' = tunnelFaults + 1

(* Bug: the configuration can be changed under a client that runs.         *)
ConfigureAnyTime(c) ==
    /\ c # netConfig /\ edits < MaxEdits
    /\ edits' = edits + 1 /\ netConfig' = c
    /\ UNCHANGED <<status, tunnel, netClient, usedBy, watched, keyFile, stopper, unkilled,
                   tunnelFaults>>

(* UpdateConfig.                                                           *)
Configure(c) ==
    /\ ~status.running /\ c # netConfig /\ edits < MaxEdits
    /\ edits' = edits + 1 /\ netConfig' = c
    /\ UNCHANGED <<status, tunnel, netClient, usedBy, watched, keyFile, stopper, unkilled,
                   tunnelFaults>>

(* Start, under the mutex.  A client that cannot be started leaves no key  *)
(* that was not there before.                                              *)
StartTunnel(n) ==
    /\ ~status.running /\ netConfig # 0
    /\ netClient[n] = "none" /\ \A k \in Clients : k < n => netClient[k] # "none"
    /\ \/ /\ netClient' = [netClient EXCEPT ![n] = "up"] /\ keyFile' = TRUE
          /\ usedBy' = [usedBy EXCEPT ![n] = netConfig] /\ tunnel' = n
          /\ status' = [running |-> TRUE, connected |-> FALSE, named |-> 0]
          /\ watched' = watched \cup {n} /\ UNCHANGED tunnelFaults
       \/ /\ TunnelFault /\ keyFile' \in {keyFile, FALSE}
          /\ UNCHANGED <<netClient, usedBy, tunnel, status, watched>>
    /\ UNCHANGED <<netConfig, stopper, unkilled, edits>>

(* Stop: the status, then the file, then the client.                       *)
TakeOut(s) ==
    /\ stopper[s].at = "rest"
    /\ stopper' = [stopper EXCEPT ![s] = [at |-> "file", client |-> tunnel]]
    /\ tunnel' = 0 /\ status' = Stopped
    /\ UNCHANGED <<netConfig, netClient, usedBy, watched, keyFile, unkilled, edits, tunnelFaults>>

(* os.Remove, whose error nobody reads.                                    *)
KeyGoes ==
    \/ keyFile' = FALSE /\ UNCHANGED tunnelFaults
    \/ TunnelFault /\ UNCHANGED keyFile

RemoveKey(s) ==
    /\ stopper[s].at = "file" /\ KeyGoes
    /\ stopper' = [stopper EXCEPT ![s] =
         IF @.client = 0 THEN NoStop ELSE [@ EXCEPT !.at = "kill"]]
    /\ UNCHANGED <<netConfig, status, tunnel, netClient, usedBy, watched, unkilled, edits>>

(* Process.Kill.  When it fails Stop returns its error, with the client    *)
(* out of the status and running.                                          *)
Kill(s) ==
    /\ stopper[s].at = "kill"
    /\ \/ /\ netClient' = [netClient EXCEPT ![stopper[s].client] = "ended"]
          /\ UNCHANGED <<unkilled, tunnelFaults>>
       \/ /\ netClient[stopper[s].client] = "up" /\ TunnelFault
          /\ unkilled' = unkilled \cup {stopper[s].client} /\ UNCHANGED netClient
    /\ stopper' = [stopper EXCEPT ![s] = NoStop]
    /\ UNCHANGED <<netConfig, status, tunnel, usedBy, watched, keyFile, edits>>

ClientEnds(n) ==
    /\ netClient[n] = "up" /\ netClient' = [netClient EXCEPT ![n] = "ended"]
    /\ UNCHANGED <<netConfig, status, tunnel, usedBy, watched, keyFile, stopper, unkilled,
                   edits, tunnelFaults>>

(* Bug: the end of any client ends what is shown.                          *)
WaitForAny(n) ==
    /\ n \in watched /\ netClient[n] = "ended" /\ watched' = watched \ {n}
    /\ tunnel' = 0 /\ status' = Stopped /\ KeyGoes
    /\ UNCHANGED <<netConfig, netClient, usedBy, stopper, unkilled, edits>>

(* wait.                                                                   *)
Wait(n) ==
    /\ n \in watched /\ netClient[n] = "ended" /\ watched' = watched \ {n}
    /\ IF tunnel = n
       THEN tunnel' = 0 /\ status' = Stopped /\ KeyGoes
       ELSE UNCHANGED <<tunnel, status, keyFile, tunnelFaults>>
    /\ UNCHANGED <<netConfig, netClient, usedBy, stopper, unkilled, edits>>

(* Write: a line of a client that runs, or of one that has ended and whose *)
(* output is still read.                                                   *)
Line(n) ==
    /\ n \in watched /\ status.running
    /\ \/ status' = [status EXCEPT !.named = n]
       \/ status' = [status EXCEPT !.connected = TRUE]
       \/ status' = [status EXCEPT !.connected = FALSE]
    /\ UNCHANGED <<netConfig, tunnel, netClient, usedBy, watched, keyFile, stopper, unkilled,
                   edits, tunnelFaults>>

(* The service crashes: nobody watches its client any more.                *)
ServiceCrash ==
    /\ TunnelFault /\ status' = Stopped /\ tunnel' = 0 /\ watched' = {}
    /\ stopper' = [s \in Stoppers |-> NoStop]
    /\ UNCHANGED <<netConfig, netClient, usedBy, keyFile, unkilled, edits>>

TunnelNext ==
    \/ \E c \in Configs : Configure(c)
    \/ \E n \in Clients : StartTunnel(n) \/ ClientEnds(n) \/ Wait(n) \/ Line(n)
    \/ \E s \in Stoppers : TakeOut(s) \/ RemoveKey(s) \/ Kill(s)
    \/ ServiceCrash

TunnelSpec == TunnelInit /\ [][TunnelNext]_tunnelVars

-----------------------------------------------------------------------------
TunnelTypeOK ==
    /\ netConfig \in Configs /\ tunnel \in 0..MaxTunnels
    /\ status \in [running : BOOLEAN, connected : BOOLEAN, named : 0..MaxTunnels]
    /\ netClient \in [Clients -> {"none", "up", "ended"}] /\ usedBy \in [Clients -> Configs]
    /\ watched \cup unkilled \subseteq Clients /\ keyFile \in BOOLEAN
    /\ stopper \in [Stoppers -> [at : {"rest", "file", "kill"}, client : 0..MaxTunnels]]
    /\ edits \in 0..MaxEdits /\ tunnelFaults \in 0..MaxTunnelFaults

(* The computer is reachable from outside only while the status says so,   *)
(* while a Stop is about to kill the client, or after one has said that it *)
(* could not; and the client shown runs with the configuration shown, even *)
(* beside one that could not be killed (manager.go:133, 218-259).      *)
(* After a crash of the service nobody knows its client.                   *)
NoHiddenTunnel ==
    \A n \in watched : netClient[n] = "up" =>
        \/ status.running /\ tunnel = n /\ usedBy[n] = netConfig
        \/ \E s \in Stoppers : stopper[s].client = n
        \/ n \in unkilled

(* Unless something failed, the file with the key is there only while its  *)
(* client is wanted or being stopped (manager.go:229, 254).                *)
KeyIsRemoved ==
    tunnelFaults = 0 /\ keyFile =>
        status.running \/ \E s \in Stoppers : stopper[s].at = "file"

NothingLeftOpen == NoHiddenTunnel /\ KeyIsRemoved
=============================================================================
