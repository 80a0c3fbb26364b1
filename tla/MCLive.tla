-------------------------------- MODULE MCLive --------------------------------
(* The components in which somebody waits: the harness with a run, readers *)
(* of an event stream, calls of MCP tools, a provider that is signed in to,*)
(* prompts of the console, commands on this machine and on others, and the *)
(* processes the program starts beside itself.  Each by itself: a          *)
(* behaviour is one of the component in focus, and the others rest.        *)
EXTENDS HarnessLoop, EventStream, McpManager, SignIn, Console, Supervisor,
        NetPass, Commands, TLC

CONSTANTS w1, w2, rd, doc

VARIABLE focus

-----------------------------------------------------------------------------
(* Two writes on one file, one of them guarded, and a read.  The scenario  *)
(* bounds the behaviours, and never stops a step that is fair: three calls *)
(* in all, and then neither a fault nor a cancel; a second run only where  *)
(* the first left a transcript, and nobody cancels that one.               *)
OneResource == [w \in Writes |-> doc]

CallsAsked == FoldLeft(LAMBDA n, t : n + Len(t.calls), 0, transcript)
              + (IF phase = "reply" THEN Len(reply.calls) ELSE 0)

Scenario ==
    /\ CallsAsked <= 3
    /\ CallsAsked = 3 => runs = 1 /\ mishaps = 0 /\ ctx # "canceled"
    /\ ctx = "canceled" => mishaps = 0
    /\ reply.kind \in {"garbled", "empty"} => CallsAsked = 0
    /\ runs = 2 => /\ ctx # "canceled" /\ transcript # <<>> /\ Len(reply.calls) <= 1
                   /\ count.turn > 1 => reply.kind \in {"none", "answer"}

(* One chat with prompts, the first with a file.                           *)
Chat == [p \in 1..MaxPrompts |-> "chat"]

-----------------------------------------------------------------------------
liveVars == <<focus, harnessVars, streamVars, mcpVars, signInVars,
              consoleVars, shellVars, tunnelVars, commandVars>>

LiveInit ==
    /\ focus \in {"harness", "stream", "mcp", "signin", "console", "shell", "tunnel",
                 "command"}
    /\ HarnessInit /\ StreamInit /\ McpInit /\ SignInInit /\ ConsoleInit
    /\ ShellInit /\ (focus # "shell" => ~stranger)
    /\ TunnelInit /\ (focus # "tunnel" => netConfig = 0)
    /\ CommandInit

OthersRest ==
    /\ UNCHANGED focus
    /\ focus # "harness" => UNCHANGED harnessVars
    /\ focus # "stream" => UNCHANGED streamVars
    /\ focus # "mcp" => UNCHANGED mcpVars
    /\ focus # "signin" => UNCHANGED signInVars
    /\ focus # "console" => UNCHANGED consoleVars
    /\ focus # "shell" => UNCHANGED shellVars
    /\ focus # "tunnel" => UNCHANGED tunnelVars
    /\ focus # "command" => UNCHANGED commandVars

LiveNext ==
    /\ OthersRest
    /\ focus = "harness" => HarnessNext /\ Scenario'
    /\ focus = "stream" => StreamNext
    /\ focus = "mcp" => McpNext
    /\ focus = "signin" => SignInNext
    /\ focus = "console" => ConsoleNext
    /\ focus = "shell" => ShellNext
    /\ focus = "tunnel" => TunnelNext
    /\ focus = "command" => CommandNext

(* The fairness of each component, or less, while it is in focus.          *)
GoesOnInFocus ==
    /\ OthersRest
    /\ focus \notin {"mcp", "tunnel"}
    /\ focus = "harness" => GoesOn
    /\ focus = "stream" => StreamGoesOn
    /\ focus = "signin" => SignInGoesOn
    /\ focus = "console" => ConsoleGoesOn
    /\ focus = "shell" => ShellGoesOn
    /\ focus = "command" => CommandStep

LiveFairness ==
    /\ WF_liveVars(GoesOnInFocus)
    /\ WF_harnessVars(focus = "harness" /\ ContextEnds("expired"))
    /\ WF_commandVars(focus = "command" /\ CallEnds("expired"))
    /\ \A u \in Users : WF_mcpVars(focus = "mcp" /\ ClientStep(u))
    /\ \A c \in ToolCalls : WF_mcpVars(focus = "mcp" /\ Exceeded(c))

LiveSpec == LiveInit /\ [][LiveNext]_liveVars /\ LiveFairness

LiveTypeOK ==
    /\ focus = "harness" => HarnessTypeOK
    /\ focus = "stream" => StreamTypeOK
    /\ focus = "mcp" => McpTypeOK
    /\ focus = "signin" => SignInTypeOK
    /\ focus = "console" => ConsoleTypeOK
    /\ focus = "shell" => ShellTypeOK
    /\ focus = "tunnel" => TunnelTypeOK
    /\ focus = "command" => CommandTypeOK

(* The program knows every process it has started, and nobody else's: a    *)
(* desktop has one backend, which is gone when a stop says so, and nothing *)
(* is left of the tunnel, neither its client nor its key, when it is not   *)
(* shown as running, unless a stop has said that it could not kill it.     *)
ChildrenKnown == BackendOwned /\ NothingLeftOpen

(* What a tool does elsewhere is done as often as it was asked for, and    *)
(* what it reports is what happened there: the calls of MCP tools and the  *)
(* commands of a shell, here or on another machine.                        *)
EffectsAreTrue == CallsHold /\ CommandsHold

(* Nobody waits for ever: a run with a wall-clock budget ends; a client of *)
(* the event stream hears what was written, and of the end; a call of an   *)
(* MCP tool returns; the callback port is given back; a prompt is answered *)
(* or fails; a command ends at its timeout; a backend does not outlive its *)
(* desktop.                                                                *)
SomebodyWaits ==
    \/ focus = "harness" /\ HarnessAtWork
    \/ focus = "stream" /\ ClientWaits
    \/ focus = "mcp" /\ CallWaits
    \/ focus = "signin" /\ PortTaken
    \/ focus = "console" /\ PromptWaits
    \/ focus = "shell" /\ Abandoned
    \/ focus = "command" /\ CommandWaits

NobodyWaitsForEver == SomebodyWaits ~> ~SomebodyWaits
=============================================================================
