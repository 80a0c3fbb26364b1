------------------------------ MODULE McpManager ------------------------------
(***************************************************************************)
(* The connection to one MCP server (mcpclient/manager.go) and the tool    *)
(* calls that share it.  Every change of its settings makes a new          *)
(* serverState.  connectMu of a state is held over checking, connecting    *)
(* and listing, but not over a call.  A call takes session and tool, goes  *)
(* out over the session, and once more when the server cannot have got it  *)
(* or the tool says that it may be repeated.                               *)
(*                                                                         *)
(* The server is another program: sessions die, its tool changes, an       *)
(* answer is lost, a call hangs.  What the SDK reports is taken as the     *)
(* code takes it: after a closed connection, or a dial that failed, the    *)
(* server has not got the call.                                            *)
(***************************************************************************)
EXTENDS Naturals, Sequences

CONSTANTS
    ToolCalls,    \* calls of Execute
    Repeatable,   \* the versions of the tool that say it is idempotent
    Catalog,      \* one more user of the connection, once: Definitions, Refresh
    MaxSessions,  \* bound: connections made
    MaxSettings,  \* bound: serverStates
    MaxVersions   \* bound: versions of the tool

VARIABLES
    server,     \* the serverStates; the last one is in Manager.servers
    connectMu,  \* who holds the lock of each, or Free
    toClose,    \* the states Replace took out and has yet to close
    sessions,   \* connections made so far
    alive,      \* those the server still answers
    offered,    \* the version of the tool the server has
    notices,    \* the states a tools/list_changed is on its way to
    user,       \* where each user of the connection is
    executed    \* how often the server ran each call

mcpVars == <<server, connectMu, toClose, sessions, alive, offered, notices, user, executed>>
link    == <<server, connectMu, toClose, sessions, alive, offered, notices>>

Users    == ToolCalls \cup {Catalog}
States   == 1..Len(server)
Newest     == Len(server)
Free     == "free"
Attempts == 2  \* MCPCallRetryAttempts

ASSUME McpAssumption ==
    /\ Repeatable \subseteq 1..MaxVersions /\ Catalog \notin ToolCalls /\ Free \notin Users
    /\ MaxSessions \in Nat /\ {MaxSettings, MaxVersions} \subseteq Nat \ {0}

NoSession == [session |-> 0, tool |-> 0, dirty |-> TRUE]
Asleep    == [at |-> "rest", state |-> 0, force |-> FALSE, want |-> 0, found |-> 0, session |-> 0,
              tried |-> 0, ran |-> FALSE, fresh |-> FALSE, again |-> FALSE, result |-> "none"]

McpInit ==
    /\ server = <<NoSession>> /\ connectMu = <<Free>> /\ toClose = {}
    /\ sessions = 0 /\ alive = {} /\ offered = 1 /\ notices = {}
    /\ user = [u \in Users |-> Asleep] /\ executed = [c \in ToolCalls |-> 0]

Moves(u, at)     == user' = [user EXCEPT ![u].at = at]
Returns(u, how)  == user' = [user EXCEPT ![u] = [Asleep EXCEPT !.at = "done", !.result = how,
                                                       !.want = user[u].want]]
Unlocks(u)       == connectMu' = [connectMu EXCEPT ![user[u].state] = Free]

(* The call is not sent (again): nothing was dispatched, or the outcome of *)
(* the first attempt is what it is.                                        *)
Unsent(u) ==
    IF u = Catalog THEN Returns(u, "none")
    ELSE Returns(u, IF user[u].tried = 0 THEN "not dispatched" ELSE "unknown")

Ready(u) ==
    IF u = Catalog THEN Returns(u, "none") ELSE Moves(u, "take")

-----------------------------------------------------------------------------
(* Execute routes to a state that has listed the tool; the call names the  *)
(* version that was approved.                                              *)
Route(c) ==
    /\ user[c].at = "rest"
    /\ IF server[Newest].tool = 0 THEN Unsent(c)
       ELSE user' = [user EXCEPT ![c].at = "lock", ![c].state = Newest, ![c].want = server[Newest].tool]
    /\ UNCHANGED <<link, executed>>

(* Definitions connects a state without a session, or with a list that is  *)
(* out of date; Refresh closes its session first.                          *)
Consult(refresh) ==
    /\ user[Catalog].at = "rest"
    /\ refresh \/ server[Newest].session = 0 \/ server[Newest].dirty
    /\ user' = [user EXCEPT ![Catalog].at = IF refresh THEN "close" ELSE "lock",
                            ![Catalog].state = Newest, ![Catalog].force = refresh]
    /\ UNCHANGED <<link, executed>>

(* closeState, with the lock.                                              *)
Closes(g) ==
    /\ connectMu[g] = Free
    /\ server' = [server EXCEPT ![g] = NoSession]
    /\ alive' = alive \ {server[g].session}

CloseFirst ==
    /\ user[Catalog].at = "close" /\ Closes(user[Catalog].state)
    /\ Moves(Catalog, "lock")
    /\ UNCHANGED <<connectMu, toClose, sessions, offered, notices, executed>>

-----------------------------------------------------------------------------
(* ensureConnected.                                                        *)

Lock(u) ==
    /\ user[u].at = "lock" /\ connectMu[user[u].state] = Free
    /\ connectMu' = [connectMu EXCEPT ![user[u].state] = u]
    /\ Moves(u, "check")
    /\ UNCHANGED <<server, toClose, sessions, alive, offered, notices, executed>>

(* sessionUsable: one that was used a moment ago counts as usable, and so  *)
(* does one that does not answer a ping; only a dead one may be found out. *)
Usable(g, found) == server[g].session # 0 /\ ~found

(* What is found under the lock decides: the call goes on, the tools are   *)
(* listed again, or a connection is made.                                  *)
Consider(u) ==
    LET g == user[u].state
    IN  \E found \in BOOLEAN :
          /\ found => server[g].session \notin alive \cup {0}
          /\ server' = IF found THEN [server EXCEPT ![g] = NoSession] ELSE server
          /\ \/ /\ Usable(g, found) /\ ~user[u].force /\ ~server[g].dirty
                /\ Unlocks(u) /\ Ready(u)
             \/ /\ Usable(g, found) /\ (user[u].force \/ server[g].dirty)
                /\ Moves(u, "list") /\ UNCHANGED connectMu
             \/ /\ ~Usable(g, found)
                /\ Moves(u, "connect") /\ UNCHANGED connectMu

(* Bug: a state that was replaced is connected again.                      *)
CheckAnyState(u) ==
    /\ user[u].at = "check" /\ Consider(u)
    /\ UNCHANGED <<toClose, sessions, alive, offered, notices, executed>>

Check(u) ==
    /\ user[u].at = "check"
    /\ \/ user[u].state # Newest /\ Unlocks(u) /\ Unsent(u) /\ UNCHANGED server
       \/ user[u].state = Newest /\ Consider(u)
    /\ UNCHANGED <<toClose, sessions, alive, offered, notices, executed>>

(* Bug: a connection that fails leaves the lock taken.                     *)
JoinKeepsLock(u) ==
    /\ user[u].at = "connect"
    /\ \/ /\ sessions < MaxSessions /\ sessions' = sessions + 1
          /\ alive' = alive \cup {sessions + 1}
          /\ server' = [server EXCEPT ![user[u].state].session = sessions + 1]
          /\ Moves(u, "list")
       \/ Unsent(u) /\ UNCHANGED <<sessions, alive, server>>
    /\ UNCHANGED <<connectMu, toClose, offered, notices, executed>>

(* The list of a session before stays until the new one is there.          *)
Join(u) ==
    /\ user[u].at = "connect"
    /\ \/ /\ sessions < MaxSessions /\ sessions' = sessions + 1
          /\ alive' = alive \cup {sessions + 1}
          /\ server' = [server EXCEPT ![user[u].state].session = sessions + 1]
          /\ Moves(u, "list") /\ UNCHANGED connectMu
       \/ /\ Unlocks(u) /\ Unsent(u) /\ UNCHANGED <<sessions, alive, server>>
    /\ UNCHANGED <<toClose, offered, notices, executed>>

(* refreshTools: the list arrives ...                                      *)
ListTools(u) ==
    /\ user[u].at = "list"
    /\ LET g == user[u].state
       IN  \/ /\ server[g].session \in alive
              /\ user' = [user EXCEPT ![u].at = "install", ![u].found = offered]
              /\ UNCHANGED <<server, connectMu>>
           \/ /\ server[g].session # 0
              /\ server' = [server EXCEPT ![g].tool = 0, ![g].dirty = TRUE]
              /\ Unlocks(u) /\ Unsent(u)
           \/ server[g].session = 0 /\ Unlocks(u) /\ Unsent(u) /\ UNCHANGED server
    /\ UNCHANGED <<toClose, sessions, alive, offered, notices, executed>>

(* ... and counts as up to date, whatever came meanwhile.                  *)
InstallTools(u) ==
    /\ user[u].at = "install"
    /\ server' = [server EXCEPT ![user[u].state].tool = user[u].found, ![user[u].state].dirty = FALSE]
    /\ Unlocks(u) /\ Ready(u)
    /\ UNCHANGED <<toClose, sessions, alive, offered, notices, executed>>

-----------------------------------------------------------------------------
(* Execute.                                                                *)

Take(c) ==
    /\ user[c].at = "take"
    /\ LET s == server[user[c].state]
       IN  IF s.session # 0 /\ s.tool = user[c].want
           THEN user' = [user EXCEPT ![c].at = "send", ![c].session = s.session]
           ELSE Unsent(c)
    /\ UNCHANGED <<link, executed>>

SendCall(c) ==
    /\ user[c].at = "send"
    /\ IF user[c].state # Newest THEN Unsent(c)
       ELSE user' = [user EXCEPT ![c].at = "flight", ![c].tried = @ + 1,
                                 ![c].ran = FALSE, ![c].fresh = FALSE]
    /\ UNCHANGED <<link, executed>>

(* The server runs the call, and answers; it may report progress for ever. *)
ServerRuns(c) ==
    /\ user[c].at = "flight" /\ ~user[c].ran /\ user[c].session \in alive
    /\ user' = [user EXCEPT ![c].ran = TRUE]
    /\ executed' = [executed EXCEPT ![c] = @ + 1]
    /\ UNCHANGED link

ServerAnswers(c) ==
    /\ user[c].at = "flight" /\ user[c].ran /\ user[c].session \in alive
    /\ Returns(c, "ok")
    /\ UNCHANGED <<link, executed>>

ServerReports(c) ==
    /\ user[c].at = "flight" /\ user[c].session \in alive /\ ~user[c].fresh
    /\ user' = [user EXCEPT ![c].fresh = TRUE]
    /\ UNCHANGED <<link, executed>>

(* Bug: every call goes out twice.                                         *)
RetriesAll(c, rejected) == user[c].tried < Attempts

Retries(c, rejected) == user[c].tried < Attempts /\ (rejected \/ user[c].want \in Repeatable)

(* The session is gone: the call was rejected, or its answer is lost.      *)
Errs(c, rejected) ==
    /\ user[c].at = "flight" /\ user[c].session \notin alive
    /\ rejected => ~user[c].ran
    /\ user' = [user EXCEPT ![c].at = "disconnect", ![c].again = Retries(c, rejected)]
    /\ UNCHANGED <<link, executed>>

(* No answer and no progress for CallTimeoutSeconds; progress starts the   *)
(* timer again.                                                            *)
Inactive(c) ==
    /\ user[c].at = "flight"
    /\ user' = IF user[c].fresh THEN [user EXCEPT ![c].fresh = FALSE]
               ELSE [user EXCEPT ![c].at = "disconnect", ![c].again = FALSE]
    /\ UNCHANGED <<link, executed>>

(* Bug: progress puts off the end of a call for ever.                      *)
NeverExceeded(c) == FALSE /\ UNCHANGED mcpVars

(* mcpMaxCallMultiplier times that, whatever progress there is.            *)
Exceeded(c) ==
    /\ user[c].at = "flight"
    /\ user' = [user EXCEPT ![c].at = "disconnect", ![c].again = FALSE]
    /\ UNCHANGED <<link, executed>>

(* The run is canceled: the session is left alone.                         *)
Cancels(c) ==
    /\ user[c].at = "flight" /\ Returns(c, "unknown")
    /\ UNCHANGED <<link, executed>>

(* disconnectWithError takes away the session the state has, be it the one *)
(* the call went out over or a later one; the list stays.                  *)
Disconnects(c) ==
    /\ user[c].at = "disconnect"
    /\ LET g == user[c].state
       IN  /\ connectMu[g] = Free
           /\ server' = [server EXCEPT ![g].session = 0, ![g].dirty = TRUE]
           /\ alive' = alive \ {server[g].session}
    /\ IF user[c].again THEN user' = [user EXCEPT ![c].at = "lock", ![c].force = TRUE]
       ELSE Returns(c, "unknown")
    /\ UNCHANGED <<connectMu, toClose, sessions, offered, notices, executed>>

-----------------------------------------------------------------------------
(* The server, and the settings.                                           *)

SessionDies(s) ==
    /\ s \in alive /\ alive' = alive \ {s}
    /\ UNCHANGED <<server, connectMu, toClose, sessions, offered, notices, user, executed>>

(* watchSession, without connectMu.                                        *)
NoticeEnd(g) ==
    /\ server[g].session \notin alive \cup {0}
    /\ server' = [server EXCEPT ![g] = NoSession]
    /\ UNCHANGED <<connectMu, toClose, sessions, alive, offered, notices, user, executed>>

(* The server's tool changes; over stdio and SSE it says so.               *)
ToolChanges ==
    /\ offered < MaxVersions /\ offered' = offered + 1
    /\ notices' \in {notices, notices \cup {g \in States : server[g].session \in alive}}
    /\ UNCHANGED <<server, connectMu, toClose, sessions, alive, user, executed>>

ToolListChanged(g) ==
    /\ g \in notices /\ notices' = notices \ {g}
    /\ server' = [server EXCEPT ![g].dirty = TRUE]
    /\ UNCHANGED <<connectMu, toClose, sessions, alive, offered, user, executed>>

(* Replace, with other settings for this server ...                        *)
ReplaceSettings ==
    /\ Newest < MaxSettings
    /\ server' = Append(server, NoSession) /\ connectMu' = Append(connectMu, Free)
    /\ toClose' = toClose \cup {Newest}
    /\ UNCHANGED <<sessions, alive, offered, notices, user, executed>>

(* ... closes what it took out of the map.                                 *)
CloseReplaced(g) ==
    /\ g \in toClose /\ Closes(g) /\ toClose' = toClose \ {g}
    /\ UNCHANGED <<connectMu, sessions, offered, notices, user, executed>>

ExecuteStep(c) ==
    \/ Route(c) \/ Take(c) \/ SendCall(c) \/ Inactive(c) \/ Exceeded(c) \/ Disconnects(c)

ConnectStep(u) == Lock(u) \/ Check(u) \/ Join(u) \/ ListTools(u) \/ InstallTools(u)

ClientStep(u) == ConnectStep(u) \/ (u \in ToolCalls /\ ExecuteStep(u)) \/ (u = Catalog /\ CloseFirst)

McpNext ==
    \/ \E u \in Users : ClientStep(u)
    \/ \E refresh \in BOOLEAN : Consult(refresh)
    \/ \E c \in ToolCalls :
         \/ ServerRuns(c) \/ ServerAnswers(c) \/ ServerReports(c) \/ Cancels(c)
         \/ \E rejected \in BOOLEAN : Errs(c, rejected)
    \/ \E s \in 1..MaxSessions : SessionDies(s)
    \/ \E g \in States : NoticeEnd(g) \/ ToolListChanged(g) \/ CloseReplaced(g)
    \/ ToolChanges \/ ReplaceSettings

(* Every goroutine goes on: a connection attempt and a listing have the    *)
(* startup timeout, and a call has the timer that progress does not move.  *)
(* Nothing is expected of the server.                                      *)
McpFairness ==
    /\ \A u \in Users : WF_mcpVars(ClientStep(u))
    /\ \A c \in ToolCalls : WF_mcpVars(Exceeded(c))

McpSpec == McpInit /\ [][McpNext]_mcpVars /\ McpFairness

McpTypeOK ==
    /\ Len(server) \in 1..MaxSettings /\ Len(connectMu) = Len(server)
    /\ \A g \in States :
         /\ server[g] \in [session : 0..sessions, tool : 0..offered, dirty : BOOLEAN]
         /\ connectMu[g] \in Users \cup {Free}
         /\ connectMu[g] # Free => user[connectMu[g]].state = g
                                   /\ user[connectMu[g]].at \in {"check", "connect", "list", "install"}
    /\ toClose \cup notices \subseteq States /\ alive \subseteq 1..sessions
    /\ \A c \in ToolCalls : user[c].tried \in 0..Attempts /\ executed[c] \in 0..Attempts

(* A call whose tool does not say that it may be repeated is run once at   *)
(* most, however sessions die and connections are made anew by others      *)
(* while it is under way (manager.go:380-448).                             *)
RunOnce == \A c \in ToolCalls : user[c].want \notin Repeatable => executed[c] <= 1

(* What Execute reports is what the server did: nothing was dispatched     *)
(* only if no attempt reached it (manager.go:310-327).                     *)
ReportIsTrue ==
    \A c \in ToolCalls :
        /\ user[c].result = "not dispatched" => executed[c] = 0
        /\ user[c].result = "ok" => executed[c] > 0

(* A state that was replaced keeps no session, although its users are      *)
(* still about and one may be connecting when the settings change          *)
(* (manager.go:683, 1235-1257).                                            *)
ReplacedIsClosed ==
    \A g \in States : g # Newest /\ g \notin toClose /\ connectMu[g] = Free =>
        server[g].session = 0

(* A call reaches the server as often as it may, the report of it is true, *)
(* and nothing is left of the servers that were replaced.                  *)
CallsHold == RunOnce /\ ReportIsTrue /\ ReplacedIsClosed

(* A call waits, perhaps on a server that neither answers nor stops        *)
(* reporting progress (manager.go:1041-1082).                              *)
CallWaits == \E c \in ToolCalls : user[c].at \notin {"rest", "done"}
=============================================================================
