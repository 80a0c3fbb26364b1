-------------------------------- MODULE Memory --------------------------------
(***************************************************************************)
(* The long-term memory: the repository that keeps all memories in one    *)
(* file (adapters/filestore/memory_repository.go), the manager every tool  *)
(* of an agent goes through (package memory, tools/native/memories), the   *)
(* operator's own access (application/memory.go) and the purge.            *)
(*                                                                         *)
(* Memories are shared by scope.  The sessions of a memory-isolated        *)
(* project must leave nothing on disk, and what they do to memories is     *)
(* gone with the process, so they may share no scope with anyone else.     *)
(*                                                                         *)
(* Texts are compared by two relations only: equal after normalisation     *)
(* (the same note) and alike (Alike, queryTerms that overlap).  The value  *)
(* by which memories are dropped over the cap is left open.                *)
(***************************************************************************)
EXTENDS Integers, FiniteSets, FiniteSetsExt, Functions

CONSTANTS
    Speakers,       \* sessions: [project |-> , isolated |-> , override |-> ]
    NoScope,        \* no memory_scope in the metadata of a session
    Notes,          \* what may be remembered
    Refused,        \* facts and secrets, which the space does not admit
    Alike,          \* pairs of notes that say the same in other words
    Operator,       \* the operator, who writes without a session
    OperatorScopes, \* scopes the operator writes to
    ScopeCap,       \* SpaceConfig.ScopeCap
    MaxTasks,       \* bound: memory_remember calls at a time
    MaxMemories,    \* bound: memories created
    MaxMemoryFaults,\* bound: writes of the file that fail
    MaxChanges      \* bound: toggles of the space, restarts, operator's notes

ProjectScope(p) == <<"project", p>>
AgentScope == <<"agent">>

ASSUME SpeakerShape ==
    /\ \A s, t \in Speakers : s.project = t.project => s.isolated = t.isolated
    /\ Refused \subseteq Notes /\ Alike \subseteq Notes \X Notes /\ Operator \notin Speakers
    /\ ScopeCap \in Nat \ {0} /\ {MaxTasks, MaxMemories, MaxMemoryFaults, MaxChanges} \subseteq Nat

VARIABLES
    items,          \* r.items, by the number of their creation
    stored,         \* memories.json
    spaceOn,        \* Manager.spaceEnabled
    tasks,          \* the memory_remember call of each session
    memoriesMade, memoryFaults, changes

memoryVars == <<items, stored, spaceOn, tasks, memoriesMade, memoryFaults, changes>>

NoTask == [stage |-> "none", scope |-> AgentScope, note |-> CHOOSE n \in Notes : TRUE,
           over |-> {}, surplus |-> {}]

MemoryInit ==
    /\ items = <<>> /\ stored = <<>> /\ spaceOn \in BOOLEAN
    /\ tasks = [s \in Speakers |-> NoTask]
    /\ memoriesMade = 0 /\ memoryFaults = 0 /\ changes = 0

IsIsolated(who) == who # Operator /\ who.isolated
Lasting(m) == {i \in DOMAIN m : ~IsIsolated(m[i].source)}
Active(scope) == {i \in DOMAIN items : items[i].scope = scope /\ items[i].status = "active"}

(* Bug: a session may name the scope of any project.                       *)
AnyOverride(s) == TRUE

(* allowedMemoryScopeOverride: of the projects only its own.               *)
AllowedOverride(s) == s.override[1] = "project" => s.override = ProjectScope(s.project)

(* ScopeForSessionWithSpace.                                               *)
ScopeOf(s) ==
    CASE s.isolated -> ProjectScope(s.project)
      [] ~s.isolated /\ s.override # NoScope /\ AllowedOverride(s) -> s.override
      [] OTHER -> IF spaceOn THEN ProjectScope(s.project) ELSE AgentScope

-----------------------------------------------------------------------------
(* The repository.                                                         *)

(* persistLocked: the memories of isolated sessions stay out of the file,  *)
(* and a write that fails leaves everything as it was.                     *)
Commit(m) ==
    \/ items' = m /\ stored' = Restrict(m, Lasting(m)) /\ UNCHANGED memoryFaults
    \/ /\ memoryFaults < MaxMemoryFaults /\ memoryFaults' = memoryFaults + 1
       /\ UNCHANGED <<items, stored>>
Unwritten == UNCHANGED <<items, stored, memoriesMade, memoryFaults>>

(* Remember: the same note is merged into the active memory that has it;   *)
(* else a new one takes the place of those it supersedes in its scope.     *)
Remember(scope, note, who, over) ==
    LET same == {i \in Active(scope) : items[i].note = note}
        Merged(m) == [m EXCEPT !.source = IF who = Operator THEN @ ELSE who,
                               !.authors = @ \cup {who}]
        Superseded(m) == [m EXCEPT !.status = "superseded", !.by = who]
        new == [scope |-> scope, note |-> note, status |-> "active", source |-> who,
                authors |-> {who}, by |-> who]
    IN IF same # {}
       THEN /\ \E i \in same : Commit([items EXCEPT ![i] = Merged(@)])
            /\ UNCHANGED memoriesMade
       ELSE /\ memoriesMade < MaxMemories /\ memoriesMade' = memoriesMade + 1
            /\ Commit([i \in DOMAIN items \cup {memoriesMade + 1} |->
                          IF i = memoriesMade + 1 THEN new
                          ELSE IF i \in over \cap Active(scope) THEN Superseded(items[i])
                          ELSE items[i]])

Forget(scope, i, who) ==
    IF i \in DOMAIN items /\ items[i].scope = scope /\ items[i].status # "forgotten"
    THEN /\ Commit([items EXCEPT ![i] = [@ EXCEPT !.status = "forgotten", !.by = who]])
         /\ UNCHANGED memoriesMade
    ELSE Unwritten

(* PurgeInactive, by the maintenance of the store: memories that have been  *)
(* inactive for memoryAuditRetention are gone; how long each has been is   *)
(* left open.                                                              *)
Purge ==
    /\ \E gone \in SUBSET {i \in DOMAIN items : items[i].status # "active"} :
          gone # {} /\ Commit(Restrict(items, DOMAIN items \ gone))
    /\ UNCHANGED <<spaceOn, tasks, memoriesMade, changes>>

(* Search, and what of it a session is reminded of: the ranking and the    *)
(* window may leave out any of it.                                         *)
Found(s)    == Active(ScopeOf(s))
Recalled(s) == Found(s)

-----------------------------------------------------------------------------
(* The manager: memory_remember and memory_forget.                         *)

Task(s, task) == tasks' = [tasks EXCEPT ![s] = task]

Admitted(note) == note \notin Refused

(* findDuplicate: what the scope holds already, in these words or in others. *)
Duplicates(scope, note) ==
    {i \in Active(scope) : items[i].note = note \/ <<note, items[i].note>> \in Alike}

(* Without the space a note goes straight to the repository; with it, it   *)
(* is admitted and looked for in what the scope holds.                     *)
RememberTool(s, note, over) ==
    LET dups == Duplicates(ScopeOf(s), note)
    IN /\ tasks[s].stage = "none"
       /\ Cardinality({t \in Speakers : tasks[t].stage # "none"}) < MaxTasks
       /\ IF ~spaceOn THEN Remember(ScopeOf(s), note, s, over) /\ UNCHANGED tasks
          ELSE /\ Admitted(note)
               /\ IF over = {} /\ dups # {}
                  THEN \E i \in dups : Task(s, [NoTask EXCEPT
                          !.stage = "reinforce", !.scope = ScopeOf(s),
                          !.note = items[i].note, !.over = {i}])
                  ELSE Task(s, [NoTask EXCEPT
                          !.stage = "write", !.scope = ScopeOf(s), !.note = note, !.over = over])
               /\ Unwritten
       /\ UNCHANGED <<spaceOn, changes>>

(* What is there already is reinforced as it is worded there; only a note  *)
(* of its own is followed by a look at the cap.                            *)
Write(s) ==
    /\ tasks[s].stage \in {"write", "reinforce"}
    /\ Remember(tasks[s].scope, tasks[s].note, s, tasks[s].over)
    /\ Task(s, IF memoryFaults' # memoryFaults \/ tasks[s].stage = "reinforce" THEN NoTask
               ELSE [tasks[s] EXCEPT !.stage = "count", !.over = {}])
    /\ UNCHANGED <<spaceOn, changes>>

(* evictOverCap: the surplus is chosen once, and forgotten one by one.     *)
Count(s) ==
    /\ tasks[s].stage = "count"
    /\ LET here == Active(tasks[s].scope)
           n == Cardinality(here) - ScopeCap
       IN IF n <= 0 THEN Task(s, NoTask)
          ELSE \E out \in kSubset(n, here) :
                  Task(s, [tasks[s] EXCEPT !.stage = "evict", !.surplus = out])
    /\ Unwritten /\ UNCHANGED <<spaceOn, changes>>

Evict(s) ==
    /\ tasks[s].stage = "evict"
    /\ \E i \in tasks[s].surplus :
          /\ Forget(tasks[s].scope, i, s)
          /\ Task(s, IF i \notin DOMAIN items \/ memoryFaults' # memoryFaults
                         \/ tasks[s].surplus = {i}
                     THEN NoTask ELSE [tasks[s] EXCEPT !.surplus = @ \ {i}])
    /\ UNCHANGED <<spaceOn, changes>>

ForgetTool(s, i) ==
    /\ tasks[s].stage = "none" /\ Forget(ScopeOf(s), i, s)
    /\ UNCHANGED <<tasks, spaceOn, changes>>

Change == changes < MaxChanges /\ changes' = changes + 1

(* RememberMemory and ForgetMemory of the application: any scope is taken  *)
(* as it is given, that of an isolated project too.                        *)
OperatorRemembers(scope, note, over) ==
    Change /\ Remember(scope, note, Operator, over) /\ UNCHANGED <<tasks, spaceOn>>

OperatorForgets(i) ==
    /\ i \in DOMAIN items /\ Forget(items[i].scope, i, Operator)
    /\ UNCHANGED <<tasks, spaceOn, changes>>

-----------------------------------------------------------------------------
SetSpaceEnabled ==
    /\ Change /\ spaceOn' = ~spaceOn /\ UNCHANGED <<items, stored, tasks, memoriesMade, memoryFaults>>

(* load, after the process has ended.                                      *)
RestartMemory ==
    /\ Change /\ items' = stored /\ tasks' = [s \in Speakers |-> NoTask]
    /\ UNCHANGED <<stored, spaceOn, memoriesMade, memoryFaults>>

MemoryNext ==
    \/ Purge \/ SetSpaceEnabled \/ RestartMemory
    \/ \E s \in Speakers :
          \/ Write(s) \/ Count(s) \/ Evict(s)
          \/ \E i \in DOMAIN items : ForgetTool(s, i)
          \/ \E note \in Notes, over \in {{}} \cup {{i} : i \in DOMAIN items} :
                RememberTool(s, note, over)
    \/ \E scope \in OperatorScopes, note \in Notes, over \in {{}} \cup {{i} : i \in DOMAIN items} :
          OperatorRemembers(scope, note, over)
    \/ \E i \in DOMAIN items : OperatorForgets(i)

-----------------------------------------------------------------------------
MemoryTypeOK ==
    /\ DOMAIN items \subseteq 1..memoriesMade /\ DOMAIN stored \subseteq DOMAIN items
    /\ \A i \in DOMAIN items :
          /\ items[i].note \in Notes /\ items[i].status \in {"active", "superseded", "forgotten"}
          /\ {items[i].source, items[i].by} \cup items[i].authors \subseteq Speakers \cup {Operator}
    /\ spaceOn \in BOOLEAN /\ memoriesMade \in 0..MaxMemories
    /\ \A s \in Speakers : /\ tasks[s].stage \in {"none", "write", "reinforce", "count", "evict"}
                           /\ tasks[s].surplus \subseteq 1..memoriesMade
    /\ memoryFaults \in 0..MaxMemoryFaults /\ changes \in 0..MaxChanges

(* What an isolated session said is in no file and is recalled by nobody   *)
(* outside its project.  What only others said is in the file as it is in  *)
(* memory, and an isolated session has its hand in a memory only where its *)
(* own project's memories are, and never in what a session that is not     *)
(* isolated said.  What the operator put there it may take along: a note   *)
(* repeated by an isolated session leaves the file.                        *)
IsolationKept ==
    /\ \A i \in DOMAIN stored : \A who \in stored[i].authors : ~IsIsolated(who)
    /\ \A s \in Speakers, i \in DOMAIN items :
          \A who \in items[i].authors :
              IsIsolated(who) /\ i \in Recalled(s) => who.project = s.project
    /\ \A i \in DOMAIN items :
          (\A who \in items[i].authors : ~IsIsolated(who)) =>
              i \in DOMAIN stored /\ stored[i] = items[i]
    /\ \A i \in DOMAIN items : \A who \in items[i].authors \cup {items[i].by} :
          IsIsolated(who) =>
              /\ items[i].scope = ProjectScope(who.project)
              /\ \A other \in items[i].authors : IsIsolated(other) \/ other = Operator
=============================================================================
