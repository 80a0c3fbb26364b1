----------------------------- MODULE LiveProofs ------------------------------
(* What MCLive checks on small instances of its components, for every      *)
(* value of their constants: the events on their way to a client, the      *)
(* tokens of a sign-in, the tunnel to the network pass, the calls of MCP   *)
(* tools, the prompts of the console, the backend of a desktop and the     *)
(* commands of a shell; and the types of all of them, the harness loop     *)
(* included, whose proofs have a module of their own.                      *)
EXTENDS MCLive, HarnessProofs

-----------------------------------------------------------------------------
(* EventStream: no acknowledged event is lost or spoilt, and a client gets *)
(* the events once and in order, for any number of events, failed writes,  *)
(* crashes and reconnections.                                              *)

\* What the file and the streams hold.
StreamShape ==
    /\ file \in Seq(EventKinds) /\ got \in Seq(EventKinds) /\ listed \in Seq(EventKinds)
    /\ cached \in Nat \cup {Unknown} /\ kept \subseteq Nat \X EventKinds

\* A cached number is that of the last event, and then the end of the file
\* needs no repair.  Without this a write could go behind half a line.
CacheFits == cached # Unknown => cached = Len(file) /\ tail = "none"

StreamInv == StreamShape /\ CacheFits /\ EventsKept

Logged == {"progress", "terminal"}

-----------------------------------------------------------------------------
\* What begins a sequence begins every longer one.
LEMMA BeginsLonger ==
    ASSUME NEW s \in Seq(EventKinds), NEW t \in Seq(EventKinds), NEW u \in Seq(EventKinds),
           BeginsAs(s, t), BeginsAs(t, u)
    PROVE  BeginsAs(s, u)
<1>1. Len(s) \in Nat /\ Len(t) \in Nat /\ Len(u) \in Nat
  BY LenProperties
<1>2. \A i \in 1..Len(s) : i \in 1..Len(t)
  BY <1>1 DEF BeginsAs
<1> QED
  BY <1>1, <1>2 DEF BeginsAs

LEMMA BeginsAppended ==
    ASSUME NEW s \in Seq(EventKinds), NEW kind \in EventKinds
    PROVE  BeginsAs(s, Append(s, kind))
<1>1. Len(s) \in Nat /\ Len(Append(s, kind)) = Len(s) + 1
  BY LenProperties, AppendProperties
<1>2. \A i \in 1..Len(s) : Append(s, kind)[i] = s[i]
  BY AppendProperties
<1> QED
  BY <1>1, <1>2 DEF BeginsAs

\* The number taken for an event is that of the place where it goes, and the
\* line is its own.
LEMMA WrittenWhole ==
    ASSUME StreamInv, NEW kind \in Logged
    PROVE  /\ LastSequence = Len(file) /\ TailRead = "none" /\ Len(file) \in Nat
           /\ Written(kind) = Append(file, kind) /\ Written(kind) \in Seq(EventKinds)
           /\ Len(Written(kind)) = Len(file) + 1 /\ Written(kind)[Len(file) + 1] = kind
           /\ BeginsAs(file, Written(kind))
<1>1. file \in Seq(EventKinds) /\ kind \in EventKinds /\ Len(file) \in Nat
  BY LenProperties DEF StreamInv, StreamShape, Logged, EventKinds
<1>2. LastSequence = Len(file) /\ TailRead = "none"
  BY DEF StreamInv, CacheFits, LastSequence, TailRead
<1>3. Written(kind) = Append(file, kind)
  BY <1>2 DEF Written
<1> QED
  BY <1>1, <1>2, <1>3, AppendProperties, BeginsAppended

\* EventsKept survives a file that is as it was, or one event longer.
LEMMA LongerKeeps ==
    ASSUME StreamInv, NEW kind \in Logged,
           file' = file \/ file' = Written(kind),
           UNCHANGED <<got, listed, pruned>>,
           kept' = kept \/ (file' = Written(kind)
                            /\ kept' = kept \cup {<<Len(file) + 1, kind>>})
    PROVE  /\ EventsKept' /\ file' \in Seq(EventKinds)
           /\ kept' \subseteq Nat \X EventKinds
<1>1. /\ Len(file) \in Nat /\ Written(kind) \in Seq(EventKinds)
      /\ Len(Written(kind)) = Len(file) + 1 /\ Written(kind)[Len(file) + 1] = kind
      /\ BeginsAs(file, Written(kind)) /\ kind \in EventKinds /\ kind # "garbage"
  BY WrittenWhole DEF Logged, EventKinds
<1>2. /\ file \in Seq(EventKinds) /\ got \in Seq(EventKinds) /\ listed \in Seq(EventKinds)
      /\ kept \subseteq Nat \X EventKinds
  BY DEF StreamInv, StreamShape
<1>3. file' \in Seq(EventKinds) /\ kept' \subseteq Nat \X EventKinds
  <2>1. <<Len(file) + 1, kind>> \in Nat \X EventKinds
    BY <1>1
  <2> QED
    BY <1>1, <1>2, <2>1
<1>4. BeginsAs(file, file')
  <2>1. CASE file' = file
    BY <1>1, <2>1 DEF BeginsAs
  <2>2. CASE file' = Written(kind)
    BY <1>1, <2>2
  <2> QED
    BY <2>1, <2>2
<1>5. \A i \in 1..Len(file') : file'[i] # "garbage"
  <2> SUFFICES ASSUME NEW i \in 1..Len(file') PROVE file'[i] # "garbage"
    OBVIOUS
  <2>1. i \in 1..Len(file) \/ (file' = Written(kind) /\ i = Len(file) + 1)
    BY <1>1
  <2>2. CASE i \in 1..Len(file)
    <3>1. file[i] # "garbage"
      BY <2>2 DEF StreamInv, EventsKept
    <3>2. file'[i] = file[i]
      BY <2>2, <1>4 DEF BeginsAs
    <3> QED
      BY <3>1, <3>2
  <2>3. CASE file' = Written(kind) /\ i = Len(file) + 1
    BY <2>3, <1>1
  <2> QED
    BY <2>1, <2>2, <2>3
<1>6. \A e \in kept' : e[1] \in 1..Len(file') /\ file'[e[1]] = e[2]
  <2> SUFFICES ASSUME NEW e \in kept' PROVE e[1] \in 1..Len(file') /\ file'[e[1]] = e[2]
    OBVIOUS
  <2>1. CASE e \in kept
    <3>1. e[1] \in 1..Len(file) /\ file[e[1]] = e[2]
      BY <2>1 DEF StreamInv, EventsKept
    <3>2. Len(file') \in Nat
      BY <1>3, LenProperties
    <3> QED
      BY <3>1, <3>2, <1>1, <1>4 DEF BeginsAs
  <2>2. CASE file' = Written(kind) /\ e = <<Len(file) + 1, kind>>
    BY <2>2, <1>1
  <2> QED
    BY <2>1, <2>2
<1>7. ~pruned' => BeginsAs(got' \o listed', file')
  <2>1. got \o listed \in Seq(EventKinds)
    BY <1>2, ConcatProperties
  <2>2. ~pruned => BeginsAs(got \o listed, file)
    BY DEF StreamInv, EventsKept
  <2> QED
    BY <1>2, <1>3, <1>4, <2>1, <2>2, BeginsLonger
<1> QED
  BY <1>3, <1>5, <1>6, <1>7 DEF EventsKept

-----------------------------------------------------------------------------
\* An append, whether it succeeds, fails or is a conflict.
LEMMA AppendKeeps ==
    ASSUME StreamInv, NEW kind \in Logged, NEW sequence,
           Appends(kind, sequence) \/ Fails(kind, sequence),
           UNCHANGED <<got, listed>>
    PROVE  StreamInv'
<1>1. /\ LastSequence = Len(file) /\ TailRead = "none" /\ Len(file) \in Nat
      /\ Len(Written(kind)) = Len(file) + 1
  BY WrittenWhole
<1>2. file \in Seq(EventKinds) /\ got \in Seq(EventKinds) /\ listed \in Seq(EventKinds)
  BY DEF StreamInv, StreamShape
<1>3. CASE Acknowledged(kind)
  <2>1. /\ file' = Written(kind) /\ tail' = "none" /\ cached' = Len(file) + 1
        /\ kept' = kept \cup {<<Len(file) + 1, kind>>} /\ pruned' = pruned
    BY <1>3, <1>1 DEF Acknowledged
  <2>2. EventsKept' /\ file' \in Seq(EventKinds) /\ kept' \subseteq Nat \X EventKinds
    BY <2>1, LongerKeeps
  <2>3. cached' = Len(file') /\ cached' \in Nat
    BY <2>1, <1>1
  <2> QED
    BY <1>2, <2>1, <2>2, <2>3 DEF StreamInv, StreamShape, CacheFits
<1>4. CASE NotAcknowledged(kind)
  <2>1. /\ file' = file \/ file' = Written(kind)
        /\ cached' = Unknown /\ kept' = kept /\ pruned' = pruned
    BY <1>4 DEF NotAcknowledged
  <2>2. EventsKept' /\ file' \in Seq(EventKinds) /\ kept' \subseteq Nat \X EventKinds
    BY <2>1, LongerKeeps
  <2> QED
    BY <1>2, <2>1, <2>2 DEF StreamInv, StreamShape, CacheFits
<1>5. CASE Conflict
  <2>1. /\ file' = file /\ tail' = "none" /\ cached' = Len(file)
        /\ kept' = kept /\ pruned' = pruned
    BY <1>5, <1>1 DEF Conflict
  <2>2. EventsKept' /\ file' \in Seq(EventKinds) /\ kept' \subseteq Nat \X EventKinds
    BY <2>1, LongerKeeps
  <2> QED
    BY <1>1, <1>2, <2>1, <2>2 DEF StreamInv, StreamShape, CacheFits
<1> QED
  BY <1>3, <1>4, <1>5 DEF Appends, Fails

\* Reading brings what follows the last event the client has.
LEMMA ListKeeps == ASSUME StreamInv, List PROVE StreamInv'
<1>1. /\ file \in Seq(EventKinds) /\ got \in Seq(EventKinds) /\ listed \in Seq(EventKinds)
      /\ Len(file) \in Nat /\ Len(got) \in Nat
  BY LenProperties DEF StreamInv, StreamShape
<1>2. /\ file' = file /\ got' = got /\ kept' = kept /\ pruned' = pruned
      /\ tail' = "none" /\ cached' = Len(file)
      /\ listed' = SubSeq(file, Len(got) + 1, Len(file))
  BY DEF List
<1>3. \A i \in (Len(got) + 1)..Len(file) : file[i] \in EventKinds
  <2>1. \A i \in (Len(got) + 1)..Len(file) : i \in 1..Len(file)
    BY <1>1
  <2> QED
    BY <1>1, <2>1, ElementOfSeq
<1>4. /\ listed' \in Seq(EventKinds)
      /\ Len(listed') = IF Len(got) + 1 <= Len(file) THEN Len(file) - (Len(got) + 1) + 1 ELSE 0
      /\ \A i \in 1..Len(file) - (Len(got) + 1) + 1 : listed'[i] = file[Len(got) + 1 + i - 1]
  <2>1. Len(got) + 1 \in Int /\ Len(file) \in Int
    BY <1>1
  <2> QED
    BY <1>2, <1>3, <2>1, SubSeqProperties
<1>5. ASSUME ~pruned PROVE BeginsAs(got' \o listed', file')
  <2>1. BeginsAs(got \o listed, file)
    BY <1>5 DEF StreamInv, EventsKept
  <2>2. /\ Len(got \o listed) = Len(got) + Len(listed) /\ Len(listed) \in Nat
        /\ \A i \in 1..Len(got) + Len(listed) :
             (got \o listed)[i] = IF i <= Len(got) THEN got[i] ELSE listed[i - Len(got)]
    BY <1>1, ConcatProperties, LenProperties
  <2>3. Len(got) <= Len(file) /\ \A i \in 1..Len(got) : got[i] = file[i]
    BY <1>1, <2>1, <2>2 DEF BeginsAs
  <2>4. Len(listed') = Len(file) - Len(got)
    BY <1>1, <1>4, <2>3
  <2>5. /\ Len(got \o listed') = Len(got) + Len(listed')
        /\ \A i \in 1..Len(got) + Len(listed') :
             (got \o listed')[i] = IF i <= Len(got) THEN got[i] ELSE listed'[i - Len(got)]
    BY <1>1, <1>4, ConcatProperties
  <2>6. ASSUME NEW i \in 1..Len(file) PROVE (got \o listed')[i] = file[i]
    <3>1. i \in 1..Len(got) + Len(listed')
      BY <1>1, <2>3, <2>4
    <3>2. CASE i <= Len(got)
      BY <2>3, <2>5, <3>1, <3>2
    <3>3. CASE ~(i <= Len(got))
      <4>1. /\ i - Len(got) \in 1..Len(file) - (Len(got) + 1) + 1
            /\ Len(got) + 1 + (i - Len(got)) - 1 = i
        BY <1>1, <3>3
      <4> QED
        BY <1>4, <2>5, <3>1, <3>3, <4>1
    <3> QED
      BY <3>2, <3>3
  <2> QED
    BY <1>1, <1>2, <2>3, <2>4, <2>5, <2>6 DEF BeginsAs
<1>6. EventsKept'
  BY <1>2, <1>5 DEF StreamInv, EventsKept
<1> QED
  BY <1>1, <1>2, <1>4, <1>6 DEF StreamInv, StreamShape, CacheFits

\* Delivering moves an event from what was listed to what the client has.
LEMMA SendKeeps == ASSUME StreamInv, Send PROVE StreamInv'
<1>1. /\ got \in Seq(EventKinds) /\ listed \in Seq(EventKinds) /\ listed # <<>>
      /\ got' = Append(got, Head(listed)) /\ listed' = Tail(listed)
      /\ UNCHANGED <<file, tail, cached, kept, pruned>>
  BY DEF StreamInv, StreamShape, Send, fileVars
<1>2. /\ Head(listed) \in EventKinds /\ Tail(listed) \in Seq(EventKinds)
      /\ Append(got, Head(listed)) \in Seq(EventKinds)
  BY <1>1, HeadTailProperties, AppendProperties
<1>3. got' \o listed' = got \o listed
  BY <1>1
<1> QED
  BY <1>1, <1>2, <1>3 DEF StreamInv, StreamShape, CacheFits, EventsKept

\* A stream that breaks off forgets what it has not delivered.
LEMMA DropListedKeeps ==
    ASSUME StreamInv, listed' = <<>>, UNCHANGED <<file, kept, pruned, got>>,
           cached' = Unknown \/ UNCHANGED <<cached, tail>>
    PROVE  StreamInv'
<1>1. file \in Seq(EventKinds) /\ got \in Seq(EventKinds) /\ listed \in Seq(EventKinds)
  BY DEF StreamInv, StreamShape
<1>2. <<>> \in Seq(EventKinds) /\ got \o <<>> = got
  BY <1>1, ConcatEmptySeq, EmptySeq
<1>3. ASSUME ~pruned PROVE BeginsAs(got, file)
  <2>1. BeginsAs(got \o listed, file)
    BY <1>3 DEF StreamInv, EventsKept
  <2>2. BeginsAs(got, got \o listed)
    BY <1>1, ConcatProperties, LenProperties DEF BeginsAs
  <2>3. got \o listed \in Seq(EventKinds)
    BY <1>1, ConcatProperties
  <2> QED
    BY <1>1, <2>1, <2>2, <2>3, BeginsLonger
<1>4. EventsKept'
  BY <1>2, <1>3 DEF StreamInv, EventsKept
<1> QED
  BY <1>1, <1>2, <1>4 DEF StreamInv, StreamShape, CacheFits

-----------------------------------------------------------------------------
LEMMA StreamInvStarts == StreamInit => StreamInv
<1> SUFFICES ASSUME StreamInit PROVE StreamInv
  OBVIOUS
<1>1. /\ file = <<>> /\ got = <<>> /\ listed = <<>> /\ cached = Unknown /\ kept = {}
  BY DEF StreamInit
<1>2. <<>> \in Seq(EventKinds) /\ <<>> \o <<>> = <<>> /\ Len(<<>>) = 0
  BY EmptySeq, ConcatEmptySeq
<1> QED
  BY <1>1, <1>2 DEF StreamInv, StreamShape, CacheFits, EventsKept, BeginsAs

LEMMA StreamInvKept == StreamInv /\ [StreamNext]_streamVars => StreamInv'
<1> SUFFICES ASSUME StreamInv, [StreamNext]_streamVars PROVE StreamInv'
  OBVIOUS
<1>0. "progress" \in Logged /\ "terminal" \in Logged
  BY DEF Logged
<1>1. CASE Report
  BY <1>0, <1>1, AppendKeeps DEF Report
<1>2. CASE SaveTerminal
  BY <1>2 DEF SaveTerminal, fileVars, clientVars, StreamInv, StreamShape, CacheFits, EventsKept
<1>3. CASE AppendTerminal
  BY <1>0, <1>3, AppendKeeps DEF AppendTerminal
<1>4. CASE StreamRestart
  BY <1>4, DropListedKeeps DEF StreamRestart
<1>5. CASE Reconcile
  <2>1. CASE /\ Closed /\ tail' = "none" /\ cached' = Len(file)
             /\ UNCHANGED <<file, kept, pruned, got, listed>>
    <3>1. Len(file) \in Nat
      BY LenProperties DEF StreamInv, StreamShape
    <3> QED
      BY <2>1, <3>1 DEF StreamInv, StreamShape, CacheFits, EventsKept
  <2>2. CASE /\ Appends("terminal", Len(file)) \/ Fails("terminal", Len(file))
             /\ UNCHANGED <<got, listed>>
    BY <1>0, <2>2, AppendKeeps
  <2> QED
    BY <1>5, <2>1, <2>2 DEF Reconcile
<1>6. CASE Prune
  <2>1. /\ file' = <<>> /\ cached' = Unknown /\ kept' = {} /\ pruned' = TRUE
        /\ UNCHANGED <<got, listed>>
    BY <1>6 DEF Prune, clientVars
  <2>2. <<>> \in Seq(EventKinds) /\ Len(<<>>) = 0
    BY EmptySeq
  <2> QED
    BY <2>1, <2>2 DEF StreamInv, StreamShape, CacheFits, EventsKept
<1>7. CASE Connect
  BY <1>7 DEF Connect, fileVars, StreamInv, StreamShape, CacheFits, EventsKept
<1>8. CASE List
  BY <1>8, ListKeeps
<1>9. CASE Send
  BY <1>9, SendKeeps
<1>10. CASE LookAtRun
  BY <1>10 DEF LookAtRun, fileVars, StreamInv, StreamShape, CacheFits, EventsKept
<1>11. CASE Wake
  BY <1>11 DEF Wake, fileVars, StreamInv, StreamShape, CacheFits, EventsKept
<1>12. CASE Disconnect
  BY <1>12, DropListedKeeps DEF Disconnect, fileVars
<1>13. CASE UNCHANGED streamVars
  BY <1>13 DEF streamVars, StreamInv, StreamShape, CacheFits, EventsKept
<1> QED
  BY <1>1, <1>2, <1>3, <1>4, <1>5, <1>6, <1>7, <1>8, <1>9, <1>10, <1>11, <1>12, <1>13
     DEF StreamNext, Serve

\* No acknowledged event is lost or spoilt by a failed write, its repair, a
\* crash or a pruning, and each client has every event once and in order.
THEOREM AcknowledgedEventsStay == StreamSpec => []EventsKept
<1>1. StreamInv => EventsKept
  BY DEF StreamInv
<1> QED
  BY <1>1, StreamInvStarts, StreamInvKept, PTL DEF StreamSpec

-----------------------------------------------------------------------------
(* SignIn: a refresh token is presented once, as long as no answer is      *)
(* lost, for any number of requests, of flows and of tokens.               *)

TokenShape ==
    /\ issued \in 0..MaxTokens /\ token \in Nat /\ token <= issued
    /\ asker \in [Askers -> Nat] /\ uses \in [1..MaxTokens -> Nat] /\ authFaults \in Nat

\* Whoever has read the token holds the store, and the token is still the one
\* of the record.
HolderHasToken ==
    /\ storeMu \in Askers \cup {NoAsker}
    /\ \A a \in Askers : asker[a] # 0 => storeMu = a /\ asker[a] = token

\* The token of the record has not been presented, nor one not yet issued.
TokensFresh ==
    authFaults = 0 =>
        /\ token # 0 => uses[token] = 0
        /\ \A t \in 1..MaxTokens : uses[t] <= 1 /\ (t > issued => uses[t] = 0)

TokenInv == TokenShape /\ HolderHasToken /\ TokensFresh

-----------------------------------------------------------------------------
LEMMA TokenInvStarts == SignInInit => TokenInv
BY SignInBounds DEF SignInInit, TokenInv, TokenShape, HolderHasToken, TokensFresh

\* A new record, from a flow or from a refresh, has a token nobody has seen.
LEMMA FreshToken ==
    ASSUME TokenInv, issued < MaxTokens
    PROVE  /\ issued + 1 \in 1..MaxTokens /\ issued + 1 \in 0..MaxTokens
           /\ authFaults = 0 => uses[issued + 1] = 0
BY SignInBounds DEF TokenInv, TokenShape, TokensFresh

LEMMA StoreRecordKeeps ==
    ASSUME TokenInv, NEW c \in Callbacks, StoreRecord(c)
    PROVE  TokenInv'
<1>1. /\ storeMu = NoAsker /\ UNCHANGED <<uses, storeMu, asker>>
      /\ \A a \in Askers : asker[a] = 0
  BY SignInBounds DEF StoreRecord, TokenInv, HolderHasToken
<1>2. CASE issued < MaxTokens /\ issued' = issued + 1 /\ token' = issued + 1
           /\ UNCHANGED authFaults
  <2>1. TokenShape'
    BY <1>1, <1>2, FreshToken DEF TokenInv, TokenShape
  <2>2. TokensFresh'
    BY <1>1, <1>2, FreshToken DEF TokenInv, TokenShape, TokensFresh
  <2> QED
    BY <1>1, <2>1, <2>2 DEF TokenInv, HolderHasToken
<1>3. CASE AuthFault /\ UNCHANGED <<issued, token>>
  <2>1. authFaults' \in Nat /\ authFaults' # 0
    BY <1>3 DEF AuthFault, TokenInv, TokenShape
  <2> QED
    BY <1>1, <1>3, <2>1 DEF TokenInv, TokenShape, HolderHasToken, TokensFresh
<1> QED
  BY <1>2, <1>3 DEF StoreRecord

LEMMA DeleteRecordKeeps == ASSUME TokenInv, DeleteRecord PROVE TokenInv'
<1>1. /\ storeMu = NoAsker /\ token' = 0
      /\ UNCHANGED <<issued, uses, storeMu, asker, authFaults>>
      /\ \A a \in Askers : asker[a] = 0
  BY SignInBounds DEF DeleteRecord, TokenInv, HolderHasToken
<1> QED
  BY <1>1 DEF TokenInv, TokenShape, HolderHasToken, TokensFresh

LEMMA BeginRefreshKeeps ==
    ASSUME TokenInv, NEW a \in Askers, BeginRefresh(a)
    PROVE  TokenInv'
<1>1. /\ storeMu = NoAsker /\ storeMu' = a /\ asker' = [asker EXCEPT ![a] = token]
      /\ UNCHANGED <<token, issued, uses, authFaults>>
      /\ \A b \in Askers : asker[b] = 0
  BY SignInBounds DEF BeginRefresh, TokenInv, HolderHasToken
<1>2. \A b \in Askers : asker'[b] = IF b = a THEN token ELSE 0
  BY <1>1 DEF TokenInv, TokenShape
<1> QED
  BY <1>1, <1>2 DEF TokenInv, TokenShape, HolderHasToken, TokensFresh

\* The token that is presented is the one of the record, which goes with it.
LEMMA RefreshKeeps ==
    ASSUME TokenInv, NEW a \in Askers, Refresh(a)
    PROVE  TokenInv'
<1>1. /\ storeMu = a /\ asker[a] = token /\ token \in 1..issued /\ issued \in 0..MaxTokens
      /\ uses' = [uses EXCEPT ![token] = @ + 1]
      /\ asker' = [asker EXCEPT ![a] = 0] /\ storeMu' = NoAsker
  <2>1. /\ asker[a] # 0 /\ uses' = [uses EXCEPT ![asker[a]] = @ + 1]
        /\ asker' = [asker EXCEPT ![a] = 0] /\ storeMu' = NoAsker
    BY DEF Refresh
  <2>2. storeMu = a /\ asker[a] = token
    BY <2>1 DEF TokenInv, HolderHasToken
  <2>3. token \in 1..issued /\ issued \in 0..MaxTokens
    BY <2>1, <2>2, SignInBounds DEF TokenInv, TokenShape
  <2> QED
    BY <2>1, <2>2, <2>3
<1>2. token \in 1..MaxTokens
  BY <1>1, SignInBounds
<1>3. /\ uses' \in [1..MaxTokens -> Nat]
      /\ \A t \in 1..MaxTokens : uses'[t] = IF t = token THEN uses[t] + 1 ELSE uses[t]
  BY <1>1, <1>2 DEF TokenInv, TokenShape
<1>4. asker' \in [Askers -> Nat] /\ \A b \in Askers : asker'[b] = 0
  <2>1. \A b \in Askers : b # a => asker[b] = 0
    BY <1>1 DEF TokenInv, HolderHasToken
  <2> QED
    BY <1>1, <2>1 DEF TokenInv, TokenShape
<1>5. HolderHasToken'
  BY <1>1, <1>4 DEF HolderHasToken
<1>6. CASE issued < MaxTokens /\ issued' = issued + 1 /\ token' = issued + 1
           /\ UNCHANGED authFaults
  <2>1. TokenShape'
    BY <1>3, <1>4, <1>6, FreshToken DEF TokenInv, TokenShape
  <2>2. TokensFresh'
    <3> SUFFICES ASSUME authFaults = 0
                 PROVE  /\ uses'[issued + 1] = 0
                        /\ \A t \in 1..MaxTokens :
                              uses'[t] <= 1 /\ (t > issued + 1 => uses'[t] = 0)
      BY <1>6 DEF TokensFresh
    <3>1. uses[token] = 0 /\ \A t \in 1..MaxTokens : uses[t] <= 1 /\ (t > issued => uses[t] = 0)
      BY <1>1 DEF TokenInv, TokensFresh
    <3>2. issued + 1 \in 1..MaxTokens /\ issued + 1 # token
      BY <1>1, <1>6, FreshToken
    <3> QED
      BY <1>1, <1>2, <1>3, <3>1, <3>2
  <2> QED
    BY <1>5, <2>1, <2>2 DEF TokenInv
<1>7. CASE AuthFault /\ UNCHANGED <<issued, token>>
  <2>1. authFaults' \in Nat /\ authFaults' # 0
    BY <1>7 DEF AuthFault, TokenInv, TokenShape
  <2> QED
    BY <1>3, <1>4, <1>5, <1>7, <2>1 DEF TokenInv, TokenShape, TokensFresh
<1> QED
  BY <1>6, <1>7 DEF Refresh

LEMMA TokenInvKept == TokenInv /\ [SignInNext]_signInVars => TokenInv'
<1> SUFFICES ASSUME TokenInv, [SignInNext]_signInVars PROVE TokenInv'
  OBVIOUS
<1>1. ASSUME UNCHANGED <<tokenVars, authFaults>> PROVE TokenInv'
  BY <1>1 DEF tokenVars, TokenInv, TokenShape, HolderHasToken, TokensFresh
<1>2. CASE Start \/ ServeFails \/ ShutdownServer \/ StopFlow
  BY <1>1, <1>2 DEF Start, ServeFails, ShutdownServer, StopFlow
<1>3. CASE DeleteRecord
  BY <1>3, DeleteRecordKeeps
<1>4. ASSUME NEW c \in Callbacks, Arrive(c) \/ Exchange(c) \/ Complete(c) PROVE TokenInv'
  BY <1>1, <1>4 DEF Arrive, Exchange, Complete
<1>5. ASSUME NEW c \in Callbacks, StoreRecord(c) PROVE TokenInv'
  BY <1>5, StoreRecordKeeps
<1>6. ASSUME NEW id \in 1..MaxFlows, ExpireFlow(id) PROVE TokenInv'
  BY <1>1, <1>6 DEF ExpireFlow
<1>7. ASSUME NEW a \in Askers, BeginRefresh(a) \/ Refresh(a) PROVE TokenInv'
  BY <1>7, BeginRefreshKeeps, RefreshKeeps
<1>8. CASE UNCHANGED signInVars
  BY <1>1, <1>8 DEF signInVars, tokenVars
<1> QED
  BY <1>2, <1>3, <1>4, <1>5, <1>6, <1>7, <1>8 DEF SignInNext

\* With the store locked from the reading of the token to the saving of its
\* successor, no two requests present the same one.
THEOREM TokenOnce == SignInSpec => []TokenPresentedOnce
<1>1. TokenInv => TokenPresentedOnce
  BY SignInBounds DEF TokenInv, TokenShape, TokensFresh, TokenPresentedOnce
<1> QED
  BY <1>1, TokenInvStarts, TokenInvKept, PTL DEF SignInSpec

-----------------------------------------------------------------------------
(* NetPass: no client is left behind unseen, and no key, for any number of *)
(* clients, callers of stop, configurations and faults.                    *)

TunnelShape ==
    /\ netConfig \in Configs /\ tunnel \in Nat /\ tunnelFaults \in Nat
    /\ status \in [running : BOOLEAN, connected : BOOLEAN, named : Nat]
    /\ netClient \in [Clients -> {"none", "up", "ended"}] /\ usedBy \in [Clients -> Configs]
    /\ stopper \in [Stoppers -> [at : {"rest", "file", "kill"}, client : Nat]]
    /\ watched \subseteq Clients

\* The status is that of the client in command, and that one runs with the
\* configuration shown.
StatusFits ==
    /\ status.running <=> tunnel # 0
    /\ tunnel # 0 => tunnel \in Clients /\ usedBy[tunnel] = netConfig

\* Who stops nothing has taken nothing, and who is to kill has a client.
StoppersFit ==
    \A s \in Stoppers : /\ stopper[s].at = "rest" => stopper[s].client = 0
                        /\ stopper[s].at = "kill" => stopper[s].client # 0

TunnelInv == TunnelShape /\ StatusFits /\ StoppersFit /\ NothingLeftOpen

LEMMA TunnelInvStarts == TunnelInit => TunnelInv
<1> SUFFICES ASSUME TunnelInit PROVE TunnelInv
  OBVIOUS
<1>1. TunnelShape
  BY TunnelBounds DEF TunnelInit, TunnelShape, Stopped, NoStop, Clients
<1>2. StatusFits /\ StoppersFit /\ NoHiddenTunnel
  BY DEF TunnelInit, Stopped, NoStop, StatusFits, StoppersFit, NoHiddenTunnel
<1>3. KeyIsRemoved
  BY DEF TunnelInit, KeyIsRemoved
<1> QED
  BY <1>1, <1>2, <1>3 DEF TunnelInv, NothingLeftOpen

LEMMA StartTunnelKeeps ==
    ASSUME TunnelInv, NEW n \in Clients, StartTunnel(n)
    PROVE  TunnelInv'
<1>1. ~status.running /\ tunnel = 0 /\ n \in Nat \ {0} /\ UNCHANGED <<netConfig, stopper, unkilled>>
  BY TunnelBounds DEF StartTunnel, TunnelInv, StatusFits, Clients
<1>2. CASE /\ netClient' = [netClient EXCEPT ![n] = "up"] /\ keyFile' = TRUE
           /\ usedBy' = [usedBy EXCEPT ![n] = netConfig] /\ tunnel' = n
           /\ status' = [running |-> TRUE, connected |-> FALSE, named |-> 0]
           /\ watched' = watched \cup {n} /\ UNCHANGED tunnelFaults
  <2>1. TunnelShape'
    BY <1>1, <1>2 DEF TunnelInv, TunnelShape
  <2>2. StatusFits' /\ status'.running
    BY <1>1, <1>2 DEF TunnelInv, TunnelShape, StatusFits
  <2>3. NoHiddenTunnel'
    <3> SUFFICES ASSUME NEW m \in watched', netClient'[m] = "up"
                 PROVE  \/ status'.running /\ tunnel' = m /\ usedBy'[m] = netConfig'
                        \/ \E s \in Stoppers : stopper'[s].client = m
                        \/ m \in unkilled'
      BY DEF NoHiddenTunnel
    <3>1. CASE m = n
      BY <1>1, <1>2, <2>2, <3>1 DEF StatusFits
    <3>2. CASE m # n
      <4>1. m \in watched /\ netClient[m] = "up" /\ m \in Clients
        BY <1>2, <3>2 DEF TunnelInv, TunnelShape
      <4> QED
        BY <1>1, <4>1 DEF TunnelInv, NothingLeftOpen, NoHiddenTunnel
    <3> QED
      BY <3>1, <3>2
  <2> QED
    BY <1>1, <2>1, <2>2, <2>3 DEF TunnelInv, StoppersFit, NothingLeftOpen, KeyIsRemoved
<1>3. CASE /\ TunnelFault /\ keyFile' \in {keyFile, FALSE}
           /\ UNCHANGED <<netClient, usedBy, tunnel, status, watched>>
  <2>1. tunnelFaults' \in Nat /\ tunnelFaults' # 0
    BY <1>3 DEF TunnelFault, TunnelInv, TunnelShape
  <2> QED
    BY <1>1, <1>3, <2>1 DEF TunnelInv, TunnelShape, StatusFits, StoppersFit,
                            NothingLeftOpen, NoHiddenTunnel, KeyIsRemoved
<1> QED
  BY <1>2, <1>3 DEF StartTunnel

\* A Stop keeps what it took until the file and the client are gone.
\* Stop takes the client out of the status: from then on it is the stopper's.
LEMMA TakeOutKeeps ==
    ASSUME TunnelInv, NEW s \in Stoppers, TakeOut(s)
    PROVE  TunnelInv'
<1>0. TunnelShape /\ StatusFits /\ StoppersFit /\ NoHiddenTunnel
  BY DEF TunnelInv, NothingLeftOpen
<1>1. /\ stopper' = [stopper EXCEPT ![s] = [at |-> "file", client |-> tunnel]]
      /\ stopper[s].at = "rest" /\ tunnel' = 0 /\ status' = Stopped
      /\ UNCHANGED <<netConfig, netClient, usedBy, watched, keyFile, unkilled, tunnelFaults>>
  BY DEF TakeOut
<1>2. /\ stopper'[s] = [at |-> "file", client |-> tunnel]
      /\ \A x \in Stoppers : x # s => stopper'[x] = stopper[x]
  BY <1>0, <1>1 DEF TunnelShape
<1>3. TunnelShape' /\ StatusFits' /\ StoppersFit'
  BY <1>0, <1>1, <1>2 DEF TunnelShape, StatusFits, StoppersFit, Stopped
<1>4. NoHiddenTunnel'
  <2> SUFFICES ASSUME NEW n \in watched, netClient[n] = "up"
               PROVE  (\E x \in Stoppers : stopper'[x].client = n) \/ n \in unkilled
    BY <1>1 DEF NoHiddenTunnel
  <2>1. CASE tunnel = n
    BY <1>2, <2>1
  <2>2. CASE tunnel # n /\ n \notin unkilled
    <3>1. n # 0
      BY <1>0 DEF TunnelShape, Clients
    <3>2. PICK x \in Stoppers : stopper[x].client = n
      BY <1>0, <2>2 DEF NoHiddenTunnel
    <3>3. stopper[s].at = "rest"
      BY <1>1
    <3>4. stopper[s].client = 0
      BY <1>0, <3>3 DEF StoppersFit
    <3>5. x # s
      BY <3>1, <3>2, <3>4
    <3>6. stopper'[x] = stopper[x]
      BY <1>2, <3>5
    <3> QED
      BY <3>2, <3>6
  <2> QED
    BY <2>1, <2>2
<1>5. KeyIsRemoved'
  BY <1>1, <1>2 DEF KeyIsRemoved
<1> QED
  BY <1>3, <1>4, <1>5 DEF TunnelInv, NothingLeftOpen

\* The file is removed, or something has failed.
LEMMA KeyOutcome ==
    ASSUME tunnelFaults \in Nat, KeyGoes
    PROVE  /\ tunnelFaults' \in Nat
           /\ tunnelFaults' = 0 => keyFile' = FALSE
BY DEF KeyGoes, TunnelFault

LEMMA RemoveKeyKeeps ==
    ASSUME TunnelInv, NEW s \in Stoppers, RemoveKey(s)
    PROVE  TunnelInv'
<1>0. TunnelShape /\ StatusFits /\ StoppersFit /\ NoHiddenTunnel
  BY DEF TunnelInv, NothingLeftOpen
<1>1. /\ tunnelFaults' \in Nat /\ (tunnelFaults' = 0 => keyFile' = FALSE)
      /\ stopper[s].at = "file"
      /\ stopper' = [stopper EXCEPT ![s] = IF stopper[s].client = 0 THEN NoStop
                                           ELSE [stopper[s] EXCEPT !.at = "kill"]]
      /\ UNCHANGED <<netConfig, status, tunnel, netClient, usedBy, watched, unkilled>>
  BY <1>0, KeyOutcome DEF RemoveKey, TunnelShape
<1>2. /\ stopper'[s] \in [at : {"rest", "file", "kill"}, client : Nat]
      /\ stopper'[s].client = stopper[s].client
      /\ (stopper'[s].at = "rest" => stopper'[s].client = 0)
      /\ (stopper'[s].at = "kill" => stopper'[s].client # 0)
      /\ \A x \in Stoppers : x # s => stopper'[x] = stopper[x]
  BY <1>0, <1>1 DEF TunnelShape, NoStop
<1>3. TunnelShape' /\ StatusFits' /\ StoppersFit'
  BY <1>0, <1>1, <1>2 DEF TunnelShape, StatusFits, StoppersFit
<1>4. NoHiddenTunnel'
  BY <1>0, <1>1, <1>2 DEF NoHiddenTunnel
<1> QED
  BY <1>1, <1>3, <1>4 DEF TunnelInv, NothingLeftOpen, KeyIsRemoved

LEMMA KillKeeps ==
    ASSUME TunnelInv, NEW s \in Stoppers, Kill(s)
    PROVE  TunnelInv'
<1>0. TunnelShape /\ StatusFits /\ StoppersFit /\ NoHiddenTunnel /\ KeyIsRemoved
  BY DEF TunnelInv, NothingLeftOpen
<1>1. /\ stopper[s].at = "kill" /\ stopper' = [stopper EXCEPT ![s] = NoStop]
      /\ UNCHANGED <<netConfig, status, tunnel, usedBy, watched, keyFile>>
  BY DEF Kill
<1>2. /\ stopper'[s] = NoStop /\ \A x \in Stoppers : x # s => stopper'[x] = stopper[x]
  BY <1>0, <1>1 DEF TunnelShape
<1>3. /\ netClient' \in [Clients -> {"none", "up", "ended"}] /\ tunnelFaults' \in Nat
      /\ tunnelFaults' = 0 => tunnelFaults = 0
      /\ unkilled \subseteq unkilled'
      /\ \A n \in Clients : netClient'[n] = "up" =>
            netClient[n] = "up" /\ (n # stopper[s].client \/ n \in unkilled')
  <2>1. CASE netClient' = [netClient EXCEPT ![stopper[s].client] = "ended"]
             /\ UNCHANGED <<unkilled, tunnelFaults>>
    BY <1>0, <2>1 DEF TunnelShape
  <2>2. CASE TunnelFault /\ unkilled' = unkilled \cup {stopper[s].client} /\ UNCHANGED netClient
    BY <1>0, <2>2 DEF TunnelShape, TunnelFault
  <2> QED
    BY <2>1, <2>2 DEF Kill
<1>4. TunnelShape' /\ StatusFits' /\ StoppersFit'
  BY <1>0, <1>1, <1>2, <1>3 DEF TunnelShape, StatusFits, StoppersFit, NoStop
<1>5. NoHiddenTunnel'
  <2> SUFFICES ASSUME NEW n \in watched, netClient'[n] = "up", n \notin unkilled',
                      ~(status.running /\ tunnel = n /\ usedBy[n] = netConfig)
               PROVE  \E x \in Stoppers : stopper'[x].client = n
    BY <1>1 DEF NoHiddenTunnel
  <2>1. netClient[n] = "up" /\ n # stopper[s].client /\ n \notin unkilled
    BY <1>0, <1>3 DEF TunnelShape
  <2>2. PICK x \in Stoppers : stopper[x].client = n
    BY <1>0, <2>1 DEF NoHiddenTunnel
  <2> QED
    BY <1>2, <2>1, <2>2
<1>6. KeyIsRemoved'
  BY <1>0, <1>1, <1>2, <1>3 DEF KeyIsRemoved
<1> QED
  BY <1>4, <1>5, <1>6 DEF TunnelInv, NothingLeftOpen

\* Only the end of the client that is shown ends what is shown.
LEMMA WaitKeeps ==
    ASSUME TunnelInv, NEW n \in Clients, Wait(n)
    PROVE  TunnelInv'
<1>0. TunnelShape /\ StatusFits /\ StoppersFit /\ NoHiddenTunnel /\ KeyIsRemoved
  BY DEF TunnelInv, NothingLeftOpen
<1>1. /\ watched' = watched \ {n}
      /\ UNCHANGED <<netConfig, netClient, usedBy, stopper, unkilled>>
  BY DEF Wait
<1>2. CASE tunnel = n /\ tunnel' = 0 /\ status' = Stopped /\ KeyGoes
  <2>0. tunnelFaults' \in Nat /\ (tunnelFaults' = 0 => keyFile' = FALSE)
    BY <1>0, <1>2, KeyOutcome DEF TunnelShape
  <2>1. TunnelShape' /\ StatusFits' /\ StoppersFit'
    BY <1>0, <1>1, <1>2, <2>0 DEF TunnelShape, StatusFits, StoppersFit, Stopped
  <2>2. NoHiddenTunnel' /\ KeyIsRemoved'
    BY <1>0, <1>1, <1>2, <2>0 DEF NoHiddenTunnel, KeyIsRemoved
  <2> QED
    BY <2>1, <2>2 DEF TunnelInv, NothingLeftOpen
<1>3. CASE UNCHANGED <<tunnel, status, keyFile, tunnelFaults>>
  BY <1>0, <1>1, <1>3 DEF TunnelInv, TunnelShape, StatusFits, StoppersFit, NothingLeftOpen,
                          NoHiddenTunnel, KeyIsRemoved
<1> QED
  BY <1>2, <1>3 DEF Wait

LEMMA LineKeeps ==
    ASSUME TunnelInv, NEW n \in Clients, Line(n)
    PROVE  TunnelInv'
<1>0. TunnelShape /\ StatusFits /\ StoppersFit /\ NoHiddenTunnel /\ KeyIsRemoved
  BY DEF TunnelInv, NothingLeftOpen
<1>1. n \in Nat
  BY DEF Clients
<1>2. /\ status' \in [running : BOOLEAN, connected : BOOLEAN, named : Nat]
      /\ status'.running = status.running
      /\ UNCHANGED <<netConfig, tunnel, netClient, usedBy, watched, keyFile, stopper, unkilled,
                     tunnelFaults>>
  BY <1>0, <1>1 DEF Line, TunnelShape
<1> QED
  BY <1>0, <1>2 DEF TunnelInv, TunnelShape, StatusFits, StoppersFit, NothingLeftOpen,
                    NoHiddenTunnel, KeyIsRemoved

LEMMA ServiceCrashKeeps == ASSUME TunnelInv, ServiceCrash PROVE TunnelInv'
<1>1. /\ tunnelFaults' \in Nat /\ tunnelFaults' # 0 /\ status' = Stopped /\ tunnel' = 0
      /\ watched' = {} /\ stopper' = [s \in Stoppers |-> NoStop]
      /\ UNCHANGED <<netConfig, netClient, usedBy, unkilled>>
  BY DEF ServiceCrash, TunnelFault, TunnelInv, TunnelShape
<1> QED
  BY <1>1 DEF TunnelInv, TunnelShape, StatusFits, StoppersFit, NothingLeftOpen, NoHiddenTunnel,
              KeyIsRemoved, Stopped, NoStop

LEMMA TunnelInvKept == TunnelInv /\ [TunnelNext]_tunnelVars => TunnelInv'
<1> SUFFICES ASSUME TunnelInv, [TunnelNext]_tunnelVars PROVE TunnelInv'
  OBVIOUS
<1>1. ASSUME NEW c \in Configs, Configure(c) PROVE TunnelInv'
  BY <1>1 DEF Configure, TunnelInv, TunnelShape, StatusFits, StoppersFit, NothingLeftOpen,
              NoHiddenTunnel, KeyIsRemoved
<1>2. ASSUME NEW n \in Clients, ClientEnds(n) PROVE TunnelInv'
  <2>1. /\ netClient' \in [Clients -> {"none", "up", "ended"}]
        /\ \A m \in Clients : netClient'[m] = "up" => netClient[m] = "up"
        /\ UNCHANGED <<netConfig, status, tunnel, usedBy, watched, keyFile, stopper, unkilled,
                       tunnelFaults>>
    BY <1>2 DEF ClientEnds, TunnelInv, TunnelShape
  <2> QED
    BY <2>1 DEF TunnelInv, TunnelShape, StatusFits, StoppersFit, NothingLeftOpen,
                NoHiddenTunnel, KeyIsRemoved
<1>3. ASSUME NEW n \in Clients, StartTunnel(n) \/ Wait(n) \/ Line(n) PROVE TunnelInv'
  BY <1>3, StartTunnelKeeps, WaitKeeps, LineKeeps
<1>4. ASSUME NEW s \in Stoppers, TakeOut(s) \/ RemoveKey(s) \/ Kill(s) PROVE TunnelInv'
  BY <1>4, TakeOutKeeps, RemoveKeyKeeps, KillKeeps
<1>5. CASE ServiceCrash
  BY <1>5, ServiceCrashKeeps
<1>6. CASE UNCHANGED tunnelVars
  BY <1>6 DEF tunnelVars, TunnelInv, TunnelShape, StatusFits, StoppersFit, NothingLeftOpen,
              NoHiddenTunnel, KeyIsRemoved
<1> QED
  BY <1>1, <1>2, <1>3, <1>4, <1>5, <1>6 DEF TunnelNext

\* A client that a living service watches is shown, with the configuration it
\* runs with, or is being stopped, or a Stop has returned the error that it could
\* not kill it; and without a fault the key goes with it.
THEOREM TunnelIsKnown == TunnelSpec => []NothingLeftOpen
<1>1. TunnelInv => NothingLeftOpen
  BY DEF TunnelInv
<1> QED
  BY <1>1, TunnelInvStarts, TunnelInvKept, PTL DEF TunnelSpec

-----------------------------------------------------------------------------
(* McpManager: a call is run as often as it may, its report is true, and   *)
(* a state that was replaced has no session.  For any calls, connections,  *)
(* settings and versions of the tool.                                      *)

ServerRecords == [session : Nat, tool : Nat, dirty : BOOLEAN]
InLock  == {"check", "connect", "list", "install"}
Unsents == {"rest", "lock", "take", "send"} \cup InLock
UserRecords ==
    [at : Unsents \cup {"close", "flight", "disconnect", "done"}, state : Nat, force : BOOLEAN,
     want : Nat, found : Nat, session : Nat, tried : Nat, ran : BOOLEAN, fresh : BOOLEAN,
     again : BOOLEAN, result : {"none", "ok", "unknown", "not dispatched"}]

McpShape ==
    /\ server \in Seq(ServerRecords) /\ Len(server) >= 1
    /\ connectMu \in Seq(Users \cup {Free}) /\ Len(connectMu) = Len(server)
    /\ sessions \in Nat /\ offered \in Nat
    /\ user \in [Users -> UserRecords] /\ executed \in [ToolCalls -> Nat]
    /\ \A u \in Users : user[u].at \notin {"rest", "done"} => user[u].state \in States

\* Whoever works on a state under its lock has the lock.
LockHeld == \A u \in Users : user[u].at \in InLock => connectMu[user[u].state] = u

\* A state that is not the newest, and not about to be closed, has no session,
\* and nobody is about to make one.
OldIsClosed ==
    \A g \in States : g # Newest /\ g \notin toClose =>
        /\ server[g].session = 0
        /\ \A u \in Users : user[u].at = "connect" => user[u].state # g

\* What the server has done of a call, by where the call is; n is how often.
CallFits(r, n) ==
    /\ r.at = "rest" \/ (r.at # "done" /\ r.tried = 0) => n = 0
    /\ r.at = "flight" => r.tried > 0
    /\ r.at = "flight" /\ r.ran => n > 0
    /\ r.at # "done" => r.result = "none"
    /\ r.want \notin Repeatable =>
         /\ n <= 1
         /\ \/ r.at \in Unsents
            \/ r.at = "flight" /\ ~r.ran
            \/ r.at = "disconnect" /\ r.again
            => n = 0
    /\ r.result = "not dispatched" => n = 0
    /\ r.result = "ok" => n > 0

McpInv ==
    /\ McpShape /\ LockHeld /\ OldIsClosed
    /\ \A c \in ToolCalls : CallFits(user[c], executed[c])

LEMMA McpInvStarts == McpInit => McpInv
<1> SUFFICES ASSUME McpInit PROVE McpInv
  OBVIOUS
<1>1. /\ server = <<NoSession>> /\ connectMu = <<Free>> /\ toClose = {} /\ sessions = 0
      /\ offered = 1 /\ user = [u \in Users |-> Asleep] /\ executed = [c \in ToolCalls |-> 0]
  BY DEF McpInit
<1>2. /\ NoSession \in ServerRecords /\ NoSession.session = 0
      /\ Asleep \in UserRecords /\ Asleep.at = "rest" /\ Asleep.result = "none"
  BY DEF NoSession, ServerRecords, Asleep, UserRecords, Unsents, InLock
<1>3. /\ server \in Seq(ServerRecords) /\ Len(server) = 1
      /\ connectMu \in Seq(Users \cup {Free}) /\ Len(connectMu) = 1
  BY <1>1, <1>2
<1>4. McpShape
  BY <1>1, <1>2, <1>3 DEF McpShape
<1>5. LockHeld
  BY <1>1, <1>2 DEF LockHeld, InLock
<1>6. OldIsClosed
  BY <1>3 DEF OldIsClosed, States, Newest
<1>7. ASSUME NEW c \in ToolCalls PROVE CallFits(user[c], executed[c])
  <2>1. user[c] = Asleep /\ executed[c] = 0
    BY <1>1 DEF Users
  <2> QED
    BY <1>2, <2>1 DEF CallFits
<1> QED
  BY <1>4, <1>5, <1>6, <1>7 DEF McpInv

\* The call is still on its way to the server.
LEMMA SameCallFits ==
    ASSUME NEW q \in UserRecords, NEW r \in UserRecords, NEW n, CallFits(q, n),
           q.at \in Unsents \ {"rest"}, r.at \in Unsents \ {"rest"},
           r.tried = q.tried, r.want = q.want, r.result = q.result
    PROVE  CallFits(r, n)
  BY DEF CallFits, Unsents, InLock

\* One user moves, by u and the record it has then.
Becomes(u, r) == u \in Users /\ r \in UserRecords /\ user' = [user EXCEPT ![u] = r]

\* The connection after a step of that user.
LinkFits(u, r) ==
    /\ server' \in Seq(ServerRecords) /\ Len(server') = Len(server)
    /\ connectMu' \in Seq(Users \cup {Free}) /\ Len(connectMu') = Len(server)
    /\ sessions' \in Nat /\ offered' \in Nat /\ toClose' = toClose
    /\ r.at \notin {"rest", "done"} => r.state \in States
    /\ r.at \in InLock => connectMu'[r.state] = u
    /\ \A v \in Users : v # u /\ user[v].at \in InLock => connectMu'[user[v].state] = v
    /\ \A g \in States : g # Newest /\ g \notin toClose =>
         server'[g].session = 0 /\ ~(r.at = "connect" /\ r.state = g)

LEMMA UserMovesKeep ==
    ASSUME McpInv, NEW u, NEW r, Becomes(u, r), LinkFits(u, r), executed' = executed,
           u \in ToolCalls => CallFits(r, executed[u])
    PROVE  McpInv'
<1>1. /\ McpShape /\ LockHeld /\ OldIsClosed
      /\ \A c \in ToolCalls : CallFits(user[c], executed[c])
  BY DEF McpInv
<1>2. /\ user' \in [Users -> UserRecords] /\ u \in Users /\ user'[u] = r
      /\ \A v \in Users : v # u => user'[v] = user[v]
  BY <1>1 DEF Becomes, McpShape
<1>3. /\ server' \in Seq(ServerRecords) /\ Len(server') = Len(server) /\ Len(server) >= 1
      /\ connectMu' \in Seq(Users \cup {Free}) /\ Len(connectMu') = Len(server)
      /\ sessions' \in Nat /\ offered' \in Nat /\ toClose' = toClose
  BY <1>1 DEF LinkFits, McpShape
<1>4. States' = States /\ Newest' = Newest
  BY <1>3 DEF States, Newest
<1>5. McpShape'
  <2>1. ASSUME NEW v \in Users, user'[v].at \notin {"rest", "done"}
        PROVE  user'[v].state \in States'
    BY <1>1, <1>2, <1>4, <2>1 DEF LinkFits, McpShape
  <2> QED
    BY <1>1, <1>2, <1>3, <2>1 DEF McpShape
<1>6. LockHeld'
  BY <1>1, <1>2 DEF LinkFits, LockHeld
<1>7. OldIsClosed'
  BY <1>1, <1>2, <1>3, <1>4 DEF LinkFits, OldIsClosed
<1>8. \A c \in ToolCalls : CallFits(user[c], executed[c])'
  <2>1. ASSUME NEW c \in ToolCalls PROVE CallFits(user'[c], executed[c])
    BY <1>1, <1>2 DEF Users
  <2>2. ASSUME NEW c \in ToolCalls PROVE CallFits(user[c], executed[c])'
    BY <2>1 DEF CallFits
  <2> QED
    BY <2>2
<1> QED
  BY <1>5, <1>6, <1>7, <1>8 DEF McpInv

LEMMA McpInvFields ==
    ASSUME McpInv
    PROVE  /\ server \in Seq(ServerRecords) /\ Len(server) >= 1
           /\ connectMu \in Seq(Users \cup {Free}) /\ Len(connectMu) = Len(server)
           /\ sessions \in Nat /\ offered \in Nat
           /\ user \in [Users -> UserRecords] /\ executed \in [ToolCalls -> Nat]
           /\ \A u \in Users : user[u].at \notin {"rest", "done"} => user[u].state \in States
           /\ LockHeld /\ OldIsClosed
           /\ \A c \in ToolCalls : CallFits(user[c], executed[c])
  BY DEF McpInv, McpShape

\* A step beside the lock.
LEMMA LinkStays ==
    ASSUME McpInv, NEW u \in Users, NEW r, UNCHANGED link, r.at \notin InLock,
           r.at \notin {"rest", "done"} => r.state \in States
    PROVE  LinkFits(u, r)
<1>1. UNCHANGED <<server, connectMu, toClose, sessions, offered>>
  BY DEF link
<1>2. "connect" \in InLock
  BY DEF InLock
<1> QED
  BY <1>1, <1>2, McpInvFields DEF LinkFits, LockHeld, OldIsClosed

\* Whoever has the lock works on its state, and gives the lock back.
LEMMA UnlockFits ==
    ASSUME McpInv, NEW u \in Users, user[u].at \in InLock, NEW r, Unlocks(u),
           server' \in Seq(ServerRecords), Len(server') = Len(server),
           \A g \in States : server'[g].session \in {0, server[g].session},
           UNCHANGED <<sessions, offered, toClose>>,
           r.at \notin InLock, r.at \notin {"rest", "done"} => r.state \in States
    PROVE  LinkFits(u, r)
<1>1. /\ connectMu \in Seq(Users \cup {Free}) /\ Len(connectMu) = Len(server)
      /\ sessions \in Nat /\ offered \in Nat /\ LockHeld /\ OldIsClosed
      /\ \A v \in Users : user[v].at \in InLock => user[v].state \in States
  BY McpInvFields DEF InLock
<1>2. PICK g : g = user[u].state
  OBVIOUS
<1>3. g \in 1..Len(connectMu) /\ connectMu[g] = u
  BY <1>1, <1>2 DEF LockHeld, States
<1>4. /\ connectMu' = [connectMu EXCEPT ![g] = Free] /\ connectMu' \in Seq(Users \cup {Free})
      /\ Len(connectMu') = Len(server)
  BY <1>1, <1>2, <1>3 DEF Unlocks
<1>5. ASSUME NEW v \in Users, v # u, user[v].at \in InLock
      PROVE  connectMu'[user[v].state] = v
  <2>1. /\ connectMu[user[v].state] = v /\ user[v].state \in 1..Len(connectMu)
        /\ user[v].state # g
    BY <1>1, <1>3, <1>5 DEF LockHeld, States
  <2> QED
    BY <1>1, <1>4, <2>1
<1>6. "connect" \in InLock
  BY DEF InLock
<1> QED
  BY <1>1, <1>4, <1>5, <1>6 DEF LinkFits, OldIsClosed

\* ... or keeps it.
LEMMA KeepsLockFits ==
    ASSUME McpInv, NEW u \in Users, user[u].at \in InLock, NEW r,
           connectMu' = connectMu, sessions' \in Nat, UNCHANGED <<offered, toClose>>,
           server' \in Seq(ServerRecords), Len(server') = Len(server),
           \A g \in States : \/ server'[g].session \in {0, server[g].session}
                             \/ g = user[u].state /\ (g = Newest \/ user[u].at = "connect"),
           r.at \in InLock, r.state = user[u].state,
           r.at = "connect" => r.state = Newest
    PROVE  LinkFits(u, r)
<1>1. /\ connectMu \in Seq(Users \cup {Free}) /\ Len(connectMu) = Len(server)
      /\ sessions \in Nat /\ offered \in Nat /\ LockHeld /\ OldIsClosed
      /\ user[u].state \in States
  BY McpInvFields DEF InLock
<1>2. connectMu'[r.state] = u
  BY <1>1 DEF LockHeld
<1>3. ASSUME NEW g \in States, g # Newest, g \notin toClose
      PROVE  server'[g].session = 0 /\ ~(r.at = "connect" /\ r.state = g)
  <2>1. server[g].session = 0 /\ (user[u].at = "connect" => user[u].state # g)
    BY <1>1, <1>3 DEF OldIsClosed
  <2> QED
    BY <1>3, <2>1
<1> QED
  BY <1>1, <1>2, <1>3 DEF LinkFits, LockHeld

\* What a call returns is what the server did of it.
Reports == {"none", "ok", "unknown", "not dispatched"}

LEMMA ReturnsFits ==
    ASSUME McpInv, NEW u \in Users, NEW how \in Reports, Returns(u, how)
    PROVE  \E r : /\ Becomes(u, r) /\ r.at = "done" /\ r.result = how /\ r.want = user[u].want
                  /\ r.tried = 0
<1>1. user[u] \in UserRecords
  BY McpInvFields
<1>2. PICK r : r = [Asleep EXCEPT !.at = "done", !.result = how, !.want = user[u].want]
  OBVIOUS
<1>3. Asleep \in UserRecords /\ Asleep.tried = 0 /\ user[u].want \in Nat
  BY <1>1 DEF Asleep, UserRecords, Unsents
<1>4. /\ r \in UserRecords /\ r.at = "done" /\ r.result = how /\ r.want = user[u].want
      /\ r.tried = 0
  BY <1>2, <1>3 DEF UserRecords, Reports
<1>5. Becomes(u, r)
  BY <1>2, <1>4 DEF Returns, Becomes
<1> QED
  BY <1>4, <1>5

LEMMA ReturnedFits ==
    ASSUME NEW q \in UserRecords, NEW n \in Nat, CallFits(q, n), NEW r \in UserRecords,
           r.at = "done", r.want = q.want,
           \/ r.result \in {"none", "unknown"}
           \/ r.result = "ok" /\ n > 0
           \/ r.result = "not dispatched" /\ n = 0,
           q.at # "rest" \/ n = 0
    PROVE  CallFits(r, n)
  BY DEF CallFits, Unsents, InLock

LEMMA UnsentFits ==
    ASSUME McpInv, NEW u \in Users, Unsent(u), user[u].at # "done"
    PROVE  \E r : /\ Becomes(u, r) /\ r.at = "done"
                  /\ u \in ToolCalls => CallFits(r, executed[u])
<1>1. user[u] \in UserRecords /\ executed \in [ToolCalls -> Nat]
  BY McpInvFields
<1>2. CASE u = Catalog
  <2>1. Returns(u, "none")
    BY <1>2 DEF Unsent
  <2>2. "none" \in Reports
    BY DEF Reports
  <2> QED
    BY <1>2, <2>1, <2>2, ReturnsFits, McpAssumption
<1>3. CASE u # Catalog
  <2>1. u \in ToolCalls /\ CallFits(user[u], executed[u]) /\ executed[u] \in Nat
    BY <1>1, <1>3, McpInvFields DEF Users
  <2>2. ASSUME NEW how \in Reports, Returns(u, how), how \in {"unknown", "not dispatched"},
               how = "not dispatched" => user[u].tried = 0
        PROVE  \E r : Becomes(u, r) /\ r.at = "done" /\ CallFits(r, executed[u])
    <3>0. u \in Users /\ how \in Reports /\ Returns(u, how) /\ McpInv
      BY <2>2
    <3> HIDE <2>1, <2>2, <1>1, <1>3
    <3>1. PICK r : /\ Becomes(u, r) /\ r.at = "done" /\ r.result = how
                   /\ r.want = user[u].want /\ r.tried = 0
      BY <3>0, ReturnsFits, SMTT(30)
    <3>2. /\ how = "not dispatched" => executed[u] = 0
          /\ user[u].at = "rest" => executed[u] = 0
      BY <2>1, <2>2 DEF CallFits
    <3>3. CallFits(r, executed[u])
      BY <1>1, <2>1, <2>2, <3>1, <3>2, ReturnedFits DEF Becomes
    <3> QED
      BY <3>1, <3>3
  <2>3. CASE user[u].tried = 0
    <3>1. Returns(u, "not dispatched") /\ "not dispatched" \in Reports
      BY <1>3, <2>3 DEF Unsent, Reports
    <3> QED
      BY <2>2, <2>3, <3>1
  <2>4. CASE user[u].tried # 0
    <3>1. Returns(u, "unknown") /\ "unknown" \in Reports
      BY <1>3, <2>4 DEF Unsent, Reports
    <3> QED
      BY <2>2, <3>1
  <2> QED
    BY <2>3, <2>4
<1> QED
  BY <1>2, <1>3

\* A step of a user that is about to send, or is not a call.
LEMMA MovedFits ==
    ASSUME McpInv, NEW u \in Users, NEW at \in Unsents \ {"rest"}, Moves(u, at),
           u \in ToolCalls => user[u].at \in Unsents \ {"rest"}
    PROVE  \E r : /\ Becomes(u, r) /\ r.at = at /\ r.state = user[u].state
                  /\ u \in ToolCalls => CallFits(r, executed[u])
<1>1. user[u] \in UserRecords
  BY McpInvFields
<1>2. PICK r : r = [user[u] EXCEPT !.at = at]
  OBVIOUS
<1>3. /\ r \in UserRecords /\ r.at = at /\ r.state = user[u].state /\ r.tried = user[u].tried
      /\ r.want = user[u].want /\ r.result = user[u].result
  BY <1>1, <1>2 DEF UserRecords
<1>4. Becomes(u, r)
  BY <1>2, <1>3 DEF Moves, Becomes
<1>5. u \in ToolCalls => CallFits(r, executed[u])
  <2>1. ASSUME u \in ToolCalls PROVE CallFits(user[u], executed[u])
    BY <2>1, McpInvFields
  <2> QED
    BY <1>1, <1>3, <2>1, SameCallFits
<1> QED
  BY <1>3, <1>4, <1>5

\* What is known of a user at its place.
LEMMA UserIs ==
    ASSUME McpInv, NEW u \in Users, user[u].at \notin {"rest", "done"}
    PROVE  /\ user[u] \in UserRecords /\ user[u].state \in States
           /\ user[u].at \in InLock => connectMu[user[u].state] = u
  BY McpInvFields DEF LockHeld

LEMMA LockKeeps ==
    ASSUME McpInv, NEW u \in Users, Lock(u)
    PROVE  McpInv'
<1>1. /\ connectMu \in Seq(Users \cup {Free}) /\ Len(connectMu) = Len(server)
      /\ server \in Seq(ServerRecords) /\ sessions \in Nat /\ offered \in Nat
      /\ LockHeld /\ OldIsClosed
      /\ \A v \in Users : user[v].at \in InLock => user[v].state \in States
  BY McpInvFields DEF InLock
<1>2. PICK g : g = user[u].state
  OBVIOUS
<1>3. /\ user[u].at = "lock" /\ g \in States /\ connectMu[g] = Free
      /\ connectMu' = [connectMu EXCEPT ![g] = u] /\ executed' = executed
      /\ UNCHANGED <<server, toClose, sessions, offered>> /\ Moves(u, "check")
  BY <1>2, UserIs DEF Lock
<1>4. PICK r : /\ Becomes(u, r) /\ r.at = "check" /\ r.state = g
               /\ u \in ToolCalls => CallFits(r, executed[u])
  BY <1>2, <1>3, MovedFits DEF Unsents, InLock
<1>5. /\ connectMu' \in Seq(Users \cup {Free}) /\ Len(connectMu') = Len(server)
      /\ connectMu'[g] = u
  BY <1>1, <1>3 DEF States
<1>6. ASSUME NEW v \in Users, v # u, user[v].at \in InLock
      PROVE  connectMu'[user[v].state] = v
  <2>1. connectMu[user[v].state] = v /\ user[v].state \in States
    BY <1>1, <1>6 DEF LockHeld
  <2>2. user[v].state # g
    BY <1>3, <2>1, McpAssumption
  <2> QED
    BY <1>1, <1>3, <2>1, <2>2 DEF States
<1>7. LinkFits(u, r)
  BY <1>1, <1>3, <1>4, <1>5, <1>6 DEF LinkFits, OldIsClosed
<1> QED
  BY <1>3, <1>4, <1>7, UserMovesKeep

\* A session that was found dead, or one that was left as it is.
LEMMA CheckKeeps ==
    ASSUME McpInv, NEW u \in Users, Check(u)
    PROVE  McpInv'
<1>1. /\ server \in Seq(ServerRecords) /\ sessions \in Nat
      /\ user[u].at = "check" /\ user[u].state \in States /\ user[u].at \in InLock
      /\ executed' = executed /\ UNCHANGED <<toClose, sessions, offered>>
  BY McpInvFields, UserIs DEF Check, InLock
<1>2. CASE user[u].state # Newest
  <2>1. Unlocks(u) /\ Unsent(u) /\ server' = server
    BY <1>2 DEF Check
  <2>2. PICK r : /\ Becomes(u, r) /\ r.at = "done"
                 /\ u \in ToolCalls => CallFits(r, executed[u])
    BY <1>1, <2>1, UnsentFits
  <2>3. LinkFits(u, r)
    BY <1>1, <2>1, <2>2, UnlockFits DEF InLock
  <2> QED
    BY <1>1, <2>2, <2>3, UserMovesKeep
<1>3. CASE user[u].state = Newest
  <2>1. PICK g : g = user[u].state /\ g \in States
    BY <1>1
  <2>2. PICK found \in BOOLEAN :
          /\ server' = IF found THEN [server EXCEPT ![g] = NoSession] ELSE server
          /\ \/ Unlocks(u) /\ Ready(u)
             \/ Moves(u, "list") /\ connectMu' = connectMu
             \/ Moves(u, "connect") /\ connectMu' = connectMu
    BY <1>3, <2>1 DEF Check, Consider
  <2>3. /\ server' \in Seq(ServerRecords) /\ Len(server') = Len(server)
        /\ \A h \in States : server'[h].session \in {0, server[h].session}
    <3>1. NoSession \in ServerRecords /\ NoSession.session = 0
      BY DEF NoSession, ServerRecords
    <3> QED
      BY <1>1, <2>1, <2>2, <3>1 DEF States
  <2>4. CASE Unlocks(u) /\ Ready(u)
    <3>1. CASE u = Catalog
      <4>1. PICK r : Becomes(u, r) /\ r.at = "done"
        <5>1. Returns(u, "none")
          BY <2>4, <3>1 DEF Ready
        <5>2. "none" \in Reports
          BY DEF Reports
        <5>3. \E r : /\ Becomes(u, r) /\ r.at = "done" /\ r.result = "none"
                     /\ r.want = user[u].want /\ r.tried = 0
          BY <5>1, <5>2, ReturnsFits
        <5> QED
          BY <5>3
      <4>2. LinkFits(u, r)
        BY <1>1, <2>3, <2>4, <4>1, UnlockFits DEF InLock
      <4> QED
        BY <1>1, <3>1, <4>1, <4>2, UserMovesKeep, McpAssumption
    <3>2. CASE u # Catalog
      <4>1. PICK r : /\ Becomes(u, r) /\ r.at = "take" /\ r.state = user[u].state
                     /\ u \in ToolCalls => CallFits(r, executed[u])
        BY <1>1, <2>4, <3>2, MovedFits DEF Ready, Unsents, InLock
      <4>2. LinkFits(u, r)
        BY <1>1, <2>3, <2>4, <4>1, UnlockFits DEF InLock
      <4> QED
        BY <1>1, <4>1, <4>2, UserMovesKeep
    <3> QED
      BY <3>1, <3>2
  <2>5. ASSUME NEW at \in {"list", "connect"}, Moves(u, at), connectMu' = connectMu
        PROVE  McpInv'
    <3>1. PICK r : /\ Becomes(u, r) /\ r.at = at /\ r.state = user[u].state
                   /\ u \in ToolCalls => CallFits(r, executed[u])
      BY <1>1, <2>5, MovedFits DEF Unsents, InLock
    <3>2. r.at \in InLock /\ r.state = Newest
      BY <1>3, <3>1 DEF InLock
    <3>3. LinkFits(u, r)
      BY <1>1, <2>3, <2>5, <3>1, <3>2, KeepsLockFits
    <3> QED
      BY <1>1, <3>1, <3>3, UserMovesKeep
  <2> QED
    BY <2>2, <2>4, <2>5
<1> QED
  BY <1>2, <1>3

\* A connection is made for the newest state, or for one about to be closed.
LEMMA JoinKeeps ==
    ASSUME McpInv, NEW u \in Users, Join(u)
    PROVE  McpInv'
<1>1. /\ server \in Seq(ServerRecords) /\ sessions \in Nat
      /\ user[u].at = "connect" /\ user[u].state \in States /\ user[u].at \in InLock
      /\ executed' = executed /\ UNCHANGED <<toClose, offered>>
  BY McpInvFields, UserIs DEF Join, InLock
<1>2. PICK g : g = user[u].state /\ g \in States
  BY <1>1
<1>3. CASE /\ sessions' = sessions + 1 /\ Moves(u, "list") /\ connectMu' = connectMu
           /\ server' = [server EXCEPT ![g].session = sessions + 1]
  <2>1. PICK r : /\ Becomes(u, r) /\ r.at = "list" /\ r.state = user[u].state
                 /\ u \in ToolCalls => CallFits(r, executed[u])
    BY <1>1, <1>3, MovedFits DEF Unsents, InLock
  <2>2. r.at \in InLock
    BY <2>1 DEF InLock
  <2>3. /\ server' \in Seq(ServerRecords) /\ Len(server') = Len(server)
        /\ \A h \in States : h # g => server'[h] = server[h]
    <3>1. PICK s : s = [server[g] EXCEPT !.session = sessions + 1]
      OBVIOUS
    <3>2. s \in ServerRecords
      <4>1. server[g] \in ServerRecords /\ sessions + 1 \in Nat
        BY <1>1, <1>2 DEF States
      <4> QED
        BY <3>1, <4>1 DEF ServerRecords
    <3>3. server' = [server EXCEPT ![g] = s]
      BY <1>3, <3>1
    <3> QED
      BY <1>1, <1>2, <3>2, <3>3 DEF States
  <2>4. \A h \in States : \/ server'[h].session \in {0, server[h].session}
                          \/ h = user[u].state /\ (h = Newest \/ user[u].at = "connect")
    BY <1>1, <1>2, <2>3
  <2>5. LinkFits(u, r)
    BY <1>1, <1>3, <2>1, <2>2, <2>3, <2>4, KeepsLockFits
  <2> QED
    BY <1>1, <2>1, <2>5, UserMovesKeep
<1>4. CASE Unlocks(u) /\ Unsent(u) /\ UNCHANGED <<sessions, server>>
  <2>1. PICK r : /\ Becomes(u, r) /\ r.at = "done"
                 /\ u \in ToolCalls => CallFits(r, executed[u])
    BY <1>1, <1>4, UnsentFits
  <2>2. LinkFits(u, r)
    BY <1>1, <1>4, <2>1, UnlockFits DEF InLock
  <2> QED
    BY <1>1, <2>1, <2>2, UserMovesKeep
<1> QED
  BY <1>2, <1>3, <1>4 DEF Join

LEMMA ListToolsKeeps ==
    ASSUME McpInv, NEW u \in Users, ListTools(u)
    PROVE  McpInv'
<1>1. /\ server \in Seq(ServerRecords) /\ sessions \in Nat /\ offered \in Nat
      /\ user[u].at = "list" /\ user[u].state \in States /\ user[u].at \in InLock
      /\ user[u] \in UserRecords
      /\ executed' = executed /\ UNCHANGED <<toClose, sessions, offered>>
  BY McpInvFields, UserIs DEF ListTools, InLock
<1>2. PICK g : g = user[u].state /\ g \in States
  BY <1>1
<1>3. CASE /\ user' = [user EXCEPT ![u].at = "install", ![u].found = offered]
           /\ UNCHANGED <<server, connectMu>>
  <2>1. PICK r : r = [user[u] EXCEPT !.at = "install", !.found = offered]
    OBVIOUS
  <2>2. /\ r \in UserRecords /\ r.at = "install" /\ r.state = user[u].state
        /\ r.tried = user[u].tried /\ r.want = user[u].want /\ r.result = user[u].result
    BY <1>1, <2>1 DEF UserRecords, Unsents, InLock
  <2>3. Becomes(u, r)
    BY <1>3, <2>1, <2>2 DEF Becomes
  <2>4. u \in ToolCalls => CallFits(r, executed[u])
    <3>1. u \in ToolCalls => CallFits(user[u], executed[u])
      BY McpInvFields
    <3>2. user[u].at \in Unsents \ {"rest"} /\ r.at \in Unsents \ {"rest"}
      BY <1>1, <2>2 DEF Unsents, InLock
    <3> QED
      BY <1>1, <2>2, <3>1, <3>2, SameCallFits
  <2>5. r.at \in InLock
    BY <2>2 DEF InLock
  <2>6. LinkFits(u, r)
    BY <1>1, <1>3, <2>2, <2>5, KeepsLockFits
  <2> QED
    BY <1>1, <2>3, <2>4, <2>6, UserMovesKeep
<1>4. CASE /\ Unlocks(u) /\ Unsent(u)
           /\ \/ server' = server
              \/ server' = [server EXCEPT ![g].tool = 0, ![g].dirty = TRUE]
  <2>1. PICK r : /\ Becomes(u, r) /\ r.at = "done"
                 /\ u \in ToolCalls => CallFits(r, executed[u])
    BY <1>1, <1>4, UnsentFits
  <2>2. /\ server' \in Seq(ServerRecords) /\ Len(server') = Len(server)
        /\ \A h \in States : server'[h].session \in {0, server[h].session}
    <3>1. CASE server' = server
      BY <1>1, <3>1
    <3>2. CASE server' = [server EXCEPT ![g].tool = 0, ![g].dirty = TRUE]
      <4>1. PICK s : s = [server[g] EXCEPT !.tool = 0, !.dirty = TRUE]
        OBVIOUS
      <4>2. s \in ServerRecords /\ s.session = server[g].session
        <5>1. server[g] \in ServerRecords
          BY <1>1, <1>2 DEF States
        <5> QED
          BY <4>1, <5>1 DEF ServerRecords
      <4>3. server' = [server EXCEPT ![g] = s]
        BY <3>2, <4>1
      <4> QED
        BY <1>1, <1>2, <4>2, <4>3 DEF States
    <3> QED
      BY <1>4, <3>1, <3>2
  <2>3. LinkFits(u, r)
    BY <1>1, <1>4, <2>1, <2>2, UnlockFits DEF InLock
  <2> QED
    BY <1>1, <2>1, <2>3, UserMovesKeep
<1> QED
  BY <1>2, <1>3, <1>4 DEF ListTools

LEMMA InstallKeeps ==
    ASSUME McpInv, NEW u \in Users, InstallTools(u)
    PROVE  McpInv'
<1>1. /\ server \in Seq(ServerRecords) /\ sessions \in Nat /\ offered \in Nat
      /\ user[u].at = "install" /\ user[u].state \in States /\ user[u].at \in InLock
      /\ user[u].found \in Nat
      /\ executed' = executed /\ UNCHANGED <<toClose, sessions, offered>>
      /\ Unlocks(u) /\ Ready(u)
  BY McpInvFields, UserIs DEF InstallTools, InLock, UserRecords
<1>2. PICK g : g = user[u].state /\ g \in States
  BY <1>1
<1>3. /\ server' \in Seq(ServerRecords) /\ Len(server') = Len(server)
      /\ \A h \in States : server'[h].session \in {0, server[h].session}
  <2>1. PICK s : s = [server[g] EXCEPT !.tool = user[u].found, !.dirty = FALSE]
    OBVIOUS
  <2>2. s \in ServerRecords /\ s.session = server[g].session
    <3>1. server[g] \in ServerRecords
      BY <1>1, <1>2 DEF States
    <3> QED
      BY <1>1, <2>1, <3>1 DEF ServerRecords
  <2>3. server' = [server EXCEPT ![g] = s]
    BY <1>2, <2>1 DEF InstallTools
  <2> QED
    BY <1>1, <1>2, <2>2, <2>3 DEF States
<1>4. CASE u = Catalog
  <2>1. PICK r : Becomes(u, r) /\ r.at = "done"
    <3>1. Returns(u, "none") /\ "none" \in Reports
      BY <1>1, <1>4 DEF Ready, Reports
    <3> QED
      BY <3>1, ReturnsFits
  <2>2. LinkFits(u, r)
    BY <1>1, <1>3, <2>1, UnlockFits DEF InLock
  <2> QED
    BY <1>1, <1>4, <2>1, <2>2, UserMovesKeep, McpAssumption
<1>5. CASE u # Catalog
  <2>1. PICK r : /\ Becomes(u, r) /\ r.at = "take" /\ r.state = user[u].state
                 /\ u \in ToolCalls => CallFits(r, executed[u])
    BY <1>1, <1>5, MovedFits DEF Ready, Unsents, InLock
  <2>2. LinkFits(u, r)
    BY <1>1, <1>3, <2>1, UnlockFits DEF InLock
  <2> QED
    BY <1>1, <2>1, <2>2, UserMovesKeep
<1> QED
  BY <1>4, <1>5

\* A state whose lock is free has nobody who connects it.
LEMMA FreeIsQuiet ==
    ASSUME McpInv, NEW g \in States, connectMu[g] = Free, NEW u \in Users, user[u].at \in InLock
    PROVE  user[u].state # g
<1>1. user[u].at \notin {"rest", "done"}
  BY DEF InLock
<1>2. connectMu[user[u].state] = u
  BY <1>1, UserIs
<1> QED
  BY <1>2, McpAssumption

\* The session of one state is taken away, under its free lock.
LEMMA ClosedFits ==
    ASSUME McpInv, NEW g \in States, NEW s \in ServerRecords, s.session = 0,
           server' = [server EXCEPT ![g] = s]
    PROVE  /\ server' \in Seq(ServerRecords) /\ Len(server') = Len(server)
           /\ \A h \in States : server'[h].session \in {0, server[h].session}
           /\ server'[g].session = 0
<1>1. server \in Seq(ServerRecords)
  BY McpInvFields
<1> QED
  BY <1>1 DEF States

\* A step of a user that has no lock and takes none.
LEMMA NoLockFits ==
    ASSUME McpInv, NEW u \in Users, NEW r,
           server' \in Seq(ServerRecords), Len(server') = Len(server),
           \A h \in States : server'[h].session \in {0, server[h].session},
           UNCHANGED <<connectMu, toClose, sessions, offered>>, r.at \notin InLock,
           r.at \notin {"rest", "done"} => r.state \in States
    PROVE  LinkFits(u, r)
<1>1. "connect" \in InLock
  BY DEF InLock
<1>2. /\ connectMu \in Seq(Users \cup {Free}) /\ Len(connectMu) = Len(server)
      /\ sessions \in Nat /\ offered \in Nat /\ LockHeld /\ OldIsClosed
  BY McpInvFields
<1> QED
  BY <1>1, <1>2 DEF LinkFits, LockHeld, OldIsClosed

\* A call is given to a state, or asks for the connection.
LEMMA BeginKeeps ==
    ASSUME McpInv, (\E c \in ToolCalls : Route(c)) \/ (\E refresh \in BOOLEAN : Consult(refresh))
    PROVE  McpInv'
<1>1. /\ server \in Seq(ServerRecords) /\ Len(server) >= 1 /\ Newest \in States
      /\ user \in [Users -> UserRecords] /\ executed' = executed /\ UNCHANGED link
      /\ server[Newest] \in ServerRecords
  <2>1. /\ server \in Seq(ServerRecords) /\ Len(server) >= 1 /\ user \in [Users -> UserRecords]
    BY McpInvFields
  <2>2. Newest \in States /\ server[Newest] \in ServerRecords
    BY <2>1, SMTT(30) DEF Newest, States
  <2>3. executed' = executed /\ UNCHANGED link
    BY DEF Route, Consult
  <2> QED
    BY <2>1, <2>2, <2>3
<1>2. ASSUME NEW c \in ToolCalls, Route(c) PROVE McpInv'
  <2>1. c \in Users /\ user[c].at = "rest" /\ user[c] \in UserRecords
    BY <1>1, <1>2 DEF Route, Users
  <2>2. CASE Unsent(c)
    <3>1. PICK r : Becomes(c, r) /\ r.at = "done" /\ CallFits(r, executed[c])
      BY <1>2, <2>1, <2>2, UnsentFits
    <3>2. LinkFits(c, r)
      BY <1>1, <2>1, <3>1, LinkStays DEF InLock
    <3> QED
      BY <1>1, <3>1, <3>2, UserMovesKeep
  <2>3. CASE user' = [user EXCEPT ![c].at = "lock", ![c].state = Newest,
                                  ![c].want = server[Newest].tool]
    <3>1. PICK n \in Nat : n = server[Newest].tool
      BY <1>1 DEF ServerRecords
    <3>2. PICK r : r = [user[c] EXCEPT !.at = "lock", !.state = Newest, !.want = n]
      OBVIOUS
    <3>3. "lock" \in Unsents /\ Newest \in Nat
      BY <1>1 DEF Unsents, Newest
    <3>4. /\ r \in UserRecords /\ r.at = "lock" /\ r.state = Newest
          /\ r.result = user[c].result
      BY <2>1, <3>2, <3>3 DEF UserRecords
    <3>5. Becomes(c, r)
      BY <2>1, <2>3, <3>1, <3>2, <3>4 DEF Becomes
    <3>6. executed[c] = 0 /\ r.result = "none"
      BY <1>2, <2>1, <3>4, McpInvFields DEF CallFits
    <3>7. CallFits(r, executed[c])
      BY <3>4, <3>6 DEF CallFits
    <3>8. LinkFits(c, r)
      BY <1>1, <2>1, <3>4, LinkStays DEF InLock
    <3> QED
      BY <1>1, <3>5, <3>7, <3>8, UserMovesKeep
  <2> QED
    BY <1>2, <2>2, <2>3 DEF Route
<1>3. ASSUME NEW refresh \in BOOLEAN, Consult(refresh) PROVE McpInv'
  <2>1. Catalog \in Users /\ user[Catalog] \in UserRecords /\ Catalog \notin ToolCalls
    BY <1>1, McpAssumption DEF Users
  <2>2. PICK at \in {"close", "lock"} : at = IF refresh THEN "close" ELSE "lock"
    OBVIOUS
  <2>3. PICK r : r = [user[Catalog] EXCEPT !.at = at, !.state = Newest, !.force = refresh]
    OBVIOUS
  <2>4. at \in Unsents \cup {"close", "flight", "disconnect", "done"} /\ Newest \in Nat
    BY <1>1 DEF Unsents, Newest
  <2>5. r \in UserRecords /\ r.at = at /\ r.state = Newest
    BY <1>3, <2>1, <2>3, <2>4 DEF UserRecords
  <2>6. Becomes(Catalog, r)
    <3>1. user' = [user EXCEPT ![Catalog].at = at, ![Catalog].state = Newest,
                               ![Catalog].force = refresh]
      BY <1>3, <2>2 DEF Consult
    <3>2. user' = [user EXCEPT ![Catalog] = r]
      BY <2>3, <3>1
    <3> QED
      BY <2>1, <2>5, <3>2 DEF Becomes
  <2>7. LinkFits(Catalog, r)
    BY <1>1, <2>1, <2>2, <2>5, LinkStays DEF InLock
  <2> QED
    BY <1>1, <2>1, <2>6, <2>7, UserMovesKeep
<1> QED
  BY <1>2, <1>3

LEMMA CloseFirstKeeps ==
    ASSUME McpInv, CloseFirst
    PROVE  McpInv'
<1>1. Catalog \in Users /\ Catalog \notin ToolCalls
  BY McpAssumption DEF Users
<1>2. /\ user[Catalog].at = "close" /\ Closes(user[Catalog].state) /\ Moves(Catalog, "lock")
      /\ UNCHANGED <<connectMu, toClose, sessions, offered, executed>>
  BY DEF CloseFirst
<1>3. PICK g : g = user[Catalog].state /\ g \in States
  BY <1>1, <1>2, UserIs
<1>4. NoSession \in ServerRecords /\ NoSession.session = 0
  BY DEF NoSession, ServerRecords
<1>5. server' = [server EXCEPT ![g] = NoSession]
  BY <1>2, <1>3 DEF Closes
<1>6. PICK r : Becomes(Catalog, r) /\ r.at = "lock" /\ r.state = user[Catalog].state
  BY <1>1, <1>2, MovedFits DEF Unsents
<1>7. LinkFits(Catalog, r)
  BY <1>1, <1>2, <1>3, <1>4, <1>5, <1>6, ClosedFits, NoLockFits DEF InLock
<1> QED
  BY <1>1, <1>2, <1>6, <1>7, UserMovesKeep

\* The session is taken, and the call is sent: once more only where it may be.
LEMMA TakeAndSendKeep ==
    ASSUME McpInv, NEW c \in ToolCalls, Take(c) \/ SendCall(c)
    PROVE  McpInv'
<1>1. /\ c \in Users /\ user[c] \in UserRecords /\ executed' = executed /\ UNCHANGED link
      /\ user[c].at \in {"take", "send"} /\ user[c].state \in States
      /\ CallFits(user[c], executed[c]) /\ server \in Seq(ServerRecords)
      /\ executed[c] \in Nat
  BY McpInvFields DEF Take, SendCall, Users
<1>2. CASE Unsent(c)
  <2>1. PICK r : Becomes(c, r) /\ r.at = "done" /\ CallFits(r, executed[c])
    BY <1>1, <1>2, UnsentFits
  <2>2. LinkFits(c, r)
    BY <1>1, <2>1, LinkStays DEF InLock
  <2> QED
    BY <1>1, <2>1, <2>2, UserMovesKeep
<1>3. ASSUME NEW r \in UserRecords, user' = [user EXCEPT ![c] = r], r.at \in {"send", "flight"},
             r.state = user[c].state, CallFits(r, executed[c])
      PROVE  McpInv'
  <2>1. LinkFits(c, r)
    BY <1>1, <1>3, LinkStays DEF InLock
  <2>2. Becomes(c, r)
    BY <1>1, <1>3 DEF Becomes
  <2> QED
    BY <1>1, <1>3, <2>1, <2>2, UserMovesKeep
<1>4. CASE Take(c) /\ ~Unsent(c)
  <2>1. PICK n : n = server[user[c].state].session
    OBVIOUS
  <2>2. n \in Nat
    <3>1. server[user[c].state] \in ServerRecords
      BY <1>1 DEF States
    <3> QED
      BY <2>1, <3>1 DEF ServerRecords
  <2>3. PICK r : r = [user[c] EXCEPT !.at = "send", !.session = n]
    OBVIOUS
  <2>4. user' = [user EXCEPT ![c] = r] /\ user[c].at = "take"
    BY <1>4, <2>1, <2>3 DEF Take
  <2>5. /\ r \in UserRecords /\ r.at = "send" /\ r.state = user[c].state
        /\ r.tried = user[c].tried /\ r.want = user[c].want /\ r.result = user[c].result
    BY <1>1, <2>2, <2>3 DEF UserRecords, Unsents
  <2>6. CallFits(r, executed[c])
    <3>1. r.at \in Unsents \ {"rest"} /\ user[c].at \in Unsents \ {"rest"}
      BY <2>4, <2>5 DEF Unsents
    <3> QED
      BY <1>1, <2>5, <3>1, SameCallFits
  <2> QED
    BY <1>3, <2>4, <2>5, <2>6
<1>5. CASE SendCall(c) /\ ~Unsent(c)
  <2>0. user[c].tried \in Nat
    BY <1>1 DEF UserRecords
  <2>1. PICK n \in Nat : n = user[c].tried + 1 /\ n > 0
    BY <2>0
  <2>2. PICK r : r = [user[c] EXCEPT !.at = "flight", !.tried = n, !.ran = FALSE, !.fresh = FALSE]
    OBVIOUS
  <2>3. user' = [user EXCEPT ![c] = r] /\ user[c].at = "send"
    BY <1>5, <2>1, <2>2 DEF SendCall
  <2>4. r \in UserRecords /\ r.at = "flight" /\ r.tried = n /\ r.ran = FALSE
    BY <1>1, <2>2 DEF UserRecords
  <2>5. /\ r.state = user[c].state /\ r.want = user[c].want /\ r.result = user[c].result
    BY <1>1, <2>2 DEF UserRecords
  <2>6. CallFits(r, executed[c])
    <3>1. /\ user[c].want \notin Repeatable => executed[c] = 0
          /\ user[c].result = "none"
      BY <1>1, <2>3 DEF CallFits, Unsents
    <3>2. n > 0
      BY <2>1
    <3> QED
      BY <1>1, <2>4, <2>5, <3>1, <3>2 DEF CallFits
  <2> QED
    BY <1>3, <2>3, <2>4, <2>5, <2>6
<1> QED
  BY <1>2, <1>4, <1>5

\* The call is with the server, or comes back from it.
LEMMA FlightKeeps ==
    ASSUME McpInv, NEW c \in ToolCalls,
           \/ ServerAnswers(c) \/ ServerReports(c) \/ Cancels(c) \/ Inactive(c) \/ Exceeded(c)
           \/ \E rejected \in BOOLEAN : Errs(c, rejected)
    PROVE  McpInv'
<1>1. /\ c \in Users /\ user[c] \in UserRecords /\ executed' = executed /\ UNCHANGED link
      /\ user[c].at = "flight" /\ user[c].state \in States
      /\ CallFits(user[c], executed[c]) /\ executed[c] \in Nat
  BY McpInvFields DEF ServerAnswers, ServerReports, Cancels, Inactive, Exceeded, Errs, Users
<1>2. ASSUME NEW r \in UserRecords, Becomes(c, r), r.at \notin InLock,
             r.at \notin {"rest", "done"} => r.state \in States, CallFits(r, executed[c])
      PROVE  McpInv'
  <2>1. LinkFits(c, r)
    BY <1>1, <1>2, LinkStays
  <2> QED
    BY <1>1, <1>2, <2>1, UserMovesKeep
<1>3. CASE ServerAnswers(c) \/ Cancels(c)
  <2>1. PICK how \in Reports : /\ Returns(c, how) /\ how \in {"ok", "unknown"}
                               /\ (how = "ok" => user[c].ran)
    <3>1. "ok" \in Reports /\ "unknown" \in Reports
      BY DEF Reports
    <3> QED
      BY <1>3, <3>1 DEF ServerAnswers, Cancels
  <2>2. PICK r : Becomes(c, r) /\ r.at = "done" /\ r.result = how /\ r.want = user[c].want
    BY <1>1, <2>1, ReturnsFits
  <2>3. how = "ok" => executed[c] > 0
    BY <1>1, <2>1 DEF CallFits
  <2>4. r \in UserRecords
    BY <2>2 DEF Becomes
  <2>5. CallFits(r, executed[c])
    BY <1>1, <2>1, <2>2, <2>3, <2>4, ReturnedFits
  <2> QED
    BY <1>2, <2>2, <2>4, <2>5 DEF InLock
<1>4. ASSUME NEW fresh \in BOOLEAN, user' = [user EXCEPT ![c].fresh = fresh]
      PROVE  McpInv'
  <2>1. PICK r : r = [user[c] EXCEPT !.fresh = fresh]
    OBVIOUS
  <2>2. r \in UserRecords /\ r.at = "flight" /\ r.state = user[c].state /\ r.again = user[c].again
    BY <1>1, <2>1 DEF UserRecords
  <2>3. /\ r.tried = user[c].tried /\ r.want = user[c].want /\ r.result = user[c].result
        /\ r.ran = user[c].ran
    BY <1>1, <2>1 DEF UserRecords
  <2>4. Becomes(c, r)
    BY <1>1, <1>4, <2>1, <2>2 DEF Becomes
  <2>5. CallFits(r, executed[c])
    BY <1>1, <2>2, <2>3 DEF CallFits
  <2> QED
    BY <1>1, <1>2, <2>2, <2>4, <2>5 DEF InLock
<1>5. ASSUME NEW again \in BOOLEAN,
             user' = [user EXCEPT ![c].at = "disconnect", ![c].again = again],
             again /\ user[c].want \notin Repeatable => ~user[c].ran
      PROVE  McpInv'
  <2>1. PICK r : r = [user[c] EXCEPT !.at = "disconnect", !.again = again]
    OBVIOUS
  <2>2. r \in UserRecords /\ r.at = "disconnect" /\ r.again = again /\ r.state = user[c].state
    BY <1>1, <2>1 DEF UserRecords
  <2>3. /\ r.tried = user[c].tried /\ r.want = user[c].want /\ r.result = user[c].result
    BY <1>1, <2>1 DEF UserRecords
  <2>4. Becomes(c, r)
    BY <1>1, <1>5, <2>1, <2>2 DEF Becomes
  <2>5. CallFits(r, executed[c])
    BY <1>1, <1>5, <2>2, <2>3 DEF CallFits, Unsents, InLock
  <2> QED
    BY <1>1, <1>2, <2>2, <2>4, <2>5 DEF InLock
<1>6. CASE ServerReports(c) \/ Inactive(c) \/ Exceeded(c)
  BY <1>4, <1>5, <1>6 DEF ServerReports, Inactive, Exceeded
<1>7. ASSUME NEW rejected \in BOOLEAN, Errs(c, rejected)
      PROVE  McpInv'
  <2>1. PICK again \in BOOLEAN : again = Retries(c, rejected)
    BY DEF Retries
  <2>2. again /\ user[c].want \notin Repeatable => ~user[c].ran
    BY <1>7, <2>1 DEF Errs, Retries
  <2>3. user' = [user EXCEPT ![c].at = "disconnect", ![c].again = again]
    BY <1>7, <2>1 DEF Errs
  <2> QED
    BY <1>5, <2>2, <2>3
<1> QED
  BY <1>3, <1>6, <1>7

\* The session is given up, and the call goes out again or is over.
LEMMA DisconnectKeeps ==
    ASSUME McpInv, NEW c \in ToolCalls, Disconnects(c)
    PROVE  McpInv'
<1>1. /\ c \in Users /\ user[c] \in UserRecords /\ executed' = executed
      /\ user[c].at = "disconnect" /\ user[c].state \in States
      /\ CallFits(user[c], executed[c]) /\ executed[c] \in Nat
      /\ UNCHANGED <<connectMu, toClose, sessions, offered>>
      /\ server \in Seq(ServerRecords)
  BY McpInvFields DEF Disconnects, Users
<1>2. PICK g : g = user[c].state /\ g \in States
  BY <1>1
<1>3. PICK s : s = [server[g] EXCEPT !.session = 0, !.dirty = TRUE]
  OBVIOUS
<1>4. s \in ServerRecords /\ s.session = 0
  <2>1. server[g] \in ServerRecords
    BY <1>1, <1>2 DEF States
  <2> QED
    BY <1>3, <2>1 DEF ServerRecords
<1>5. server' = [server EXCEPT ![g] = s]
  BY <1>2, <1>3 DEF Disconnects
<1>6. ASSUME NEW r, Becomes(c, r), r.at \in {"lock", "done"}, r.at = "lock" => r.state \in States,
             CallFits(r, executed[c])
      PROVE  McpInv'
  <2>1. LinkFits(c, r)
    BY <1>1, <1>2, <1>4, <1>5, <1>6, ClosedFits, NoLockFits DEF InLock
  <2> QED
    BY <1>1, <1>6, <2>1, UserMovesKeep
<1>7. CASE user[c].again
  <2>1. user' = [user EXCEPT ![c].at = "lock", ![c].force = TRUE]
    BY <1>7 DEF Disconnects
  <2>2. PICK r : r = [user[c] EXCEPT !.at = "lock", !.force = TRUE]
    OBVIOUS
  <2>3. "lock" \in Unsents
    BY DEF Unsents
  <2>4. r \in UserRecords /\ r.at = "lock" /\ r.state = user[c].state
    BY <1>1, <2>2, <2>3 DEF UserRecords
  <2>5. /\ r.tried = user[c].tried /\ r.want = user[c].want /\ r.result = user[c].result
    BY <1>1, <2>2 DEF UserRecords
  <2>6. Becomes(c, r)
    BY <1>1, <2>1, <2>2, <2>4 DEF Becomes
  <2>7. CallFits(r, executed[c])
    BY <1>1, <1>7, <2>4, <2>5 DEF CallFits
  <2> QED
    BY <1>1, <1>6, <2>4, <2>6, <2>7
<1>8. CASE ~user[c].again
  <2>1. Returns(c, "unknown") /\ "unknown" \in Reports
    BY <1>8 DEF Disconnects, Reports
  <2>2. PICK r : Becomes(c, r) /\ r.at = "done" /\ r.result = "unknown" /\ r.want = user[c].want
    BY <1>1, <2>1, ReturnsFits
  <2>3. r \in UserRecords
    BY <2>2 DEF Becomes
  <2>4. CallFits(r, executed[c])
    BY <1>1, <2>2, <2>3, ReturnedFits
  <2> QED
    BY <1>6, <2>2, <2>4
<1> QED
  BY <1>7, <1>8

\* The server runs a call that is with it, and that it has not run yet.
LEMMA RunsKeeps ==
    ASSUME McpInv, NEW c \in ToolCalls, ServerRuns(c)
    PROVE  McpInv'
<1>1. /\ c \in Users /\ user[c] \in UserRecords
      /\ user \in [Users -> UserRecords] /\ executed \in [ToolCalls -> Nat]
      /\ user[c].at = "flight" /\ ~user[c].ran /\ user[c].state \in States
      /\ CallFits(user[c], executed[c]) /\ executed[c] \in Nat
  BY McpInvFields DEF ServerRuns, Users
<1>2. /\ user' = [user EXCEPT ![c].ran = TRUE] /\ executed' = [executed EXCEPT ![c] = @ + 1]
      /\ UNCHANGED link
  BY DEF ServerRuns
<1>3. PICK r : r = [user[c] EXCEPT !.ran = TRUE]
  OBVIOUS
<1>4. r \in UserRecords /\ r.at = "flight" /\ r.ran = TRUE /\ r.state = user[c].state
  BY <1>1, <1>3 DEF UserRecords
<1>5. r.tried = user[c].tried /\ r.want = user[c].want /\ r.result = user[c].result
  BY <1>1, <1>3 DEF UserRecords
<1>6. /\ user' \in [Users -> UserRecords] /\ user'[c] = r
      /\ \A v \in Users : v # c => user'[v] = user[v]
  BY <1>1, <1>2, <1>3, <1>4
<1>7. PICK n \in Nat : n = executed[c] + 1 /\ n > 0
  BY <1>1
<1>8. /\ executed' \in [ToolCalls -> Nat] /\ executed'[c] = n
      /\ \A d \in ToolCalls : d # c => executed'[d] = executed[d]
  BY <1>1, <1>2, <1>7
<1>9. CallFits(r, n)
  <2>1. /\ user[c].tried > 0 /\ user[c].result = "none"
        /\ user[c].want \notin Repeatable => executed[c] = 0
    BY <1>1 DEF CallFits
  <2>2. executed[c] = 0 => n = 1
    BY <1>7
  <2> QED
    BY <1>4, <1>5, <1>7, <2>1, <2>2, <1>1 DEF CallFits, Unsents, InLock
<1>10. UNCHANGED <<server, connectMu, toClose, sessions, offered>>
  BY <1>2 DEF link
<1>11. \A v \in Users : user'[v].at = user[v].at /\ user'[v].state = user[v].state
  BY <1>1, <1>4, <1>6
<1>12. McpShape' /\ LockHeld' /\ OldIsClosed'
  BY <1>6, <1>8, <1>10, <1>11, McpInvFields DEF McpShape, LockHeld, OldIsClosed, States, Newest
<1>13. ASSUME NEW d \in ToolCalls PROVE CallFits(user[d], executed[d])'
  <2>1. CallFits(user'[d], executed'[d])
    <3>1. d \in Users /\ CallFits(user[d], executed[d])
      BY McpInvFields DEF Users
    <3> QED
      BY <1>6, <1>8, <1>9, <3>1
  <2> QED
    BY <2>1 DEF CallFits
<1> QED
  BY <1>12, <1>13 DEF McpInv

\* What happens to the server, and to the settings.
LEMMA ServerMovesKeep ==
    ASSUME McpInv, UNCHANGED <<user, executed, connectMu, sessions>>, offered' \in Nat,
           server' \in Seq(ServerRecords), Len(server') = Len(server),
           \A h \in States : server'[h].session \in {0, server[h].session},
           \A g \in States : g \in toClose /\ g \notin toClose' =>
             server'[g].session = 0 /\ connectMu[g] = Free
    PROVE  McpInv'
<1>1. States' = States /\ Newest' = Newest
  BY DEF States, Newest
<1>2. McpShape' /\ LockHeld'
  BY <1>1, McpInvFields DEF McpShape, LockHeld
<1>3. OldIsClosed'
  <2> SUFFICES ASSUME NEW g \in States, g # Newest, g \notin toClose'
               PROVE  /\ server'[g].session = 0
                      /\ \A u \in Users : user[u].at = "connect" => user[u].state # g
    BY <1>1 DEF OldIsClosed
  <2>1. CASE g \in toClose
    BY <2>1, FreeIsQuiet DEF InLock
  <2>2. CASE g \notin toClose
    BY <2>2, McpInvFields DEF OldIsClosed
  <2> QED
    BY <2>1, <2>2
<1>4. \A c \in ToolCalls : CallFits(user[c], executed[c])'
  BY McpInvFields DEF CallFits
<1> QED
  BY <1>2, <1>3, <1>4 DEF McpInv

LEMMA ServerStepKeeps ==
    ASSUME McpInv,
           \/ \E s \in 1..MaxSessions : SessionDies(s)
           \/ \E g \in States : NoticeEnd(g) \/ ToolListChanged(g) \/ CloseReplaced(g)
           \/ ToolChanges
    PROVE  McpInv'
<1>1. server \in Seq(ServerRecords) /\ offered \in Nat
  BY McpInvFields
<1>2. CASE (\E s \in 1..MaxSessions : SessionDies(s)) \/ ToolChanges
  <2>1. /\ UNCHANGED <<user, executed, connectMu, sessions, server, toClose>>
        /\ offered' \in {offered, offered + 1}
    BY <1>2 DEF SessionDies, ToolChanges
  <2>2. offered' \in Nat
    BY <1>1, <2>1
  <2> QED
    BY <1>1, <2>1, <2>2, ServerMovesKeep
<1>3. ASSUME NEW g \in States, NoticeEnd(g) \/ CloseReplaced(g)
      PROVE  McpInv'
  <2>1. /\ server' = [server EXCEPT ![g] = NoSession]
        /\ UNCHANGED <<user, executed, connectMu, sessions, offered>>
        /\ toClose' = toClose \/ (toClose' = toClose \ {g} /\ connectMu[g] = Free)
    BY <1>3 DEF NoticeEnd, CloseReplaced, Closes
  <2>2. NoSession \in ServerRecords /\ NoSession.session = 0
    BY DEF NoSession, ServerRecords
  <2>3. /\ server' \in Seq(ServerRecords) /\ Len(server') = Len(server)
        /\ \A h \in States : server'[h].session \in {0, server[h].session}
        /\ server'[g].session = 0
    BY <2>1, <2>2, ClosedFits
  <2>4. \A h \in States : h \in toClose /\ h \notin toClose' =>
          server'[h].session = 0 /\ connectMu[h] = Free
    BY <2>1, <2>3
  <2> QED
    BY <1>1, <2>1, <2>3, <2>4, ServerMovesKeep
<1>4. ASSUME NEW g \in States, ToolListChanged(g)
      PROVE  McpInv'
  <2>1. PICK s : s = [server[g] EXCEPT !.dirty = TRUE]
    OBVIOUS
  <2>2. s \in ServerRecords /\ s.session = server[g].session
    <3>1. server[g] \in ServerRecords
      BY <1>1 DEF States
    <3> QED
      BY <2>1, <3>1 DEF ServerRecords
  <2>3. /\ server' = [server EXCEPT ![g] = s]
        /\ UNCHANGED <<user, executed, connectMu, sessions, offered, toClose>>
    BY <1>4, <2>1 DEF ToolListChanged
  <2>4. /\ server' \in Seq(ServerRecords) /\ Len(server') = Len(server)
        /\ \A h \in States : server'[h].session \in {0, server[h].session}
    BY <1>1, <2>2, <2>3 DEF States
  <2> QED
    BY <1>1, <2>3, <2>4, ServerMovesKeep
<1> QED
  BY <1>2, <1>3, <1>4

\* Other settings: the state before is about to be closed.
LEMMA ReplaceKeeps ==
    ASSUME McpInv, ReplaceSettings
    PROVE  McpInv'
<1>1. /\ server' = Append(server, NoSession) /\ connectMu' = Append(connectMu, Free)
      /\ toClose' = toClose \cup {Newest}
      /\ UNCHANGED <<sessions, offered, user, executed>>
  BY DEF ReplaceSettings
<1>2. /\ server \in Seq(ServerRecords) /\ Len(server) >= 1
      /\ connectMu \in Seq(Users \cup {Free}) /\ Len(connectMu) = Len(server)
      /\ LockHeld /\ OldIsClosed
      /\ \A u \in Users : user[u].at \notin {"rest", "done"} => user[u].state \in States
  BY McpInvFields
<1>3. NoSession \in ServerRecords
  BY DEF NoSession, ServerRecords
<1>4. /\ server' \in Seq(ServerRecords) /\ Len(server') = Len(server) + 1
      /\ connectMu' \in Seq(Users \cup {Free}) /\ Len(connectMu') = Len(server) + 1
      /\ \A h \in States : server'[h] = server[h] /\ connectMu'[h] = connectMu[h]
      /\ Len(server) \in Nat
  BY <1>1, <1>2, <1>3 DEF States
<1>5. /\ \A h \in States : h \in States'
      /\ \A h \in States' : h # Newest' => h \in States
  BY <1>4 DEF States, Newest
<1>6. McpShape'
  <2>1. \A u \in Users : user'[u].at \notin {"rest", "done"} => user'[u].state \in States'
    BY <1>1, <1>2, <1>5
  <2> QED
    BY <1>1, <1>2, <1>4, <2>1, McpInvFields DEF McpShape
<1>7. LockHeld'
  BY <1>1, <1>2, <1>4 DEF LockHeld, InLock
<1>8. OldIsClosed'
  <2> SUFFICES ASSUME NEW g \in States', g # Newest', g \notin toClose'
               PROVE  /\ server'[g].session = 0
                      /\ \A u \in Users : user'[u].at = "connect" => user'[u].state # g
    BY DEF OldIsClosed
  <2>1. g \in States /\ g # Newest /\ g \notin toClose
    BY <1>1, <1>5
  <2> QED
    BY <1>1, <1>2, <1>4, <2>1 DEF OldIsClosed
<1>9. \A c \in ToolCalls : CallFits(user[c], executed[c])'
  BY <1>1, McpInvFields DEF CallFits
<1> QED
  BY <1>6, <1>7, <1>8, <1>9 DEF McpInv

LEMMA McpInvKept == McpInv /\ [McpNext]_mcpVars => McpInv'
<1> SUFFICES ASSUME McpInv, [McpNext]_mcpVars PROVE McpInv'
  OBVIOUS
<1>1. ASSUME NEW u \in Users, ClientStep(u) PROVE McpInv'
  <2>1. CASE ConnectStep(u)
    BY <2>1, LockKeeps, CheckKeeps, JoinKeeps, ListToolsKeeps, InstallKeeps DEF ConnectStep
  <2>2. CASE u \in ToolCalls /\ ExecuteStep(u)
    BY <2>2, BeginKeeps, TakeAndSendKeep, FlightKeeps, DisconnectKeeps DEF ExecuteStep
  <2>3. CASE CloseFirst
    BY <2>3, CloseFirstKeeps
  <2> QED
    BY <1>1, <2>1, <2>2, <2>3 DEF ClientStep
<1>2. CASE \E refresh \in BOOLEAN : Consult(refresh)
  BY <1>2, BeginKeeps
<1>3. ASSUME NEW c \in ToolCalls,
             \/ ServerRuns(c) \/ ServerAnswers(c) \/ ServerReports(c) \/ Cancels(c)
             \/ \E rejected \in BOOLEAN : Errs(c, rejected)
      PROVE  McpInv'
  BY <1>3, RunsKeeps, FlightKeeps
<1>4. CASE \/ \E s \in 1..MaxSessions : SessionDies(s)
           \/ \E g \in States : NoticeEnd(g) \/ ToolListChanged(g) \/ CloseReplaced(g)
           \/ ToolChanges
  BY <1>4, ServerStepKeeps
<1>5. CASE ReplaceSettings
  BY <1>5, ReplaceKeeps
<1>6. CASE UNCHANGED mcpVars
  <2>1. UNCHANGED <<server, connectMu, toClose, sessions, offered, user, executed>>
    BY <1>6 DEF mcpVars
  <2> QED
    BY <2>1, McpInvFields, ServerMovesKeep
<1> QED
  BY <1>1, <1>2, <1>3, <1>4, <1>5, <1>6 DEF McpNext

LEMMA McpInvShows == McpInv => CallsHold
<1> SUFFICES ASSUME McpInv PROVE CallsHold
  OBVIOUS
<1>1. RunOnce /\ ReportIsTrue
  BY McpInvFields DEF RunOnce, ReportIsTrue, CallFits
<1>2. ReplacedIsClosed
  BY McpInvFields DEF ReplacedIsClosed, OldIsClosed
<1> QED
  BY <1>1, <1>2 DEF CallsHold

-----------------------------------------------------------------------------
(* Console: a prompt that was accepted is started once, and is kept until  *)
(* its run has ended.  For any prompts, sessions, faults and reloads.      *)

TaskPlaces == {"none", "claimed", "uploading", "opening", "naming", "reading", "done", "leaving",
               "failing", "quitting"}

ConsoleShape ==
    /\ outbox \in [Prompts -> Items] /\ queue \in [Prompts -> Items]
    /\ task \in [Prompts -> TaskPlaces]
    /\ startedWith \in [Prompts -> SUBSET {1}]
    /\ serverRun \in [Prompts -> {"none", "working", "ended"}]
    /\ history \in [Prompts -> {"none", "accepted", "refused", "removed"}]

\* A prompt keeps its one key wherever it is stored.
KeyFits(item) == item.status # "none" => item.key = 1

PromptFits(p, stored, item, at, run, keys, told, shown) ==
    /\ KeyFits(stored) /\ KeyFits(item)
    /\ at \notin {"none", "quitting"} => item.status = "sending"
    /\ shown = "loading" => at = "none"
    /\ run # "none" => 1 \in keys
    /\ at \in {"done", "leaving"} => run = "ended"
    /\ told = "none" => at = "none" /\ item.status = "none" /\ stored.status = "none"
    /\ told = "accepted" /\ ChatOf[p] \notin MemoryOnly /\ stored = NoItem => run = "ended"

Fits(p) == PromptFits(p, outbox[p], queue[p], task[p], serverRun[p], startedWith[p],
                      history[p], page)

ConsoleInv == ConsoleShape /\ \A p \in Prompts : Fits(p)

LEMMA ConsoleInvStarts == ConsoleInit => ConsoleInv
<1> SUFFICES ASSUME ConsoleInit PROVE ConsoleInv
  OBVIOUS
<1>1. /\ outbox = [p \in Prompts |-> NoItem] /\ queue = outbox
      /\ task = [p \in Prompts |-> "none"] /\ page = "loading"
      /\ serverRun = [p \in Prompts |-> "none"] /\ startedWith = [p \in Prompts |-> {}]
      /\ history = [p \in Prompts |-> "none"]
  BY DEF ConsoleInit
<1>2. NoItem \in Items /\ NoItem.status = "none"
  BY DEF NoItem, Items
<1>3. ConsoleShape
  BY <1>1, <1>2 DEF ConsoleShape, TaskPlaces
<1>4. ASSUME NEW p \in Prompts PROVE Fits(p)
  BY <1>1, <1>2 DEF Fits, PromptFits, KeyFits
<1> QED
  BY <1>3, <1>4 DEF ConsoleInv

LEMMA ConsoleInvFields ==
    ASSUME ConsoleInv
    PROVE  /\ outbox \in [Prompts -> Items] /\ queue \in [Prompts -> Items]
           /\ task \in [Prompts -> TaskPlaces]
           /\ startedWith \in [Prompts -> SUBSET {1}]
           /\ serverRun \in [Prompts -> {"none", "working", "ended"}]
           /\ history \in [Prompts -> {"none", "accepted", "refused", "removed"}]
           /\ \A p \in Prompts : Fits(p)
  BY DEF ConsoleInv, ConsoleShape

\* What the queue and the tasks come to, drained or not.
QueueGoes(items, tasks) ==
    \/ queue' = items /\ task' = tasks
    \/ \E launched \in SUBSET Prompts :
         /\ DrainedBy(items, tasks, launched)
         /\ \A p \in launched : items[p].status = "pending"
         /\ launched # {} => page' # "loading"

LEMMA DrainGoes ==
    ASSUME NEW items, NEW tasks, NEW following, NEW left, Drain(items, tasks, following, left), page' = page
    PROVE  QueueGoes(items, tasks)
<1>1. PICK launched : launched = IF page = "healthy" THEN Launchable(items, following, left) ELSE {}
  OBVIOUS
<1>2. DrainedBy(items, tasks, launched)
  BY <1>1 DEF Drain
<1>3. /\ launched \in SUBSET Prompts /\ \A p \in launched : items[p].status = "pending"
      /\ launched # {} => page' # "loading"
  BY <1>1 DEF Launchable
<1> QED
  BY <1>2, <1>3 DEF QueueGoes

\* A prompt that is launched was pending, and is being sent then.
LEMMA GoesKeeps ==
    ASSUME NEW items \in [Prompts -> Items], NEW tasks \in [Prompts -> TaskPlaces],
           QueueGoes(items, tasks),
           outbox' \in [Prompts -> Items], startedWith' \in [Prompts -> SUBSET {1}],
           serverRun' \in [Prompts -> {"none", "working", "ended"}],
           history' \in [Prompts -> {"none", "accepted", "refused", "removed"}],
           \A p \in Prompts : PromptFits(p, outbox'[p], items[p], tasks[p], serverRun'[p],
                                         startedWith'[p], history'[p], page')
    PROVE  ConsoleInv'
<1>1. ASSUME queue' \in [Prompts -> Items], task' \in [Prompts -> TaskPlaces],
             \A p \in Prompts : PromptFits(p, outbox'[p], queue'[p], task'[p], serverRun'[p],
                                           startedWith'[p], history'[p], page')
      PROVE  ConsoleInv'
  <2>1. ASSUME NEW p \in Prompts PROVE Fits(p)'
    BY <1>1 DEF Fits, PromptFits, KeyFits
  <2>2. ConsoleShape'
    BY <1>1 DEF ConsoleShape
  <2> QED
    BY <2>1, <2>2 DEF ConsoleInv
<1>2. CASE queue' = items /\ task' = tasks
  BY <1>1, <1>2
<1>3. ASSUME NEW launched \in SUBSET Prompts, DrainedBy(items, tasks, launched),
             \A p \in launched : items[p].status = "pending",
             launched # {} => page' # "loading"
      PROVE  ConsoleInv'
  <2>1. ASSUME NEW p \in Prompts
        PROVE  /\ queue'[p] \in Items /\ task'[p] \in TaskPlaces
               /\ PromptFits(p, outbox'[p], queue'[p], task'[p], serverRun'[p], startedWith'[p],
                             history'[p], page')
    <3>1. CASE p \in launched
      <4>1. /\ queue'[p] = [items[p] EXCEPT !.status = "sending"] /\ task'[p] = "claimed"
            /\ items[p].status = "pending" /\ page' # "loading" /\ items[p] \in Items
        BY <1>3, <3>1 DEF DrainedBy
      <4>2. queue'[p] \in Items /\ queue'[p].status = "sending" /\ queue'[p].key = items[p].key
        BY <4>1 DEF Items
      <4> QED
        BY <4>1, <4>2 DEF PromptFits, KeyFits, TaskPlaces
    <3>2. CASE p \notin launched
      BY <1>3, <3>2 DEF DrainedBy
    <3> QED
      BY <3>1, <3>2
  <2>2. queue' \in [Prompts -> Items] /\ task' \in [Prompts -> TaskPlaces]
    <3>1. /\ queue' = [p \in Prompts |-> queue'[p]] /\ task' = [p \in Prompts |-> task'[p]]
      BY <1>3 DEF DrainedBy
    <3> QED
      BY <2>1, <3>1
  <2> QED
    BY <1>1, <2>1, <2>2
<1> QED
  BY <1>2, <1>3 DEF QueueGoes

\* A step of one prompt.
Only(p) ==
    /\ outbox' \in [Prompts -> Items] /\ startedWith' \in [Prompts -> SUBSET {1}]
    /\ serverRun' \in [Prompts -> {"none", "working", "ended"}]
    /\ history' \in [Prompts -> {"none", "accepted", "refused", "removed"}]
    /\ page' = page
    /\ \A q \in Prompts : q # p =>
         /\ outbox'[q] = outbox[q] /\ startedWith'[q] = startedWith[q]
         /\ serverRun'[q] = serverRun[q] /\ history'[q] = history[q]

LEMMA OneKeeps ==
    ASSUME ConsoleInv, NEW p \in Prompts, NEW i \in Items, NEW t \in TaskPlaces,
           QueueGoes([queue EXCEPT ![p] = i], [task EXCEPT ![p] = t]), Only(p),
           PromptFits(p, outbox'[p], i, t, serverRun'[p], startedWith'[p], history'[p], page)
    PROVE  ConsoleInv'
<1>1. PICK items, tasks : items = [queue EXCEPT ![p] = i] /\ tasks = [task EXCEPT ![p] = t]
  OBVIOUS
<1>2. /\ items \in [Prompts -> Items] /\ tasks \in [Prompts -> TaskPlaces]
      /\ items[p] = i /\ tasks[p] = t
      /\ \A q \in Prompts : q # p => items[q] = queue[q] /\ tasks[q] = task[q]
  BY <1>1, ConsoleInvFields
<1>3. ASSUME NEW q \in Prompts
      PROVE  PromptFits(q, outbox'[q], items[q], tasks[q], serverRun'[q], startedWith'[q],
                        history'[q], page')
  <2>1. page' = page
    BY DEF Only
  <2>2. CASE q = p
    BY <1>2, <2>1, <2>2
  <2>3. CASE q # p
    <3>1. /\ outbox'[q] = outbox[q] /\ startedWith'[q] = startedWith[q]
          /\ serverRun'[q] = serverRun[q] /\ history'[q] = history[q]
          /\ items[q] = queue[q] /\ tasks[q] = task[q]
      BY <1>2, <2>3 DEF Only
    <3>2. Fits(q)
      BY ConsoleInvFields
    <3> QED
      BY <2>1, <3>1, <3>2 DEF Fits
  <2> QED
    BY <2>2, <2>3
<1> QED
  BY <1>1, <1>2, <1>3, GoesKeeps DEF Only

\* One prompt is stored, or is not.
LEMMA StoredFits ==
    ASSUME ConsoleInv, NEW p \in Prompts, NEW v \in Items, Put(p, v) \/ PutFails(p)
    PROVE  /\ outbox' \in [Prompts -> Items] /\ outbox'[p] \in {outbox[p], v}
           /\ \A q \in Prompts : q # p => outbox'[q] = outbox[q]
           /\ Put(p, v) /\ ChatOf[p] \notin MemoryOnly => outbox'[p] = v
<1>1. outbox \in [Prompts -> Items]
  BY ConsoleInvFields
<1>2. CASE outbox' = outbox /\ (Put(p, v) => ChatOf[p] \in MemoryOnly)
  BY <1>1, <1>2
<1>3. CASE outbox' = [outbox EXCEPT ![p] = v]
  BY <1>1, <1>3
<1> QED
  BY <1>2, <1>3 DEF Put, PutFails

LEMMA OnlyStored ==
    ASSUME ConsoleInv, NEW p \in Prompts, NEW v \in Items,
           Put(p, v) \/ PutFails(p) \/ outbox' = outbox,
           UNCHANGED <<serverVars, history, page>>
    PROVE  Only(p) /\ outbox'[p] \in {outbox[p], v}
<1>1. CASE Put(p, v) \/ PutFails(p)
  BY <1>1, StoredFits, ConsoleInvFields DEF Only, serverVars
<1>2. CASE outbox' = outbox
  BY <1>2, ConsoleInvFields DEF Only, serverVars
<1> QED
  BY <1>1, <1>2

\* What is known of a prompt.
LEMMA PromptIs ==
    ASSUME ConsoleInv, NEW p \in Prompts
    PROVE  /\ outbox[p] \in Items /\ queue[p] \in Items /\ task[p] \in TaskPlaces
           /\ PromptFits(p, outbox[p], queue[p], task[p], serverRun[p], startedWith[p],
                         history[p], page)
  BY ConsoleInvFields DEF Fits

\* An item with another status, or other marks.
LEMMA ItemFits ==
    ASSUME NEW item \in Items
    PROVE  /\ \A s \in {"pending", "failed"} : [item EXCEPT !.status = s] \in Items
                 /\ [item EXCEPT !.status = s].status = s
                 /\ [item EXCEPT !.status = s].key = item.key
           /\ [item EXCEPT !.files = FALSE] \in Items
           /\ [item EXCEPT !.files = FALSE].status = item.status
           /\ [item EXCEPT !.files = FALSE].key = item.key
           /\ [item EXCEPT !.named = TRUE] \in Items
           /\ [item EXCEPT !.named = TRUE].status = item.status
           /\ [item EXCEPT !.named = TRUE].key = item.key
  BY DEF Items

LEMMA NoItemIs == NoItem \in Items /\ NoItem.status = "none"
  BY DEF NoItem, Items

\* The user creates a prompt, which is stored first.
LEMMA EnqueueKeeps ==
    ASSUME ConsoleInv, NEW p \in Prompts, Enqueue(p)
    PROVE  ConsoleInv'
<1>1. /\ history[p] = "none" /\ page' = page /\ page = "healthy"
      /\ UNCHANGED <<serverRun, startedWith>>
  BY DEF Enqueue, serverVars
<1>2. NewItem(p) \in Items /\ NewItem(p).status = "pending" /\ NewItem(p).key = 1
  BY DEF NewItem, Items
<1>3. /\ task[p] = "none" /\ queue[p].status = "none" /\ outbox[p].status = "none"
  BY <1>1, PromptIs DEF PromptFits
<1>4. ASSUME NEW told \in {"accepted", "refused"}, history' = [history EXCEPT ![p] = told]
      PROVE  /\ history' \in [Prompts -> {"none", "accepted", "refused", "removed"}]
             /\ history'[p] = told /\ \A q \in Prompts : q # p => history'[q] = history[q]
  BY <1>4, ConsoleInvFields
<1>5. CASE /\ Put(p, NewItem(p)) /\ history' = [history EXCEPT ![p] = "accepted"]
           /\ Drain([queue EXCEPT ![p] = NewItem(p)], task, activeRuns, skipped)
  <2>1. Only(p)
    BY <1>1, <1>2, <1>4, <1>5, StoredFits, ConsoleInvFields DEF Only
  <2>2. /\ outbox'[p] \in {outbox[p], NewItem(p)} /\ history'[p] = "accepted"
        /\ ChatOf[p] \notin MemoryOnly => outbox'[p] = NewItem(p)
    BY <1>2, <1>4, <1>5, StoredFits
  <2>3. PromptFits(p, outbox'[p], NewItem(p), "none", serverRun'[p], startedWith'[p],
                   history'[p], page)
    BY <1>1, <1>2, <1>3, <2>2, PromptIs, NoItemIs DEF PromptFits, KeyFits
  <2>4. QueueGoes([queue EXCEPT ![p] = NewItem(p)], [task EXCEPT ![p] = "none"])
    <3>1. [task EXCEPT ![p] = "none"] = task
      BY <1>3, ConsoleInvFields
    <3> QED
      BY <1>1, <1>5, <3>1, DrainGoes
  <2> QED
    BY <1>2, <2>1, <2>3, <2>4, OneKeeps DEF TaskPlaces
<1>6. CASE /\ PutFails(p) /\ history' = [history EXCEPT ![p] = "refused"]
           /\ UNCHANGED <<queue, task>>
  <2>1. Only(p) /\ outbox'[p] = outbox[p] /\ history'[p] = "refused"
    BY <1>1, <1>4, <1>6, ConsoleInvFields DEF Only, PutFails
  <2>2. PromptFits(p, outbox'[p], queue[p], task[p], serverRun'[p], startedWith'[p],
                   history'[p], page)
    BY <1>1, <2>1, PromptIs DEF PromptFits
  <2>3. QueueGoes([queue EXCEPT ![p] = queue[p]], [task EXCEPT ![p] = task[p]])
    BY <1>6, ConsoleInvFields DEF QueueGoes
  <2> QED
    BY <2>1, <2>2, <2>3, PromptIs, OneKeeps
<1> QED
  BY <1>5, <1>6 DEF Enqueue

LEMMA RemoveKeeps ==
    ASSUME ConsoleInv, NEW p \in Prompts, RemovePrompt(p)
    PROVE  ConsoleInv'
<1>1. /\ queue[p].status \in {"pending", "failed"} /\ task' = task /\ page' = page
      /\ UNCHANGED <<serverRun, startedWith>>
  BY DEF RemovePrompt, serverVars
<1>2. PromptFits(p, outbox[p], queue[p], task[p], serverRun[p], startedWith[p], history[p], page)
  BY PromptIs
<1>3. CASE /\ Put(p, NoItem) /\ queue' = [queue EXCEPT ![p] = NoItem]
           /\ history' = [history EXCEPT ![p] = "removed"]
  <2>1. /\ history' \in [Prompts -> {"none", "accepted", "refused", "removed"}]
        /\ history'[p] = "removed" /\ \A q \in Prompts : q # p => history'[q] = history[q]
    BY <1>3, ConsoleInvFields
  <2>2. Only(p) /\ outbox'[p] \in {outbox[p], NoItem}
    BY <1>1, <1>3, <2>1, StoredFits, NoItemIs, ConsoleInvFields DEF Only
  <2>3. PromptFits(p, outbox'[p], NoItem, task[p], serverRun'[p], startedWith'[p],
                   history'[p], page)
    BY <1>1, <1>2, <2>1, <2>2, NoItemIs DEF PromptFits, KeyFits
  <2>4. QueueGoes([queue EXCEPT ![p] = NoItem], [task EXCEPT ![p] = task[p]])
    BY <1>1, <1>3, ConsoleInvFields DEF QueueGoes
  <2> QED
    BY <2>2, <2>3, <2>4, PromptIs, NoItemIs, OneKeeps
<1>4. CASE PutFails(p) /\ UNCHANGED <<queue, history>>
  <2>1. Only(p) /\ outbox'[p] = outbox[p]
    BY <1>1, <1>4, ConsoleInvFields DEF Only, PutFails
  <2>2. PromptFits(p, outbox'[p], queue[p], task[p], serverRun'[p], startedWith'[p],
                   history'[p], page)
    BY <1>1, <1>2, <1>4, <2>1
  <2>3. QueueGoes([queue EXCEPT ![p] = queue[p]], [task EXCEPT ![p] = task[p]])
    BY <1>1, <1>4, ConsoleInvFields DEF QueueGoes
  <2> QED
    BY <2>1, <2>2, <2>3, PromptIs, OneKeeps
<1> QED
  BY <1>3, <1>4 DEF RemovePrompt

\* A step of a prompt that leaves the runs and the user's memory alone.
LEMMA StoreKeeps ==
    ASSUME ConsoleInv, NEW p \in Prompts, NEW v \in Items, NEW i \in Items, NEW t \in TaskPlaces,
           Put(p, v) \/ PutFails(p) \/ outbox' = outbox,
           UNCHANGED <<serverVars, history, page>>,
           QueueGoes([queue EXCEPT ![p] = i], [task EXCEPT ![p] = t]),
           PromptFits(p, v, i, t, serverRun[p], startedWith[p], history[p], page),
           PromptFits(p, outbox[p], i, t, serverRun[p], startedWith[p], history[p], page)
    PROVE  ConsoleInv'
<1>1. Only(p) /\ outbox'[p] \in {outbox[p], v}
  BY OnlyStored
<1>2. /\ serverRun'[p] = serverRun[p] /\ startedWith'[p] = startedWith[p]
      /\ history'[p] = history[p]
  BY DEF serverVars
<1>3. PromptFits(p, outbox'[p], i, t, serverRun'[p], startedWith'[p], history'[p], page)
  BY <1>1, <1>2
<1> QED
  BY <1>1, <1>3, OneKeeps

LEMMA SameIs ==
    ASSUME ConsoleInv, NEW p \in Prompts
    PROVE  [queue EXCEPT ![p] = queue[p]] = queue /\ [task EXCEPT ![p] = task[p]] = task
  BY ConsoleInvFields

LEMMA RetryKeeps ==
    ASSUME ConsoleInv, NEW p \in Prompts, RetryPrompt(p)
    PROVE  ConsoleInv'
<1>1. PICK again : again = [queue[p] EXCEPT !.status = "pending"]
  OBVIOUS
<1>2. /\ queue[p].status = "failed" /\ task[p] = "none"
      /\ UNCHANGED <<serverVars, history, page>>
  BY DEF RetryPrompt
<1>3. /\ queue[p] \in Items /\ task[p] \in TaskPlaces
      /\ PromptFits(p, outbox[p], queue[p], task[p], serverRun[p], startedWith[p],
                    history[p], page)
  BY PromptIs
<1>4. again \in Items /\ again.status = "pending" /\ again.key = queue[p].key
  BY <1>1, <1>3, ItemFits
<1>5. CASE Put(p, again) /\ Drain([queue EXCEPT ![p] = again], task, activeRuns, skipped)
  <2>1. QueueGoes([queue EXCEPT ![p] = again], [task EXCEPT ![p] = task[p]])
    BY <1>2, <1>5, SameIs, DrainGoes
  <2>2. /\ PromptFits(p, again, again, task[p], serverRun[p], startedWith[p], history[p], page)
        /\ PromptFits(p, outbox[p], again, task[p], serverRun[p], startedWith[p], history[p], page)
    BY <1>2, <1>3, <1>4, NoItemIs DEF PromptFits, KeyFits
  <2> QED
    BY <1>2, <1>3, <1>4, <1>5, <2>1, <2>2, StoreKeeps
<1>6. CASE PutFails(p) /\ UNCHANGED <<queue, task>>
  <2>1. QueueGoes([queue EXCEPT ![p] = queue[p]], [task EXCEPT ![p] = task[p]])
    BY <1>6, SameIs DEF QueueGoes
  <2>2. outbox' = outbox
    BY <1>6 DEF PutFails
  <2>3. outbox[p] \in Items
    BY PromptIs
  <2> QED
    BY <1>2, <1>3, <2>1, <2>2, <2>3, StoreKeeps
<1> QED
  BY <1>1, <1>5, <1>6 DEF RetryPrompt

\* A task that goes from one await to the next, with its prompt.
LEMMA TaskKeeps ==
    ASSUME ConsoleInv, NEW p \in Prompts, NEW i \in Items, NEW t \in TaskPlaces,
           task[p] \notin {"none", "quitting"},
           i.status = "sending" \/ (t \in {"none", "quitting"} /\ i.status = "failed"),
           i.key = queue[p].key, t \in {"done", "leaving"} => serverRun[p] = "ended",
           Put(p, i) \/ PutFails(p) \/ outbox' = outbox,
           UNCHANGED <<serverVars, history, page>>,
           QueueGoes([queue EXCEPT ![p] = i], [task EXCEPT ![p] = t])
    PROVE  ConsoleInv'
<1>1. PromptFits(p, outbox[p], queue[p], task[p], serverRun[p], startedWith[p], history[p], page)
  BY PromptIs
<1>2. queue[p].key = 1 /\ history[p] # "none" /\ page # "loading"
  BY <1>1 DEF PromptFits, KeyFits
<1>3. /\ PromptFits(p, i, i, t, serverRun[p], startedWith[p], history[p], page)
      /\ PromptFits(p, outbox[p], i, t, serverRun[p], startedWith[p], history[p], page)
  BY <1>1, <1>2, NoItemIs DEF PromptFits, KeyFits
<1> QED
  BY <1>3, StoreKeeps

LEMMA ClaimKeeps ==
    ASSUME ConsoleInv, NEW p \in Prompts, Claim(p)
    PROVE  ConsoleInv'
<1>1. task[p] = "claimed" /\ UNCHANGED <<serverVars, history, page>>
  BY DEF Claim, Others
<1>2. queue[p] \in Items /\ queue[p].status = "sending"
  BY <1>1, PromptIs DEF PromptFits
<1>3. CASE Put(p, queue[p]) /\ GoesTo(p, "uploading") /\ queue' = queue
  <2>1. QueueGoes([queue EXCEPT ![p] = queue[p]], [task EXCEPT ![p] = "uploading"])
    BY <1>3, SameIs DEF QueueGoes, GoesTo
  <2> QED
    BY <1>1, <1>2, <1>3, <2>1, TaskKeeps DEF TaskPlaces
<1>4. CASE /\ PutFails(p)
           /\ Drain([queue EXCEPT ![p].status = "failed"], [task EXCEPT ![p] = "none"],
                    activeRuns, skipped)
  <2>1. PICK i : i = [queue[p] EXCEPT !.status = "failed"]
    OBVIOUS
  <2>2. i \in Items /\ i.status = "failed" /\ i.key = queue[p].key
    BY <1>2, <2>1, ItemFits
  <2>3. Drain([queue EXCEPT ![p] = i], [task EXCEPT ![p] = "none"], activeRuns, skipped)
    BY <1>4, <2>1
  <2>4. QueueGoes([queue EXCEPT ![p] = i], [task EXCEPT ![p] = "none"])
    BY <1>1, <2>3, DrainGoes
  <2> QED
    BY <1>1, <1>4, <2>2, <2>4, TaskKeeps DEF TaskPlaces
<1> QED
  BY <1>3, <1>4 DEF Claim

LEMMA UploadKeeps ==
    ASSUME ConsoleInv, NEW p \in Prompts, Upload(p)
    PROVE  ConsoleInv'
<1>1. task[p] = "uploading" /\ UNCHANGED <<serverVars, history, page>>
  BY DEF Upload, Others
<1>2. queue[p] \in Items /\ queue[p].status = "sending"
  BY <1>1, PromptIs DEF PromptFits
<1>3. PICK i : i = [queue[p] EXCEPT !.files = FALSE]
  OBVIOUS
<1>4. i \in Items /\ i.status = "sending" /\ i.key = queue[p].key
  BY <1>2, <1>3, ItemFits
<1>5. CASE /\ queue' = [queue EXCEPT ![p].files = FALSE]
           /\ Put(p, queue'[p]) \/ PutFails(p)
           /\ GoesTo(p, "opening") \/ GoesTo(p, "failing")
  <2>1. queue' = [queue EXCEPT ![p] = i] /\ queue'[p] = i
    BY <1>3, <1>5, ConsoleInvFields
  <2>2. PICK t \in {"opening", "failing"} : task' = [task EXCEPT ![p] = t]
    BY <1>5 DEF GoesTo
  <2>3. QueueGoes([queue EXCEPT ![p] = i], [task EXCEPT ![p] = t])
    BY <2>1, <2>2 DEF QueueGoes
  <2>4. Put(p, i) \/ PutFails(p)
    BY <1>5, <2>1
  <2>5. t \in TaskPlaces /\ t \notin {"done", "leaving"}
    BY <2>2 DEF TaskPlaces
  <2> QED
    BY <1>1, <1>4, <2>3, <2>4, <2>5, TaskKeeps
<1>6. CASE GoesTo(p, "failing") /\ UNCHANGED <<queue, outbox>>
  <2>1. QueueGoes([queue EXCEPT ![p] = queue[p]], [task EXCEPT ![p] = "failing"])
    BY <1>6, SameIs DEF QueueGoes, GoesTo
  <2> QED
    BY <1>1, <1>2, <1>6, <2>1, TaskKeeps DEF TaskPlaces
<1> QED
  BY <1>5, <1>6 DEF Upload

\* The service starts a run for a key once.
LEMMA StartedRunFits ==
    ASSUME ConsoleInv, NEW p \in Prompts, StartedRun(p, 1)
    PROVE  /\ startedWith' \in [Prompts -> SUBSET {1}] /\ 1 \in startedWith'[p]
           /\ serverRun' \in [Prompts -> {"none", "working", "ended"}]
           /\ serverRun[p] = "ended" => serverRun'[p] = "ended"
           /\ \A q \in Prompts : q # p =>
                serverRun'[q] = serverRun[q] /\ startedWith'[q] = startedWith[q]
<1>1. /\ startedWith \in [Prompts -> SUBSET {1}]
      /\ serverRun \in [Prompts -> {"none", "working", "ended"}]
      /\ serverRun[p] # "none" => 1 \in startedWith[p]
  BY ConsoleInvFields, PromptIs DEF PromptFits
<1>2. CASE 1 \in startedWith[p]
  BY <1>1, <1>2 DEF StartedRun, serverVars
<1>3. CASE 1 \notin startedWith[p]
  <2>1. /\ startedWith' = [startedWith EXCEPT ![p] = @ \cup {1}]
        /\ serverRun' = [serverRun EXCEPT ![p] = "working"]
    BY <1>3 DEF StartedRun
  <2> QED
    BY <1>1, <1>3, <2>1
<1> QED
  BY <1>2, <1>3

LEMMA AgainGoes ==
    ASSUME ConsoleInv, NEW p \in Prompts, Again(p) \/ GoesTo(p, "naming"), queue' = queue
    PROVE  \E t \in {"opening", "failing", "naming"} :
             QueueGoes([queue EXCEPT ![p] = queue[p]], [task EXCEPT ![p] = t])
<1>1. PICK t \in {"opening", "failing", "naming"} : task' = [task EXCEPT ![p] = t]
  BY DEF Again, GoesTo
<1> QED
  BY <1>1, SameIs DEF QueueGoes

LEMMA OpenKeeps ==
    ASSUME ConsoleInv, NEW p \in Prompts, Open(p)
    PROVE  ConsoleInv'
<1>1. /\ task[p] = "opening" /\ UNCHANGED <<queue, outbox, history, page>>
      /\ Again(p) \/ GoesTo(p, "naming")
      /\ UNCHANGED serverVars \/ StartedRun(p, queue[p].key)
  BY DEF Open, Others
<1>2. /\ queue[p] \in Items
      /\ PromptFits(p, outbox[p], queue[p], task[p], serverRun[p], startedWith[p], history[p], page)
  BY PromptIs
<1>3. queue[p].status = "sending" /\ queue[p].key = 1 /\ history[p] # "none"
  BY <1>1, <1>2 DEF PromptFits, KeyFits
<1>4. PICK t \in {"opening", "failing", "naming"} :
        QueueGoes([queue EXCEPT ![p] = queue[p]], [task EXCEPT ![p] = t])
  BY <1>1, AgainGoes
<1>5. /\ startedWith' \in [Prompts -> SUBSET {1}]
      /\ serverRun' \in [Prompts -> {"none", "working", "ended"}]
      /\ serverRun'[p] # "none" => 1 \in startedWith'[p]
      /\ serverRun[p] = "ended" => serverRun'[p] = "ended"
      /\ \A q \in Prompts : q # p =>
           serverRun'[q] = serverRun[q] /\ startedWith'[q] = startedWith[q]
  <2>1. CASE UNCHANGED serverVars
    BY <1>2, <2>1, ConsoleInvFields DEF serverVars, PromptFits
  <2>2. CASE StartedRun(p, 1)
    BY <2>2, StartedRunFits
  <2> QED
    BY <1>1, <1>3, <2>1, <2>2
<1>6. Only(p)
  BY <1>1, <1>5, ConsoleInvFields DEF Only
<1>7. PromptFits(p, outbox'[p], queue[p], t, serverRun'[p], startedWith'[p], history'[p], page)
  BY <1>1, <1>2, <1>3, <1>4, <1>5 DEF PromptFits
<1> QED
  BY <1>2, <1>4, <1>6, <1>7, OneKeeps DEF TaskPlaces

LEMMA NameKeeps ==
    ASSUME ConsoleInv, NEW p \in Prompts, Name(p)
    PROVE  ConsoleInv'
<1>1. /\ task[p] = "naming" /\ UNCHANGED <<serverVars, history, page>>
      /\ queue' = [queue EXCEPT ![p].named = TRUE] /\ (Put(p, queue'[p]) \/ PutFails(p))
      /\ GoesTo(p, "reading") \/ Again(p)
  BY DEF Name, Others
<1>2. queue[p] \in Items /\ queue[p].status = "sending"
  BY <1>1, PromptIs DEF PromptFits
<1>3. PICK i : i = [queue[p] EXCEPT !.named = TRUE]
  OBVIOUS
<1>4. i \in Items /\ i.status = "sending" /\ i.key = queue[p].key
  BY <1>2, <1>3, ItemFits
<1>5. queue' = [queue EXCEPT ![p] = i] /\ queue'[p] = i
  <2>1. queue' = [queue EXCEPT ![p] = i]
    <3>1. queue' = [queue EXCEPT ![p].named = TRUE]
      BY <1>1
    <3> QED
      BY <1>3, <3>1
  <2> QED
    BY <2>1, ConsoleInvFields
<1>6. PICK t \in {"reading", "opening", "failing"} : task' = [task EXCEPT ![p] = t]
  BY <1>1 DEF Again, GoesTo
<1>7. QueueGoes([queue EXCEPT ![p] = i], [task EXCEPT ![p] = t])
  BY <1>5, <1>6 DEF QueueGoes
<1>8. /\ Put(p, i) \/ PutFails(p)
      /\ t \in TaskPlaces /\ t \notin {"done", "leaving"}
  BY <1>1, <1>5, <1>6 DEF TaskPlaces
<1> QED
  BY <1>1, <1>4, <1>7, <1>8, TaskKeeps

LEMMA ReadKeeps ==
    ASSUME ConsoleInv, NEW p \in Prompts, Read(p)
    PROVE  ConsoleInv'
<1>1. /\ task[p] = "reading" /\ UNCHANGED <<serverVars, history, page, queue, outbox>>
      /\ (serverRun[p] = "ended" /\ GoesTo(p, "done")) \/ Again(p)
  BY DEF Read, Others
<1>2. queue[p] \in Items /\ queue[p].status = "sending"
  BY <1>1, PromptIs DEF PromptFits
<1>3. PICK t \in {"done", "opening", "failing"} : /\ task' = [task EXCEPT ![p] = t]
                                                  /\ (t = "done" => serverRun[p] = "ended")
  BY <1>1 DEF Again, GoesTo
<1>4. QueueGoes([queue EXCEPT ![p] = queue[p]], [task EXCEPT ![p] = t])
  BY <1>1, <1>3, SameIs DEF QueueGoes
<1>5. t \in TaskPlaces /\ (t \in {"done", "leaving"} => serverRun[p] = "ended")
  BY <1>3 DEF TaskPlaces
<1> QED
  BY <1>1, <1>2, <1>4, <1>5, TaskKeeps

LEMMA DoneKeeps ==
    ASSUME ConsoleInv, NEW p \in Prompts, Done(p)
    PROVE  ConsoleInv'
<1>1. /\ task[p] = "done" /\ UNCHANGED <<serverVars, history, page, outbox>>
  BY DEF Done, Others
<1>2. queue[p] \in Items /\ queue[p].status = "sending" /\ serverRun[p] = "ended"
  BY <1>1, PromptIs DEF PromptFits
<1>3. QueueGoes([queue EXCEPT ![p] = queue[p]], [task EXCEPT ![p] = "leaving"])
  <2>1. CASE Drain(queue, [task EXCEPT ![p] = "leaving"], activeRuns', skipped)
    BY <1>1, <2>1, SameIs, DrainGoes
  <2>2. CASE GoesTo(p, "leaving") /\ queue' = queue
    BY <2>2, SameIs DEF QueueGoes, GoesTo
  <2> QED
    BY <2>1, <2>2 DEF Done
<1> QED
  BY <1>1, <1>2, <1>3, TaskKeeps DEF TaskPlaces

\* A prompt leaves the outbox when its run has ended.
LEMMA LeaveKeeps ==
    ASSUME ConsoleInv, NEW p \in Prompts, Leave(p)
    PROVE  ConsoleInv'
<1>1. /\ task[p] = "leaving" /\ UNCHANGED <<serverVars, history, page>>
      /\ Put(p, NoItem) \/ PutFails(p)
      /\ Drain([queue EXCEPT ![p] = NoItem], [task EXCEPT ![p] = "none"], activeRuns, skipped)
  BY DEF Leave, Others
<1>2. PromptFits(p, outbox[p], queue[p], task[p], serverRun[p], startedWith[p], history[p], page)
  BY PromptIs
<1>3. QueueGoes([queue EXCEPT ![p] = NoItem], [task EXCEPT ![p] = "none"])
  BY <1>1, DrainGoes
<1>4. /\ PromptFits(p, NoItem, NoItem, "none", serverRun[p], startedWith[p], history[p], page)
      /\ PromptFits(p, outbox[p], NoItem, "none", serverRun[p], startedWith[p], history[p], page)
  BY <1>1, <1>2, NoItemIs DEF PromptFits, KeyFits
<1> QED
  BY <1>1, <1>3, <1>4, NoItemIs, StoreKeeps DEF TaskPlaces

LEMMA FailKeeps ==
    ASSUME ConsoleInv, NEW p \in Prompts, FailPrompt(p)
    PROVE  ConsoleInv'
<1>1. /\ task[p] = "failing" /\ UNCHANGED <<serverVars, history, page>>
      /\ queue' = [queue EXCEPT ![p].status = "failed"] /\ (Put(p, queue'[p]) \/ PutFails(p))
      /\ task' = [task EXCEPT ![p] = "quitting"]
  BY DEF FailPrompt, Others, GoesTo
<1>2. queue[p] \in Items
  BY PromptIs
<1>3. PICK i : i = [queue[p] EXCEPT !.status = "failed"]
  OBVIOUS
<1>4. i \in Items /\ i.status = "failed" /\ i.key = queue[p].key
  BY <1>2, <1>3, ItemFits
<1>5. queue' = [queue EXCEPT ![p] = i] /\ queue'[p] = i
  <2>1. queue' = [queue EXCEPT ![p] = i]
    <3>1. queue' = [queue EXCEPT ![p].status = "failed"]
      BY <1>1
    <3> QED
      BY <1>3, <3>1
  <2> QED
    BY <2>1, ConsoleInvFields
<1>6. QueueGoes([queue EXCEPT ![p] = i], [task EXCEPT ![p] = "quitting"])
  BY <1>1, <1>5 DEF QueueGoes
<1>7. Put(p, i) \/ PutFails(p)
  BY <1>1, <1>5
<1> QED
  BY <1>1, <1>4, <1>6, <1>7, TaskKeeps DEF TaskPlaces

LEMMA QuitKeeps ==
    ASSUME ConsoleInv, NEW p \in Prompts, Quit(p)
    PROVE  ConsoleInv'
<1>1. /\ task[p] = "quitting" /\ UNCHANGED <<serverVars, history, page, outbox>>
      /\ Drain(queue, [task EXCEPT ![p] = "none"], activeRuns', skipped)
  BY DEF Quit, Others
<1>2. /\ outbox[p] \in Items /\ queue[p] \in Items
      /\ PromptFits(p, outbox[p], queue[p], task[p], serverRun[p], startedWith[p], history[p], page)
  BY PromptIs
<1>3. QueueGoes([queue EXCEPT ![p] = queue[p]], [task EXCEPT ![p] = "none"])
  BY <1>1, SameIs, DrainGoes
<1>4. PromptFits(p, outbox[p], queue[p], "none", serverRun[p], startedWith[p], history[p], page)
  BY <1>1, <1>2 DEF PromptFits
<1> QED
  BY <1>1, <1>2, <1>3, <1>4, StoreKeeps DEF TaskPlaces

\* A run ends, by itself or because it is canceled.
LEMMA RunEndsKeep ==
    ASSUME ConsoleInv, NEW p \in Prompts, serverRun[p] # "none",
           serverRun' = [serverRun EXCEPT ![p] = "ended"],
           UNCHANGED <<outbox, startedWith, history, page>>,
           \/ QueueGoes([queue EXCEPT ![p] = queue[p]], [task EXCEPT ![p] = task[p]])
           \/ task[p] = "reading" /\ QueueGoes([queue EXCEPT ![p] = queue[p]], [task EXCEPT ![p] = "done"])
    PROVE  ConsoleInv'
<1>1. /\ queue[p] \in Items /\ task[p] \in TaskPlaces
      /\ PromptFits(p, outbox[p], queue[p], task[p], serverRun[p], startedWith[p], history[p], page)
  BY PromptIs
<1>2. /\ serverRun' \in [Prompts -> {"none", "working", "ended"}] /\ serverRun'[p] = "ended"
      /\ \A q \in Prompts : q # p => serverRun'[q] = serverRun[q]
  BY ConsoleInvFields
<1>3. Only(p)
  BY <1>2, ConsoleInvFields DEF Only
<1>4. /\ PromptFits(p, outbox'[p], queue[p], task[p], serverRun'[p], startedWith'[p],
                    history'[p], page)
      /\ task[p] = "reading" => PromptFits(p, outbox'[p], queue[p], "done", serverRun'[p],
                                           startedWith'[p], history'[p], page)
  BY <1>1, <1>2 DEF PromptFits
<1>5. "done" \in TaskPlaces
  BY DEF TaskPlaces
<1> QED
  BY <1>1, <1>3, <1>4, <1>5, OneKeeps

LEMMA EndRunKeeps ==
    ASSUME ConsoleInv, NEW p \in Prompts, EndRun(p)
    PROVE  ConsoleInv'
<1>1. /\ serverRun[p] # "none" /\ serverRun' = [serverRun EXCEPT ![p] = "ended"]
      /\ UNCHANGED <<outbox, startedWith, history, page, queue, task>>
  BY DEF EndRun, promptVars, Others
<1>2. QueueGoes([queue EXCEPT ![p] = queue[p]], [task EXCEPT ![p] = task[p]])
  BY <1>1, SameIs DEF QueueGoes
<1> QED
  BY <1>1, <1>2, RunEndsKeep

LEMMA CancelKeeps ==
    ASSUME ConsoleInv, NEW s \in Chats, Cancel(s)
    PROVE  ConsoleInv'
<1>1. PICK p \in Prompts :
        /\ serverRun[p] # "none" /\ serverRun' = [serverRun EXCEPT ![p] = "ended"]
        /\ Holds(p) => task[p] = "reading"
        /\ \/ Holds(p) /\ GoesTo(p, "done") /\ queue' = queue
           \/ Drain(queue, task, activeRuns', skipped)
           \/ UNCHANGED <<queue, task>>
        /\ UNCHANGED <<outbox, startedWith, history, page>>
  BY DEF Cancel, Others
<1>2. CASE Holds(p) /\ GoesTo(p, "done") /\ queue' = queue
  <2>1. QueueGoes([queue EXCEPT ![p] = queue[p]], [task EXCEPT ![p] = "done"])
    BY <1>2, SameIs DEF QueueGoes, GoesTo
  <2> QED
    BY <1>1, <1>2, <2>1, RunEndsKeep
<1>3. CASE Drain(queue, task, activeRuns', skipped)
  <2>1. QueueGoes([queue EXCEPT ![p] = queue[p]], [task EXCEPT ![p] = task[p]])
    BY <1>1, <1>3, SameIs, DrainGoes
  <2> QED
    BY <1>1, <2>1, RunEndsKeep
<1>4. CASE UNCHANGED <<queue, task>>
  <2>1. QueueGoes([queue EXCEPT ![p] = queue[p]], [task EXCEPT ![p] = task[p]])
    BY <1>4, SameIs DEF QueueGoes
  <2> QED
    BY <1>1, <2>1, RunEndsKeep
<1> QED
  BY <1>1, <1>2, <1>3, <1>4

\* A step beside the prompts, after which pending ones may be launched.
LEMMA BesideKeeps ==
    ASSUME ConsoleInv, UNCHANGED <<outbox, serverRun, startedWith, history>>,
           page' = page \/ (page # "loading" /\ page' # "loading"),
           QueueGoes(queue, task)
    PROVE  ConsoleInv'
<1>1. ASSUME NEW p \in Prompts
      PROVE  PromptFits(p, outbox'[p], queue[p], task[p], serverRun'[p], startedWith'[p],
                        history'[p], page')
  BY PromptIs DEF PromptFits
<1> QED
  BY <1>1, ConsoleInvFields, GoesKeeps

\* The runs the page follows, and the loss of the service.
LEMMA PageKeeps ==
    ASSUME ConsoleInv,
           (\E s \in Chats : Unfollow(s) \/ OpenChat(s)) \/ Choose \/ Offline \/ Online
    PROVE  ConsoleInv'
<1>1. UNCHANGED <<outbox, serverRun, startedWith, history>>
  BY DEF Unfollow, OpenChat, Choose, Offline, Online, serverVars, Others, promptVars
<1>2. page' = page \/ (page # "loading" /\ page' # "loading")
  BY DEF Unfollow, OpenChat, Choose, Offline, Online, Others
<1>3. CASE (\E s \in Chats : Unfollow(s)) \/ Choose
  <2>1. page' = page /\ \E following, left : Drain(queue, task, following, left)
    BY <1>3 DEF Unfollow, Choose, Others
  <2>2. QueueGoes(queue, task)
    BY <2>1, DrainGoes
  <2> QED
    BY <1>1, <2>1, <2>2, BesideKeeps
<1>4. CASE (\E s \in Chats : OpenChat(s)) \/ Offline
  <2>1. QueueGoes(queue, task)
    BY <1>4 DEF OpenChat, Offline, promptVars, QueueGoes
  <2> QED
    BY <1>1, <1>2, <2>1, BesideKeeps
<1>5. CASE Online
  <2>1. PICK launched : launched = Launchable(queue, activeRuns, skipped)
    OBVIOUS
  <2>2. /\ launched \in SUBSET Prompts /\ \A p \in launched : queue[p].status = "pending"
        /\ page' # "loading"
    BY <1>5, <2>1 DEF Launchable, Online
  <2>3. UNCHANGED <<queue, task>> \/ DrainedBy(queue, task, launched)
    BY <1>5, <2>1 DEF Online
  <2>4. QueueGoes(queue, task)
    BY <2>2, <2>3 DEF QueueGoes
  <2> QED
    BY <1>1, <1>2, <2>4, BesideKeeps
<1> QED
  BY <1>3, <1>4, <1>5

\* The page is loaded again, and finds what was stored.
LEMMA ReloadKeeps ==
    ASSUME ConsoleInv, Reload
    PROVE  ConsoleInv'
<1>1. /\ queue' = [p \in Prompts |-> NoItem] /\ task' = [p \in Prompts |-> "none"]
      /\ UNCHANGED <<outbox, serverRun, startedWith, history>>
  BY DEF Reload, serverVars
<1>2. PICK items, tasks : items = [p \in Prompts |-> NoItem] /\ tasks = [p \in Prompts |-> "none"]
  OBVIOUS
<1>3. items \in [Prompts -> Items] /\ tasks \in [Prompts -> TaskPlaces]
  BY <1>2, NoItemIs DEF TaskPlaces
<1>4. QueueGoes(items, tasks)
  BY <1>1, <1>2 DEF QueueGoes
<1>5. ASSUME NEW p \in Prompts
      PROVE  PromptFits(p, outbox'[p], items[p], tasks[p], serverRun'[p], startedWith'[p],
                        history'[p], page')
  BY <1>1, <1>2, NoItemIs, PromptIs DEF PromptFits, KeyFits
<1> QED
  BY <1>1, <1>3, <1>4, <1>5, ConsoleInvFields, GoesKeeps

LEMMA LoadKeeps ==
    ASSUME ConsoleInv, LoadOutbox
    PROVE  ConsoleInv'
<1>1. /\ page = "loading" /\ page' = "offline"
      /\ UNCHANGED <<task, serverRun, startedWith, history>>
  BY DEF LoadOutbox, serverVars
<1>2. PICK saved : saved = [p \in Prompts |-> IF outbox[p].status = "sending"
                                              THEN [outbox[p] EXCEPT !.status = "pending"]
                                              ELSE outbox[p]]
  OBVIOUS
<1>3. ASSUME NEW p \in Prompts
      PROVE  /\ saved[p] \in Items /\ saved[p].key = outbox[p].key
             /\ saved[p] = outbox[p] \/ (saved[p].status = "pending" /\ outbox[p].status # "none")
  BY <1>2, PromptIs, ItemFits
<1>4. saved \in [Prompts -> Items]
  BY <1>2, <1>3
<1>5. CASE queue' = saved /\ outbox' = saved
  <2>1. ASSUME NEW p \in Prompts
        PROVE  PromptFits(p, outbox'[p], saved[p], task[p], serverRun'[p], startedWith'[p],
                          history'[p], page')
    BY <1>1, <1>3, <1>5, PromptIs, NoItemIs DEF PromptFits, KeyFits
  <2>2. QueueGoes(saved, task)
    BY <1>1, <1>5 DEF QueueGoes
  <2> QED
    BY <1>1, <1>4, <1>5, <2>1, <2>2, ConsoleInvFields, GoesKeeps
<1>6. CASE UNCHANGED <<queue, outbox>>
  <2>1. ASSUME NEW p \in Prompts
        PROVE  PromptFits(p, outbox'[p], queue[p], task[p], serverRun'[p], startedWith'[p],
                          history'[p], page')
    BY <1>1, <1>6, PromptIs DEF PromptFits
  <2>2. QueueGoes(queue, task)
    BY <1>1, <1>6 DEF QueueGoes
  <2> QED
    BY <1>1, <1>6, <2>1, <2>2, ConsoleInvFields, GoesKeeps
<1> QED
  BY <1>2, <1>5, <1>6 DEF LoadOutbox

LEMMA ConsoleInvKept == ConsoleInv /\ [ConsoleNext]_consoleVars => ConsoleInv'
<1> SUFFICES ASSUME ConsoleInv, [ConsoleNext]_consoleVars PROVE ConsoleInv'
  OBVIOUS
<1>1. ASSUME NEW p \in Prompts,
             Enqueue(p) \/ RemovePrompt(p) \/ RetryPrompt(p) \/ PromptStep(p) \/ EndRun(p)
      PROVE  ConsoleInv'
  BY <1>1, EnqueueKeeps, RemoveKeeps, RetryKeeps, ClaimKeeps, UploadKeeps, OpenKeeps, NameKeeps,
     ReadKeeps, DoneKeeps, LeaveKeeps, FailKeeps, QuitKeeps, EndRunKeeps DEF PromptStep
<1>2. ASSUME NEW s \in Chats, Cancel(s) \/ Unfollow(s) \/ OpenChat(s)
      PROVE  ConsoleInv'
  BY <1>2, CancelKeeps, PageKeeps
<1>3. CASE Reload \/ LoadOutbox \/ Online \/ Choose \/ Offline
  BY <1>3, ReloadKeeps, LoadKeeps, PageKeeps
<1>4. CASE UNCHANGED consoleVars
  <2>1. UNCHANGED <<outbox, serverRun, startedWith, history, page, queue, task>>
    BY <1>4 DEF consoleVars, promptVars, serverVars
  <2>2. QueueGoes(queue, task)
    BY <2>1 DEF QueueGoes
  <2> QED
    BY <2>1, <2>2, BesideKeeps
<1> QED
  BY <1>1, <1>2, <1>3, <1>4 DEF ConsoleNext

LEMMA ConsoleInvShows == ConsoleInv => PromptKept
<1> SUFFICES ASSUME ConsoleInv, NEW p \in Prompts
             PROVE  /\ Cardinality(startedWith[p]) <= 1
                    /\ history[p] = "accepted" /\ ChatOf[p] \notin MemoryOnly
                         /\ outbox[p] = NoItem => serverRun[p] = "ended"
  BY DEF PromptKept
<1>1. startedWith[p] = {} \/ startedWith[p] = {1}
  BY ConsoleInvFields
<1>2. Cardinality(startedWith[p]) <= 1
  <2>1. CASE startedWith[p] = {}
    BY <2>1, FS_EmptySet
  <2>2. CASE startedWith[p] = {1}
    <3>1. Cardinality({1}) = 1
      BY FS_Singleton
    <3> QED
      BY <2>2, <3>1
  <2> QED
    BY <1>1, <2>1, <2>2
<1> QED
  BY <1>2, PromptIs DEF PromptFits

-----------------------------------------------------------------------------
(* Supervisor: a desktop has one backend, which is gone when a stop says   *)
(* so.  For any callers, processes, calls, desktops and faults.            *)

Callers == Controls \cup {Main}

HeldRecords == [op : {"none", "start", "stop", "restart"},
                at : {"rest", "ask", "look", "spawn", "publish", "poll", "stop", "await",
                      "killed", "again"},
                seen : 0..MaxChildren, answer : {"none", "ok", "error", "external"}]

ShellShape ==
    /\ desktop \in [id : Nat, is : {"up", "leaving", "gone"}]
    /\ command \in 0..MaxChildren /\ starting \in BOOLEAN
    /\ control \in [Callers -> HeldRecords]
    /\ child \in [Processes -> {"none", "born", "serving", "closing", "gone"}]
    /\ parent \in [Processes -> Nat]
    /\ waited \in [Processes -> {"no", "waits", "told", "cleared"}]

PlacesOf(op) ==
    CASE op = "none"    -> {"rest"}
      [] op = "start"   -> {"rest", "ask", "look", "spawn", "publish", "poll"}
      [] op = "stop"    -> {"rest", "stop", "await", "killed"}
      [] op = "restart" -> {"rest", "stop", "await", "killed", "again", "ask", "look", "spawn",
                            "publish", "poll"}

\* What a caller holds: a process that was started, and no answer before its end.
HeldFits(held) ==
    /\ held.at \in PlacesOf(held.op)
    /\ held.at # "rest" => held.answer = "none"
    /\ held.at \in {"publish", "await", "killed"} => held.seen # 0
    /\ held.at = "stop" => held.seen = 0
    /\ held.seen # 0 => child[held.seen] # "none"

ControlsFit ==
    /\ \A k \in Callers : HeldFits(control[k])
    /\ control[Main].op \in {"none", "stop"}

\* One start is on its way, and only while there is no command.
OneStart ==
    \A k \in Callers : control[k].at \in {"spawn", "publish"} =>
        /\ starting /\ command = 0
        /\ \A j \in Callers : control[j].at \in {"spawn", "publish"} => j = k

ProcessesFit ==
    /\ \A c \in Processes :
         /\ parent[c] <= desktop.id
         /\ waited[c] \in {"told", "cleared"} => child[c] = "gone"
    /\ command # 0 => child[command] # "none"

\* Without this a second backend could be started beside one nobody knows.
DesktopOwns ==
    /\ desktop.is # "gone" =>
         \A c \in Processes : Alive(c) /\ parent[c] = desktop.id =>
            command = c \/ \E k \in Callers : control[k].at = "publish" /\ control[k].seen = c
    /\ desktop.is = "gone" => \A k \in Callers : control[k].at = "rest"

ShellInv ==
    /\ ShellShape /\ ControlsFit /\ OneStart /\ ProcessesFit /\ DesktopOwns
    /\ OneBackend /\ StoppedIsGone

LEMMA ShellInvStarts == ShellInit => ShellInv
<1> SUFFICES ASSUME ShellInit PROVE ShellInv
  OBVIOUS
<1>1. /\ desktop = [id |-> 1, is |-> "up"] /\ command = 0 /\ starting = FALSE
      /\ control = [k \in Callers |-> Rests]
      /\ child = [c \in Processes |-> "none"] /\ parent = [c \in Processes |-> 0]
      /\ waited = [c \in Processes |-> "no"]
  BY DEF ShellInit, Callers
<1>2. Rests \in HeldRecords /\ 0 \in 0..MaxChildren
  BY ShellBounds DEF Rests, HeldRecords
<1>3. ShellShape
  BY <1>1, <1>2 DEF ShellShape
<1>4. \A k \in Callers : control[k] = Rests
  BY <1>1
<1>5. Main \in Callers
  BY DEF Callers
<1>6. ControlsFit /\ OneStart
  BY <1>4, <1>5 DEF ControlsFit, OneStart, HeldFits, PlacesOf, Rests
<1>7. ProcessesFit
  BY <1>1 DEF ProcessesFit
<1>8. \A c \in Processes : ~Alive(c)
  BY <1>1 DEF Alive
<1>9. DesktopOwns /\ OneBackend
  BY <1>1, <1>8 DEF DesktopOwns, OneBackend
<1>10. StoppedIsGone
  BY <1>4 DEF StoppedIsGone, Rests, Callers
<1> QED
  BY <1>3, <1>6, <1>7, <1>9, <1>10 DEF ShellInv

\* No process is started, and none comes back.
Fading ==
    /\ child' \in [Processes -> {"none", "born", "serving", "closing", "gone"}]
    /\ \A c \in Processes :
         /\ child'[c] = "none" <=> child[c] = "none"
         /\ Alive(c)' => Alive(c)

HeldIsGone(held) ==
    /\ held.op = "stop" /\ held.answer = "ok" /\ held.seen # 0 => ~Alive(held.seen)
    /\ held.op = "restart" /\ held.at \in {"again", "ask", "look", "spawn"} /\ held.seen # 0
         => ~Alive(held.seen)

\* What becomes of starting when the caller k goes to held.at.
StartGoesOn(k, held) ==
    \/ starting' = starting /\ (held.at = control[k].at \/ held.at \notin {"spawn", "publish"})
    \/ ~starting /\ command = 0 /\ starting' = TRUE
    \/ control[k].at = "spawn" /\ starting' = FALSE /\ held.at \notin {"spawn", "publish"}

\* One caller goes on, and processes may end.
GoesOnAs(k, held) ==
    /\ Fading /\ UNCHANGED <<desktop, command, parent, waited>>
    /\ control' = [control EXCEPT ![k] = held] /\ held \in HeldRecords
    /\ HeldFits(held) /\ HeldIsGone(held) /\ StartGoesOn(k, held)
    /\ k = Main => held.op \in {"none", "stop"}
    /\ desktop.is = "gone" => held.at = "rest"
    /\ control[k].at = "publish" => held = control[k]

LEMMA CallerGoesOn ==
    ASSUME ShellInv, NEW k \in Callers, NEW held, GoesOnAs(k, held)
    PROVE  ShellInv'
<1>1. /\ ShellShape /\ ControlsFit /\ OneStart /\ ProcessesFit /\ DesktopOwns
      /\ OneBackend /\ StoppedIsGone
  BY DEF ShellInv
<1>2. /\ Fading /\ UNCHANGED <<desktop, command, parent, waited>>
      /\ control' = [control EXCEPT ![k] = held] /\ held \in HeldRecords
      /\ HeldFits(held) /\ HeldIsGone(held) /\ StartGoesOn(k, held)
      /\ k = Main => held.op \in {"none", "stop"}
      /\ desktop.is = "gone" => held.at = "rest"
      /\ control[k].at = "publish" => held = control[k]
  BY DEF GoesOnAs
<1>3. \A j \in Callers : control'[j] = IF j = k THEN held ELSE control[j]
  BY <1>1, <1>2 DEF ShellShape
<1>4. starting' \in BOOLEAN
  BY <1>1, <1>2 DEF StartGoesOn, ShellShape
<1>5. ShellShape'
  BY <1>1, <1>2, <1>4 DEF ShellShape, Fading
<1>6. ASSUME NEW x \in HeldRecords, HeldFits(x) PROVE HeldFits(x)'
  <2>1. x.seen # 0 => x.seen \in Processes
    BY <1>6, ShellBounds DEF HeldRecords, Processes
  <2> QED
    BY <1>2, <1>6, <2>1 DEF HeldFits, Fading
<1>7. ASSUME NEW x \in HeldRecords, HeldIsGone(x) PROVE HeldIsGone(x)'
  <2>1. x.seen # 0 => x.seen \in Processes
    BY <1>7, ShellBounds DEF HeldRecords, Processes
  <2> QED
    BY <1>2, <1>7, <2>1 DEF HeldIsGone, Fading
<1>8. \A j \in Callers : control[j] \in HeldRecords
  BY <1>1 DEF ShellShape
<1>9. ControlsFit'
  <2>1. ASSUME NEW j \in Callers PROVE HeldFits(control[j])'
    <3>1. CASE j = k
      <4>1. HeldFits(held)'
        BY <1>2, <1>6
      <4> QED
        BY <1>3, <3>1, <4>1 DEF HeldFits
    <3>2. CASE j # k
      <4>1. HeldFits(control[j])
        BY <1>1 DEF ControlsFit
      <4>2. control'[j] = control[j]
        BY <1>3, <3>2
      <4>3. PICK x : x = control[j]
        OBVIOUS
      <4>4. HeldFits(x)'
        BY <1>6, <1>8, <4>1, <4>3
      <4> QED
        BY <4>2, <4>3, <4>4 DEF HeldFits
    <3> QED
      BY <3>1, <3>2
  <2>2. Main \in Callers
    BY DEF Callers
  <2>3. control'[Main].op \in {"none", "stop"}
    BY <1>1, <1>2, <1>3, <2>2 DEF ControlsFit
  <2> QED
    BY <2>1, <2>3 DEF ControlsFit
<1>10. OneStart'
  <2>1. ASSUME NEW j \in Callers, NEW m \in Callers, control[j].at \in {"spawn", "publish"},
               control[m].at \in {"spawn", "publish"}
        PROVE  m = j
    BY <1>1, <2>1 DEF OneStart
  <2>2. \A j \in Callers : control[j].at \in {"spawn", "publish"} => starting /\ command = 0
    BY <1>1 DEF OneStart
  <2>3. CASE starting' = starting /\ (held.at = control[k].at \/ held.at \notin {"spawn", "publish"})
    <3>1. \A j \in Callers : control'[j].at \in {"spawn", "publish"} =>
             control[j].at \in {"spawn", "publish"}
      BY <1>3, <2>3
    <3> QED
      BY <1>2, <2>1, <2>2, <2>3, <3>1 DEF OneStart
  <2>4. CASE ~starting /\ command = 0 /\ starting' = TRUE
    <3>1. \A j \in Callers : control'[j].at \in {"spawn", "publish"} => j = k
      BY <1>3, <2>2, <2>4
    <3> QED
      BY <1>2, <2>4, <3>1 DEF OneStart
  <2>5. CASE control[k].at = "spawn" /\ starting' = FALSE /\ held.at \notin {"spawn", "publish"}
    <3>1. \A j \in Callers : control'[j].at \notin {"spawn", "publish"}
      BY <1>3, <2>1, <2>5
    <3> QED
      BY <3>1 DEF OneStart
  <2> QED
    BY <1>2, <2>3, <2>4, <2>5 DEF StartGoesOn
<1>11. ProcessesFit'
  <2>1. command # 0 => command \in Processes
    BY <1>1, ShellBounds DEF ShellShape, Processes
  <2>2. \A c \in Processes : child[c] = "gone" => child'[c] = "gone"
    BY <1>2 DEF Fading, Alive
  <2> QED
    BY <1>1, <1>2, <2>1, <2>2 DEF ProcessesFit, Fading
<1>12. DesktopOwns'
  <2>1. ASSUME desktop.is # "gone", NEW c \in Processes, Alive(c)', parent[c] = desktop.id, command # c
        PROVE  \E j \in Callers : control'[j].at = "publish" /\ control'[j].seen = c
    <3>1. PICK j \in Callers : control[j].at = "publish" /\ control[j].seen = c
      BY <1>1, <1>2, <2>1 DEF DesktopOwns, Fading
    <3>2. control'[j] = control[j]
      BY <1>2, <1>3, <3>1
    <3> QED
      BY <3>1, <3>2
  <2>2. desktop.is = "gone" => \A j \in Callers : control'[j].at = "rest"
    BY <1>1, <1>2, <1>3 DEF DesktopOwns
  <2>3. desktop' = desktop /\ command' = command /\ parent' = parent
    BY <1>2
  <2> QED
    BY <2>1, <2>2, <2>3 DEF DesktopOwns
<1>13. OneBackend'
  BY <1>1, <1>2 DEF OneBackend, Fading
<1>14. StoppedIsGone'
  <2>1. ASSUME NEW j \in Callers PROVE HeldIsGone(control[j])'
    <3>1. CASE j = k
      <4>1. HeldIsGone(held)'
        BY <1>2, <1>7
      <4> QED
        BY <1>3, <3>1, <4>1 DEF HeldIsGone
    <3>2. CASE j # k
      <4>1. HeldIsGone(control[j])
        BY <1>1 DEF StoppedIsGone, HeldIsGone, Callers
      <4>2. control'[j] = control[j]
        BY <1>3, <3>2
      <4>3. PICK x : x = control[j]
        OBVIOUS
      <4>4. HeldIsGone(x)'
        BY <1>7, <1>8, <4>1, <4>3
      <4> QED
        BY <4>2, <4>3, <4>4 DEF HeldIsGone
    <3> QED
      BY <3>1, <3>2
  <2> QED
    BY <2>1 DEF StoppedIsGone, HeldIsGone, Callers
<1> QED
  BY <1>5, <1>9, <1>10, <1>11, <1>12, <1>13, <1>14 DEF ShellInv

\* Nobody but k: the others rest, and the processes too.
Quiet == UNCHANGED <<child, desktop, command, parent, waited>>

LEMMA QuietFades == ASSUME ShellInv, Quiet PROVE Fading /\ UNCHANGED <<desktop, command, parent, waited>>
  BY DEF ShellInv, ShellShape, Quiet, Fading, Alive

\* What is known of a caller that is at work.
LEMMA HeldIs ==
    ASSUME ShellInv, NEW k \in Callers
    PROVE  /\ control \in [Callers -> HeldRecords] /\ control[k] \in HeldRecords
           /\ HeldFits(control[k]) /\ HeldIsGone(control[k])
           /\ k = Main => control[k].op \in {"none", "stop"}
           /\ desktop.is = "gone" => control[k].at = "rest"
           /\ control[k].at = "publish" => command = 0 /\ starting
  BY DEF ShellInv, ShellShape, ControlsFit, StoppedIsGone, HeldIsGone, DesktopOwns, OneStart, Callers

LEMMA CallKeeps ==
    ASSUME ShellInv, NEW k \in Controls, NEW op \in {"start", "stop", "restart"}, Call(k, op)
    PROVE  ShellInv'
<1>1. k \in Callers /\ k # Main
  BY ShellBounds DEF Callers
<1>2. /\ desktop.is = "up" /\ control[k].at = "rest" /\ starting' = starting /\ Quiet
      /\ control' = [control EXCEPT ![k] =
           [Rests EXCEPT !.op = op, !.at = IF op = "start" THEN "ask" ELSE "stop"]]
  BY DEF Call, Quiet
<1>3. PICK held : held = [Rests EXCEPT !.op = op, !.at = IF op = "start" THEN "ask" ELSE "stop"]
  OBVIOUS
<1>4. /\ held \in HeldRecords /\ held.op = op /\ held.seen = 0 /\ held.answer = "none"
      /\ held.at = IF op = "start" THEN "ask" ELSE "stop"
  <2>1. 0 \in 0..MaxChildren
    BY ShellBounds
  <2>2. /\ Rests \in HeldRecords /\ Rests.seen = 0 /\ Rests.answer = "none"
    BY <2>1 DEF Rests, HeldRecords
  <2> QED
    BY <1>3, <2>2 DEF HeldRecords
<1>5. HeldFits(held) /\ HeldIsGone(held)
  BY <1>4 DEF HeldFits, HeldIsGone, PlacesOf
<1>6. StartGoesOn(k, held)
  BY <1>2, <1>4 DEF StartGoesOn
<1>7. Fading /\ UNCHANGED <<desktop, command, parent, waited>>
  BY <1>2, QuietFades
<1>8. control' = [control EXCEPT ![k] = held]
  BY <1>2, <1>3, Zenon
<1>9. GoesOnAs(k, held)
  BY <1>1, <1>2, <1>4, <1>5, <1>6, <1>7, <1>8 DEF GoesOnAs
<1> QED
  BY <1>1, <1>9, CallerGoesOn

\* A caller in the middle of its call that goes to another place, or answers.
LEMMA CallerMoves ==
    ASSUME ShellInv, NEW k \in Callers, NEW to, Goes(k, to), control[k].at \notin {"rest", "publish"},
           Fading, UNCHANGED <<desktop, command, parent, waited>>,
           to \in PlacesOf(control[k].op), to \notin {"rest", "publish", "await", "stop"},
           to = "killed" => control[k].seen # 0,
           to \in {"again", "ask", "look", "spawn"} /\ control[k].at \notin {"again", "ask", "look", "spawn"}
              /\ control[k].op = "restart" /\ control[k].seen # 0 => ~Alive(control[k].seen),
           StartGoesOn(k, [control[k] EXCEPT !.at = to])
    PROVE  ShellInv'
<1>1. PICK old, held : old = control[k] /\ held = [old EXCEPT !.at = to]
  OBVIOUS
<1>2. /\ old \in HeldRecords /\ HeldFits(old) /\ HeldIsGone(old)
      /\ k = Main => old.op \in {"none", "stop"}
      /\ desktop.is = "gone" => old.at = "rest"
      /\ control \in [Callers -> HeldRecords]
  BY <1>1, HeldIs
<1>3. control' = [control EXCEPT ![k] = held]
  BY <1>1, <1>2 DEF Goes
<1>4. /\ held.op = old.op /\ held.at = to /\ held.seen = old.seen /\ held.answer = old.answer
      /\ held \in HeldRecords
  <2>1. to \in {"rest", "ask", "look", "spawn", "publish", "poll", "stop", "await", "killed", "again"}
    BY <1>1, <1>2 DEF PlacesOf, HeldRecords
  <2> QED
    BY <1>1, <1>2, <2>1 DEF HeldRecords
<1>5. HeldFits(held)
  BY <1>1, <1>2, <1>4 DEF HeldFits
<1>6. HeldIsGone(held)
  BY <1>1, <1>2, <1>4 DEF HeldIsGone, HeldFits
<1>7. StartGoesOn(k, held)
  BY <1>1
<1>8. GoesOnAs(k, held)
  BY <1>1, <1>2, <1>3, <1>4, <1>5, <1>6, <1>7 DEF GoesOnAs
<1> QED
  BY <1>8, CallerGoesOn

LEMMA CallerAnswers ==
    ASSUME ShellInv, NEW k \in Callers, NEW a \in {"ok", "error", "external"}, Answers(k, a),
           control[k].at \notin {"rest", "publish"},
           Fading, UNCHANGED <<desktop, command, parent, waited>>,
           control[k].op = "stop" /\ a = "ok" /\ control[k].seen # 0 => ~Alive(control[k].seen),
           starting' = starting \/ (control[k].at = "spawn" /\ starting' = FALSE)
    PROVE  ShellInv'
<1>1. PICK old, held : old = control[k] /\ held = [old EXCEPT !.at = "rest", !.answer = a]
  OBVIOUS
<1>2. /\ old \in HeldRecords /\ HeldFits(old)
      /\ k = Main => old.op \in {"none", "stop"}
      /\ desktop.is = "gone" => old.at = "rest"
      /\ control \in [Callers -> HeldRecords]
  BY <1>1, HeldIs
<1>3. control' = [control EXCEPT ![k] = held]
  BY <1>1, <1>2 DEF Answers
<1>4. /\ held.op = old.op /\ held.at = "rest" /\ held.seen = old.seen /\ held.answer = a
      /\ held \in HeldRecords
  BY <1>1, <1>2 DEF HeldRecords
<1>5. HeldFits(held)
  <2>1. "rest" \in PlacesOf(old.op)
    BY <1>2 DEF PlacesOf, HeldRecords
  <2> QED
    BY <1>2, <1>4, <2>1 DEF HeldFits
<1>6. HeldIsGone(held)
  BY <1>1, <1>2, <1>4 DEF HeldIsGone
<1>7. StartGoesOn(k, held)
  BY <1>1, <1>4 DEF StartGoesOn
<1>8. GoesOnAs(k, held)
  BY <1>1, <1>2, <1>3, <1>4, <1>5, <1>6, <1>7 DEF GoesOnAs
<1> QED
  BY <1>8, CallerGoesOn

\* A start has nothing to say of the end of a process.
LEMMA StarterAnswers ==
    ASSUME ShellInv, NEW k \in Callers, Quiet, starting' = starting,
           control[k].op \in {"start", "restart"}, control[k].at \in {"ask", "look", "poll", "again"},
           NEW a \in {"ok", "error", "external"}, Answers(k, a)
    PROVE  ShellInv'
<1>1. Fading /\ UNCHANGED <<desktop, command, parent, waited>>
  BY QuietFades
<1>2. control[k].at \notin {"rest", "publish"} /\ control[k].op # "stop"
  OBVIOUS
<1>3. control[k].op = "stop" /\ a = "ok" /\ control[k].seen # 0 => ~Alive(control[k].seen)
  BY <1>2
<1>4. starting' = starting \/ (control[k].at = "spawn" /\ starting' = FALSE)
  BY Zenon
<1> QED
  BY <1>1, <1>2, <1>3, <1>4, CallerAnswers

LEMMA AskKeeps ==
    ASSUME ShellInv, NEW k \in Callers,
           AskHealth(k) \/ Look(k) \/ Poll(k) \/ StartAgain(k)
    PROVE  ShellInv'
<1>1. PICK old : old = control[k]
  OBVIOUS
<1>2. /\ old \in HeldRecords /\ old.at \in PlacesOf(old.op)
      /\ HeldIsGone(old) /\ old.seen # 0 => child[old.seen] # "none"
  BY <1>1, HeldIs DEF HeldFits
<1>3. ASSUME old.at \in {"ask", "look", "poll", "again"}
      PROVE  old.op \in {"start", "restart"}
  BY <1>2, <1>3 DEF PlacesOf, HeldRecords
<1>4. Quiet => Fading /\ UNCHANGED <<desktop, command, parent, waited>>
  BY QuietFades
<1>5. CASE AskHealth(k)
  <2>1. old.at = "ask" /\ Quiet /\ starting' = starting /\ (Answers(k, "ok") \/ Goes(k, "look"))
    BY <1>1, <1>5 DEF AskHealth, Quiet
  <2>2. CASE Answers(k, "ok")
    BY <1>1, <1>3, <2>1, <2>2, StarterAnswers
  <2>3. CASE Goes(k, "look")
    <3>1. "look" \in PlacesOf(old.op)
      BY <1>3, <2>1 DEF PlacesOf
    <3>2. StartGoesOn(k, [old EXCEPT !.at = "look"])
      BY <1>2, <2>1 DEF StartGoesOn, HeldRecords
    <3> QED
      BY <1>1, <1>3, <1>4, <2>1, <2>3, <3>1, <3>2, CallerMoves
  <2> QED
    BY <2>1, <2>2, <2>3
<1>6. CASE Look(k)
  <2>1. old.at = "look" /\ Quiet
    BY <1>1, <1>6 DEF Look, Quiet
  <2>2. CASE Answers(k, "ok") /\ starting' = starting
    BY <1>1, <1>3, <2>1, <2>2, StarterAnswers
  <2>3. CASE Goes(k, "spawn") /\ starting' = TRUE /\ ~starting /\ command = 0
    <3>1. "spawn" \in PlacesOf(old.op)
      BY <1>3, <2>1 DEF PlacesOf
    <3>2. StartGoesOn(k, [old EXCEPT !.at = "spawn"])
      BY <2>3 DEF StartGoesOn
    <3> QED
      BY <1>1, <1>3, <1>4, <2>1, <2>3, <3>1, <3>2, CallerMoves
  <2> QED
    BY <1>6, <2>2, <2>3 DEF Look
<1>7. CASE Poll(k)
  <2>1. /\ old.at = "poll" /\ Quiet /\ starting' = starting
        /\ \E a \in {"ok", "error", "external"} : Answers(k, a)
    BY <1>1, <1>7 DEF Poll, Quiet
  <2> QED
    BY <1>1, <1>3, <2>1, StarterAnswers
<1>8. CASE StartAgain(k)
  <2>1. /\ old.at = "again" /\ Quiet /\ starting' = starting
        /\ Answers(k, "external") \/ Goes(k, "ask")
    BY <1>1, <1>8 DEF StartAgain, Quiet
  <2>2. CASE Answers(k, "external")
    BY <1>1, <1>3, <2>1, <2>2, StarterAnswers
  <2>3. CASE Goes(k, "ask")
    <3>1. "ask" \in PlacesOf(old.op)
      BY <1>3, <2>1 DEF PlacesOf
    <3>2. StartGoesOn(k, [old EXCEPT !.at = "ask"])
      BY <1>2, <2>1 DEF StartGoesOn, HeldRecords
    <3> QED
      BY <1>1, <1>3, <1>4, <2>1, <2>3, <3>1, <3>2, CallerMoves
  <2> QED
    BY <2>1, <2>2, <2>3
<1> QED
  BY <1>5, <1>6, <1>7, <1>8

\* A process fades when it gets one of these states.
LEMMA OneFades ==
    ASSUME ShellInv, NEW c \in Processes, NEW s \in {"serving", "closing", "gone"},
           child' = [child EXCEPT ![c] = s], child[c] # "none", Alive(c) \/ s = "gone"
    PROVE  Fading
  BY DEF ShellInv, ShellShape, Fading, Alive

\* Processes may end by themselves.
LEMMA ProcessStepKeeps ==
    ASSUME ShellInv, NEW c \in Processes,
           Listen(c) \/ WatchParent(c) \/ CloseDown(c) \/ ProcessCrash(c)
    PROVE  ShellInv'
<1>1. /\ UNCHANGED <<desktop, command, starting, control, parent, waited>>
      /\ Alive(c) /\ child[c] # "none"
      /\ \E s \in {"serving", "closing", "gone"} : child' = [child EXCEPT ![c] = s]
  BY DEF Listen, WatchParent, CloseDown, ProcessCrash, Alive
<1>2. Fading
  BY <1>1, OneFades
<1>3. PICK held : held = control[Main]
  OBVIOUS
<1>4. Main \in Callers
  BY DEF Callers
<1>5. /\ control \in [Callers -> HeldRecords] /\ held \in HeldRecords
      /\ HeldFits(held) /\ HeldIsGone(held) /\ held.op \in {"none", "stop"}
      /\ desktop.is = "gone" => held.at = "rest"
  BY <1>3, <1>4, HeldIs
<1>6. control' = [control EXCEPT ![Main] = held]
  BY <1>1, <1>3, <1>4, <1>5
<1>7. StartGoesOn(Main, held)
  BY <1>1, <1>3 DEF StartGoesOn
<1>8. GoesOnAs(Main, held)
  BY <1>1, <1>2, <1>3, <1>5, <1>6, <1>7 DEF GoesOnAs
<1> QED
  BY <1>4, <1>8, CallerGoesOn

\* The process that a stop has found, by where the stop is.
LEMMA StopKeeps ==
    ASSUME ShellInv, NEW k \in Callers, LookToStop(k) \/ Ended(k) \/ OutOfTime(k)
    PROVE  ShellInv'
<1>1. PICK old : old = control[k]
  OBVIOUS
<1>2. /\ old \in HeldRecords /\ HeldFits(old) /\ HeldIsGone(old)
      /\ k = Main => old.op \in {"none", "stop"}
      /\ desktop.is = "gone" => old.at = "rest"
      /\ control \in [Callers -> HeldRecords]
  BY <1>1, HeldIs
<1>3. /\ UNCHANGED <<desktop, command, parent, waited>> /\ starting' = starting
      /\ old.at \in {"stop", "await", "killed"}
  BY <1>1 DEF LookToStop, Ended, OutOfTime
<1>4. old.op \in {"stop", "restart"} /\ old.at \notin {"rest", "publish"} /\ desktop.is # "gone"
  BY <1>2, <1>3 DEF HeldFits, PlacesOf, HeldRecords
<1>5. ASSUME Fading, AfterStop(k), old.seen # 0 => ~Alive(old.seen)
      PROVE  ShellInv'
  <2>1. CASE old.op = "restart"
    <3>1. Goes(k, "again") /\ "again" \in PlacesOf(old.op)
      BY <1>1, <1>5, <2>1 DEF AfterStop, PlacesOf
    <3>2. StartGoesOn(k, [old EXCEPT !.at = "again"])
      BY <1>2, <1>3 DEF StartGoesOn, HeldRecords
    <3> QED
      BY <1>1, <1>3, <1>4, <1>5, <3>1, <3>2, CallerMoves
  <2>2. CASE old.op = "stop"
    <3>1. Answers(k, "ok")
      BY <1>1, <1>5, <2>2 DEF AfterStop
    <3>2. starting' = starting \/ (control[k].at = "spawn" /\ starting' = FALSE)
      BY <1>3, Zenon
    <3> QED
      BY <1>1, <1>3, <1>4, <1>5, <3>1, <3>2, CallerAnswers
  <2> QED
    BY <1>4, <2>1, <2>2
<1>6. ASSUME Fading, NEW a \in {"error", "external"}, Answers(k, a)
      PROVE  ShellInv'
  <2>1. starting' = starting \/ (control[k].at = "spawn" /\ starting' = FALSE)
    BY <1>3, Zenon
  <2>2. control[k].op = "stop" /\ a = "ok" /\ control[k].seen # 0 => ~Alive(control[k].seen)
    OBVIOUS
  <2>3. a \in {"ok", "error", "external"} /\ control[k].at \notin {"rest", "publish"}
    BY <1>1, <1>4
  <2> QED
    BY <1>3, <1>6, <2>1, <2>2, <2>3, CallerAnswers
<1>7. UNCHANGED child => Fading
  BY <1>3, QuietFades DEF Quiet
<1>8. CASE LookToStop(k)
  <2>1. old.at = "stop" /\ old.seen = 0
    BY <1>1, <1>2, <1>8 DEF LookToStop, HeldFits
  <2>2. CASE command = 0
    <3>1. UNCHANGED child
      BY <1>8, <2>2 DEF LookToStop
    <3>2. \/ AfterStop(k)
          \/ Answers(k, "external")
      BY <1>8, <2>2 DEF LookToStop, AfterStop
    <3> QED
      BY <1>5, <1>6, <1>7, <2>1, <3>1, <3>2
  <2>3. CASE command # 0
    <3>1. PICK held : held = [old EXCEPT !.at = "await", !.seen = command]
      OBVIOUS
    <3>2. /\ control' = [control EXCEPT ![k] = held]
          /\ child' = [child EXCEPT ![command] = OnInterrupt(child[command])] \/ UNCHANGED child
      BY <1>1, <1>2, <1>8, <2>3, <3>1 DEF LookToStop
    <3>3. /\ command \in Processes /\ command \in 0..MaxChildren /\ child[command] # "none"
          /\ child \in [Processes -> {"none", "born", "serving", "closing", "gone"}]
      BY <2>3, ShellBounds DEF ShellInv, ShellShape, ProcessesFit, Processes
    <3>4. Fading
      <4>1. CASE UNCHANGED child
        BY <1>7, <4>1
      <4>2. CASE child' = [child EXCEPT ![command] = OnInterrupt(child[command])]
        BY <3>3, <4>2 DEF Fading, OnInterrupt, Alive
      <4> QED
        BY <3>2, <4>1, <4>2
    <3>5. /\ held \in HeldRecords /\ held.op = old.op /\ held.at = "await" /\ held.seen = command
          /\ held.answer = old.answer
      BY <1>2, <3>1, <3>3 DEF HeldRecords
    <3>6. HeldFits(held)
      <4>1. "await" \in PlacesOf(old.op)
        BY <1>4 DEF PlacesOf
      <4>2. old.answer = "none"
        BY <1>2, <2>1 DEF HeldFits
      <4> QED
        BY <2>3, <3>3, <3>5, <4>1, <4>2 DEF HeldFits
    <3>7. HeldIsGone(held)
      <4>1. old.answer = "none"
        BY <1>2, <2>1 DEF HeldFits
      <4> QED
        BY <3>5, <4>1 DEF HeldIsGone
    <3>8. StartGoesOn(k, held)
      BY <1>3, <3>5 DEF StartGoesOn
    <3>9. GoesOnAs(k, held)
      BY <1>1, <1>2, <1>3, <1>4, <3>2, <3>4, <3>5, <3>6, <3>7, <3>8 DEF GoesOnAs
    <3> QED
      BY <3>9, CallerGoesOn
  <2> QED
    BY <2>2, <2>3
<1>9. CASE Ended(k)
  <2>1. /\ AfterStop(k) /\ UNCHANGED child /\ old.at \in {"await", "killed"}
        /\ waited[old.seen] \in {"told", "cleared"}
    BY <1>1, <1>9 DEF Ended
  <2>2. old.seen \in Processes
    BY <1>2, <2>1, ShellBounds DEF HeldFits, HeldRecords, Processes
  <2>3. ~Alive(old.seen)
    BY <2>1, <2>2 DEF ShellInv, ProcessesFit, Alive
  <2> QED
    BY <1>5, <1>7, <2>1, <2>3
<1>10. CASE OutOfTime(k)
  <2>1. old.at = "await" /\ old.seen # 0 /\ child[old.seen] # "none"
    BY <1>1, <1>2, <1>10 DEF OutOfTime, HeldFits
  <2>2. CASE Answers(k, "error") /\ UNCHANGED child
    BY <1>6, <1>7, <2>2
  <2>3. CASE Goes(k, "killed") /\ child' = [child EXCEPT ![old.seen] = "gone"]
    <3>1. old.seen \in Processes
      BY <1>2, <2>1, ShellBounds DEF HeldRecords, Processes
    <3>2. Fading
      BY <2>1, <2>3, <3>1, OneFades
    <3>3. StartGoesOn(k, [old EXCEPT !.at = "killed"])
      BY <1>2, <1>3 DEF StartGoesOn, HeldRecords
    <3>4. "killed" \in PlacesOf(old.op)
      BY <1>4 DEF PlacesOf
    <3> QED
      BY <1>1, <1>3, <1>4, <2>1, <2>3, <3>2, <3>3, <3>4, CallerMoves
  <2> QED
    BY <1>1, <1>10, <2>2, <2>3 DEF OutOfTime
<1> QED
  BY <1>8, <1>9, <1>10

\* A process is started while its desktop has none.
LEMMA SpawnKeeps ==
    ASSUME ShellInv, NEW k \in Callers, Spawn(k)
    PROVE  ShellInv'
<1>1. PICK old : old = control[k]
  OBVIOUS
<1>2. /\ old \in HeldRecords /\ HeldFits(old) /\ old.at = "spawn"
      /\ k = Main => old.op \in {"none", "stop"}
      /\ desktop.is = "gone" => old.at = "rest"
      /\ control \in [Callers -> HeldRecords]
  BY <1>1, HeldIs DEF Spawn
<1>3. old.op \in {"start", "restart"} /\ desktop.is # "gone" /\ k # Main
  BY <1>2 DEF HeldFits, PlacesOf, HeldRecords
<1>4. CASE Answers(k, "error") /\ starting' = FALSE /\ UNCHANGED <<child, parent>>
  <2>1. Quiet
    BY <1>4 DEF Spawn, Quiet
  <2>2. Fading /\ UNCHANGED <<desktop, command, parent, waited>>
    BY <2>1, QuietFades
  <2>3. starting' = starting \/ (control[k].at = "spawn" /\ starting' = FALSE)
    BY <1>1, <1>2, <1>4, Zenon
  <2>4. control[k].op = "stop" /\ "error" = "ok" /\ control[k].seen # 0 => ~Alive(control[k].seen)
    OBVIOUS
  <2>5. control[k].at \notin {"rest", "publish"}
    BY <1>1, <1>2
  <2> QED
    BY <1>4, <2>2, <2>3, <2>4, <2>5, CallerAnswers
<1>5. CASE \E c \in Processes :
            /\ child[c] = "none" /\ \A d \in Processes : d < c => child[d] # "none"
            /\ child' = [child EXCEPT ![c] = "born"]
            /\ parent' = [parent EXCEPT ![c] = desktop.id]
            /\ control' = [control EXCEPT ![k].at = "publish", ![k].seen = c]
            /\ UNCHANGED <<starting, shellFaults>>
  <2>1. PICK c \in Processes :
            /\ child[c] = "none"
            /\ child' = [child EXCEPT ![c] = "born"]
            /\ parent' = [parent EXCEPT ![c] = desktop.id]
            /\ control' = [control EXCEPT ![k].at = "publish", ![k].seen = c]
            /\ starting' = starting
    BY <1>5
  <2>2. UNCHANGED <<desktop, command, waited>>
    BY DEF Spawn
  <2>3. PICK held : held = [old EXCEPT !.at = "publish", !.seen = c]
    OBVIOUS
  <2>4. /\ ShellShape /\ ControlsFit /\ OneStart /\ ProcessesFit /\ DesktopOwns
        /\ OneBackend /\ StoppedIsGone
    BY DEF ShellInv
  <2>5. c \in 0..MaxChildren /\ c # 0
    BY ShellBounds DEF Processes
  <2>6. /\ held \in HeldRecords /\ held.op = old.op /\ held.at = "publish" /\ held.seen = c
        /\ held.answer = old.answer /\ control' = [control EXCEPT ![k] = held]
    BY <1>1, <1>2, <2>1, <2>3, <2>5 DEF HeldRecords
  <2>7. \A j \in Callers : control'[j] = IF j = k THEN held ELSE control[j]
    BY <1>2, <2>6
  <2>8. /\ child \in [Processes -> {"none", "born", "serving", "closing", "gone"}]
        /\ parent \in [Processes -> Nat] /\ desktop.id \in Nat
    BY <2>4 DEF ShellShape
  <2>9. /\ \A d \in Processes : child'[d] = IF d = c THEN "born" ELSE child[d]
        /\ \A d \in Processes : parent'[d] = IF d = c THEN desktop.id ELSE parent[d]
    BY <2>1, <2>8
  <2>10. \A d \in Processes : (d # c => (Alive(d)' <=> Alive(d))) /\ Alive(c)' /\ ~Alive(c)
    BY <2>1, <2>9 DEF Alive
  <2>11. ShellShape'
    <3>1. /\ desktop' \in [id : Nat, is : {"up", "leaving", "gone"}]
          /\ command' \in 0..MaxChildren /\ starting' \in BOOLEAN
          /\ waited' \in [Processes -> {"no", "waits", "told", "cleared"}]
      BY <2>1, <2>2, <2>4 DEF ShellShape
    <3>2. control \in [Callers -> HeldRecords]
      BY <2>4 DEF ShellShape
    <3>3. control' \in [Callers -> HeldRecords]
      BY <1>2, <2>6, <3>2
    <3>4. child' \in [Processes -> {"none", "born", "serving", "closing", "gone"}]
      BY <2>1, <2>8
    <3>5. parent' \in [Processes -> Nat]
      BY <2>1, <2>8
    <3> QED
      BY <3>1, <3>3, <3>4, <3>5 DEF ShellShape
  <2>12. ControlsFit'
    <3>1. ASSUME NEW j \in Callers PROVE HeldFits(control[j])'
      <4>1. CASE j = k
        <5>1. "publish" \in PlacesOf(old.op) /\ old.answer = "none"
          BY <1>2, <1>3 DEF PlacesOf, HeldFits
        <5>2. control'[j] = held /\ child'[c] = "born"
          BY <2>7, <2>9, <4>1
        <5> QED
          BY <2>5, <2>6, <5>1, <5>2 DEF HeldFits
      <4>2. CASE j # k
        <5>1. control'[j] = control[j] /\ HeldFits(control[j]) /\ control[j] \in HeldRecords
          BY <1>2, <2>4, <2>7, <4>2 DEF ControlsFit
        <5>2. control[j].seen # 0 => control[j].seen \in Processes
          BY <5>1, ShellBounds DEF HeldRecords, Processes
        <5> QED
          BY <2>9, <5>1, <5>2 DEF HeldFits
      <4> QED
        BY <4>1, <4>2
    <3>2. Main \in Callers
      BY DEF Callers
    <3>3. control'[Main].op \in {"none", "stop"}
      BY <1>3, <2>4, <2>7, <3>2 DEF ControlsFit
    <3> QED
      BY <3>1, <3>3 DEF ControlsFit
  <2>13. /\ starting /\ command = 0
         /\ \A j \in Callers : control[j].at \in {"spawn", "publish"} => j = k
    BY <1>1, <1>2, <2>4 DEF OneStart
  <2>14. OneStart'
    <3>1. \A j \in Callers : control'[j].at \in {"spawn", "publish"} => j = k
      BY <2>7, <2>13
    <3> QED
      BY <2>1, <2>2, <2>13, <3>1 DEF OneStart
  <2>15. ProcessesFit'
    BY <2>1, <2>2, <2>4, <2>8, <2>9, <2>13 DEF ProcessesFit
  <2>16. \A d \in Processes : Alive(d) => parent[d] # desktop.id
    <3>1. ASSUME NEW d \in Processes, Alive(d), parent[d] = desktop.id PROVE FALSE
      <4>1. d # 0
        BY ShellBounds DEF Processes
      <4>2. \E j \in Callers : control[j].at = "publish" /\ control[j].seen = d
        BY <1>3, <2>4, <2>13, <3>1, <4>1 DEF DesktopOwns
      <4> QED
        BY <1>1, <1>2, <2>13, <4>2
    <3> QED
      BY <3>1
  <2>17. DesktopOwns'
    <3>1. ASSUME NEW d \in Processes, Alive(d)', parent'[d] = desktop.id
          PROVE  \E j \in Callers : control'[j].at = "publish" /\ control'[j].seen = d
      <4>1. d = c
        BY <2>9, <2>10, <2>16, <3>1
      <4>2. control'[k].at = "publish" /\ control'[k].seen = c
        BY <2>6, <2>7
      <4> QED
        BY <4>1, <4>2
    <3> QED
      BY <1>3, <2>2, <3>1 DEF DesktopOwns
  <2>18. OneBackend'
    <3>1. ASSUME NEW d \in Processes, NEW x \in Processes, Alive(d)', Alive(x)', parent'[d] = parent'[x]
          PROVE  d = x
      <4>1. CASE d # c /\ x # c
        BY <2>4, <2>9, <2>10, <3>1, <4>1 DEF OneBackend
      <4>2. CASE d = c \/ x = c
        BY <2>9, <2>10, <2>16, <3>1, <4>2
      <4> QED
        BY <4>1, <4>2
    <3> QED
      BY <3>1 DEF OneBackend
  <2>19. StoppedIsGone'
    <3>1. ASSUME NEW j \in Callers PROVE HeldIsGone(control[j])'
      <4>1. CASE j = k
        BY <1>3, <2>6, <2>7, <4>1 DEF HeldIsGone
      <4>2. CASE j # k
        <5>1. /\ control'[j] = control[j] /\ HeldFits(control[j]) /\ control[j] \in HeldRecords
              /\ HeldIsGone(control[j])
          BY <1>2, <2>7, <4>2, HeldIs
        <5>2. control[j].seen # 0 => control[j].seen \in Processes /\ control[j].seen # c
          BY <2>1, <5>1, ShellBounds DEF HeldRecords, Processes, HeldFits
        <5> QED
          BY <2>10, <5>1, <5>2 DEF HeldIsGone
      <4> QED
        BY <4>1, <4>2
    <3> QED
      BY <3>1 DEF StoppedIsGone, HeldIsGone, Callers
  <2> QED
    BY <2>11, <2>12, <2>14, <2>15, <2>17, <2>18, <2>19 DEF ShellInv
<1> QED
  BY <1>4, <1>5 DEF Spawn

LEMMA PublishKeeps ==
    ASSUME ShellInv, NEW k \in Callers, Publish(k)
    PROVE  ShellInv'
<1>1. PICK old, c, held : old = control[k] /\ c = old.seen /\ held = [old EXCEPT !.at = "poll"]
  OBVIOUS
<1>2. /\ old \in HeldRecords /\ HeldFits(old) /\ HeldIsGone(old) /\ old.at = "publish"
      /\ k = Main => old.op \in {"none", "stop"}
      /\ desktop.is = "gone" => old.at = "rest"
      /\ control \in [Callers -> HeldRecords]
  BY <1>1, HeldIs DEF Publish
<1>3. /\ UNCHANGED <<desktop, child, parent>> /\ command' = c /\ starting' = FALSE
      /\ control' = [control EXCEPT ![k] = held] /\ waited' = [waited EXCEPT ![c] = "waits"]
  BY <1>1, <1>2 DEF Publish, Goes
<1>4. /\ c \in Processes /\ c # 0 /\ c \in 0..MaxChildren /\ child[c] # "none" /\ old.answer = "none"
  BY <1>1, <1>2, ShellBounds DEF HeldFits, HeldRecords, Processes
<1>5. /\ held \in HeldRecords /\ held.op = old.op /\ held.at = "poll" /\ held.seen = c
      /\ held.answer = "none"
  BY <1>1, <1>2, <1>4 DEF HeldRecords
<1>6. old.op \in {"start", "restart"} /\ k # Main
  BY <1>2 DEF HeldFits, PlacesOf, HeldRecords
<1>7. \A j \in Callers : control'[j] = IF j = k THEN held ELSE control[j]
  BY <1>2, <1>3
<1>8. /\ ShellShape /\ ControlsFit /\ OneStart /\ ProcessesFit /\ DesktopOwns
      /\ OneBackend /\ StoppedIsGone
  BY DEF ShellInv
<1>9. command = 0 /\ \A j \in Callers : control[j].at \in {"spawn", "publish"} => j = k
  BY <1>1, <1>2, <1>8 DEF OneStart
<1>10. ShellShape'
  BY <1>2, <1>3, <1>4, <1>5, <1>8 DEF ShellShape
<1>11. ControlsFit'
  <2>1. ASSUME NEW j \in Callers PROVE HeldFits(control[j])'
    <3>1. CASE j = k
      <4>1. "poll" \in PlacesOf(old.op)
        BY <1>6 DEF PlacesOf
      <4> QED
        BY <1>3, <1>4, <1>5, <1>7, <3>1, <4>1 DEF HeldFits
    <3>2. CASE j # k
      BY <1>3, <1>7, <1>8, <3>2 DEF ControlsFit, HeldFits
    <3> QED
      BY <3>1, <3>2
  <2>2. Main \in Callers
    BY DEF Callers
  <2>3. control'[Main].op \in {"none", "stop"}
    BY <1>6, <1>7, <1>8, <2>2 DEF ControlsFit
  <2> QED
    BY <2>1, <2>3 DEF ControlsFit
<1>12. OneStart'
  <2>1. \A j \in Callers : control'[j].at \notin {"spawn", "publish"}
    BY <1>5, <1>7, <1>9
  <2> QED
    BY <2>1 DEF OneStart
<1>13. ProcessesFit'
  <2>1. \A d \in Processes : waited'[d] = IF d = c THEN "waits" ELSE waited[d]
    BY <1>3, <1>8 DEF ShellShape
  <2> QED
    BY <1>3, <1>4, <1>8, <2>1 DEF ProcessesFit
<1>14. DesktopOwns'
  <2>1. desktop.is # "gone"
    BY <1>2
  <2>2. ASSUME NEW d \in Processes, Alive(d), parent[d] = desktop.id PROVE d = c
    <3>1. \E j \in Callers : control[j].at = "publish" /\ control[j].seen = d
      <4>1. d # 0
        BY ShellBounds DEF Processes
      <4> QED
        BY <1>8, <1>9, <2>1, <2>2, <4>1 DEF DesktopOwns
    <3> QED
      BY <1>1, <1>9, <3>1
  <2> QED
    BY <1>3, <2>1, <2>2 DEF DesktopOwns, Alive
<1>15. OneBackend'
  BY <1>3, <1>8 DEF OneBackend, Alive
<1>16. StoppedIsGone'
  <2>1. ASSUME NEW j \in Callers PROVE HeldIsGone(control[j])'
    <3>1. CASE j = k
      BY <1>5, <1>6, <1>7, <3>1 DEF HeldIsGone
    <3>2. CASE j # k
      <4>1. control'[j] = control[j] /\ HeldIsGone(control[j])
        BY <1>7, <3>2, HeldIs
      <4> QED
        BY <1>3, <4>1 DEF HeldIsGone, Alive
    <3> QED
      BY <3>1, <3>2
  <2> QED
    BY <2>1 DEF StoppedIsGone, HeldIsGone, Callers
<1> QED
  BY <1>10, <1>11, <1>12, <1>13, <1>14, <1>15, <1>16 DEF ShellInv

\* The waiter of a process notes its end, and clears the command.
LEMMA WaiterKeeps ==
    ASSUME ShellInv, NEW c \in Processes, Tell(c) \/ Clear(c)
    PROVE  ShellInv'
<1>1. /\ UNCHANGED <<desktop, starting, control, child, parent>> /\ child[c] = "gone"
      /\ \E s \in {"told", "cleared"} : waited' = [waited EXCEPT ![c] = s]
      /\ command' = command \/ (command = c /\ command' = 0)
  BY DEF Tell, Clear, ShellInv, ProcessesFit
<1>2. /\ ShellShape /\ ControlsFit /\ OneStart /\ ProcessesFit /\ DesktopOwns
      /\ OneBackend /\ StoppedIsGone
  BY DEF ShellInv
<1>3. 0 \in 0..MaxChildren
  BY ShellBounds
<1>4. ShellShape'
  BY <1>1, <1>2, <1>3 DEF ShellShape
<1>5. ControlsFit'
  BY <1>1, <1>2 DEF ControlsFit, HeldFits
<1>6. OneStart'
  BY <1>1, <1>2 DEF OneStart
<1>7. ProcessesFit'
  <2>1. \A d \in Processes : d # c => waited'[d] = waited[d]
    BY <1>1, <1>2 DEF ShellShape
  <2> QED
    BY <1>1, <1>2, <2>1 DEF ProcessesFit
<1>8. DesktopOwns'
  <2>1. ~Alive(c)
    BY <1>1 DEF Alive
  <2> QED
    BY <1>1, <1>2, <2>1 DEF DesktopOwns, Alive
<1>9. OneBackend' /\ StoppedIsGone'
  BY <1>1, <1>2 DEF OneBackend, StoppedIsGone, Alive
<1> QED
  BY <1>4, <1>5, <1>6, <1>7, <1>8, <1>9 DEF ShellInv

\* The window is closed: the last stop begins.
LEMMA CloseWindowKeeps ==
    ASSUME ShellInv, CloseWindow
    PROVE  ShellInv'
<1>1. PICK last, held : last = [desktop EXCEPT !.is = "leaving"]
                        /\ held = [Rests EXCEPT !.op = "stop", !.at = "stop"]
  OBVIOUS
<1>2. /\ desktop.is = "up" /\ desktop' = last /\ control' = [control EXCEPT ![Main] = held]
      /\ UNCHANGED <<command, starting, child, parent, waited>>
  BY <1>1 DEF CloseWindow
<1>3. /\ held \in HeldRecords /\ held.op = "stop" /\ held.seen = 0 /\ held.answer = "none"
      /\ held.at = "stop"
  <2>1. 0 \in 0..MaxChildren
    BY ShellBounds
  <2>2. /\ Rests \in HeldRecords /\ Rests.seen = 0 /\ Rests.answer = "none"
    BY <2>1 DEF Rests, HeldRecords
  <2> QED
    BY <1>1, <2>2 DEF HeldRecords
<1>4. /\ ShellShape /\ ControlsFit /\ OneStart /\ ProcessesFit /\ DesktopOwns
      /\ OneBackend /\ StoppedIsGone
  BY DEF ShellInv
<1>5. /\ last \in [id : Nat, is : {"up", "leaving", "gone"}] /\ last.id = desktop.id
      /\ last.is = "leaving" /\ Main \in Callers
  BY <1>1, <1>4 DEF ShellShape, Callers
<1>6. /\ \A j \in Callers : control'[j] = IF j = Main THEN held ELSE control[j]
      /\ control[Main] \in HeldRecords /\ control[Main].at # "publish"
  <2>1. control[Main].op \in {"none", "stop"} /\ HeldFits(control[Main])
    BY <1>4, <1>5 DEF ControlsFit
  <2> QED
    BY <1>2, <1>4, <1>5, <2>1 DEF ShellShape, HeldFits, PlacesOf
<1>7. ShellShape'
  BY <1>2, <1>3, <1>4, <1>5 DEF ShellShape
<1>8. ControlsFit'
  <2>1. held.at \in PlacesOf(held.op)
    BY <1>3 DEF PlacesOf
  <2>2. ASSUME NEW j \in Callers PROVE HeldFits(control[j])'
    <3>1. CASE j = Main
      BY <1>3, <1>6, <2>1, <3>1 DEF HeldFits, PlacesOf
    <3>2. CASE j # Main
      <4>1. control'[j] = control[j] /\ HeldFits(control[j])
        BY <1>4, <1>6, <3>2 DEF ControlsFit
      <4> QED
        BY <1>2, <4>1 DEF HeldFits, PlacesOf
    <3> QED
      BY <3>1, <3>2
  <2> QED
    BY <1>3, <1>5, <1>6, <2>2 DEF ControlsFit
<1>9. OneStart'
  BY <1>2, <1>3, <1>4, <1>6 DEF OneStart
<1>10. ProcessesFit'
  BY <1>2, <1>4, <1>5 DEF ProcessesFit
<1>11. DesktopOwns'
  <2>1. ASSUME NEW c \in Processes, Alive(c), parent[c] = desktop.id, command # c
        PROVE  \E j \in Callers : control'[j].at = "publish" /\ control'[j].seen = c
    <3>1. PICK j \in Callers : control[j].at = "publish" /\ control[j].seen = c
      BY <1>2, <1>4, <2>1 DEF DesktopOwns
    <3> QED
      BY <1>6, <3>1
  <2> QED
    BY <1>2, <1>5, <2>1 DEF DesktopOwns, Alive
<1>12. OneBackend'
  BY <1>2, <1>4 DEF OneBackend, Alive
<1>13. StoppedIsGone'
  BY <1>2, <1>3, <1>4, <1>6 DEF StoppedIsGone, Alive, Callers
<1> QED
  BY <1>7, <1>8, <1>9, <1>10, <1>11, <1>12, <1>13 DEF ShellInv

\* A desktop ends with all its callers, and another one knows no process yet.
LEMMA DesktopKeeps ==
    ASSUME ShellInv, EndDesktop \/ OpenDesktop
    PROVE  ShellInv'
<1>1. /\ ShellShape /\ ControlsFit /\ OneStart /\ ProcessesFit /\ DesktopOwns
      /\ OneBackend /\ StoppedIsGone
  BY DEF ShellInv
<1>2. /\ desktop \in [id : Nat, is : {"up", "leaving", "gone"}] /\ desktop.id \in Nat
  BY <1>1 DEF ShellShape
<1>3. CASE EndDesktop
  <2>1. /\ desktop' = [desktop EXCEPT !.is = "gone"] /\ starting' = FALSE /\ command' = 0
        /\ control' = [j \in Callers |-> Rests]
        /\ waited' = [c \in Processes |-> "no"] /\ UNCHANGED <<child, parent>>
    BY <1>3 DEF EndDesktop, Callers
  <2>2. Rests \in HeldRecords /\ 0 \in 0..MaxChildren
    BY ShellBounds DEF Rests, HeldRecords
  <2>3. \A j \in Callers : control'[j] = Rests
    BY <2>1
  <2>4. /\ desktop' \in [id : Nat, is : {"up", "leaving", "gone"}] /\ desktop'.id = desktop.id
        /\ desktop'.is = "gone"
    BY <1>2, <2>1
  <2>5. ShellShape'
    BY <1>1, <2>1, <2>2, <2>4 DEF ShellShape
  <2>6. ControlsFit' /\ OneStart'
    <3>1. Main \in Callers
      BY DEF Callers
    <3> QED
      BY <2>3, <3>1 DEF ControlsFit, OneStart, HeldFits, PlacesOf, Rests
  <2>7. ProcessesFit'
    BY <1>1, <2>1, <2>4 DEF ProcessesFit
  <2>8. DesktopOwns'
    BY <2>3, <2>4 DEF DesktopOwns, Rests
  <2>9. OneBackend'
    BY <1>1, <2>1 DEF OneBackend, Alive
  <2>10. StoppedIsGone'
    BY <2>3 DEF StoppedIsGone, Callers, Rests
  <2> QED
    BY <2>5, <2>6, <2>7, <2>8, <2>9, <2>10 DEF ShellInv
<1>4. CASE OpenDesktop
  <2>1. /\ desktop' = [id |-> desktop.id + 1, is |-> "up"]
        /\ UNCHANGED <<command, starting, control, child, parent, waited>>
    BY <1>4 DEF OpenDesktop
  <2>2. ShellShape'
    BY <1>1, <1>2, <2>1 DEF ShellShape
  <2>3. ControlsFit' /\ OneStart'
    BY <1>1, <2>1 DEF ControlsFit, OneStart, HeldFits
  <2>4. ProcessesFit' /\ \A c \in Processes : parent[c] < desktop.id + 1 /\ parent[c] \in Nat
    BY <1>1, <1>2, <2>1 DEF ProcessesFit, ShellShape
  <2>5. DesktopOwns'
    BY <1>2, <2>1, <2>4 DEF DesktopOwns
  <2>6. OneBackend' /\ StoppedIsGone'
    BY <1>1, <2>1 DEF OneBackend, StoppedIsGone, Alive
  <2> QED
    BY <2>2, <2>3, <2>4, <2>5, <2>6 DEF ShellInv
<1> QED
  BY <1>3, <1>4

LEMMA ShellInvKept == ShellInv /\ [ShellNext]_shellVars => ShellInv'
<1> SUFFICES ASSUME ShellInv, [ShellNext]_shellVars PROVE ShellInv'
  OBVIOUS
<1>1. CASE \E k \in Controls, op \in {"start", "stop", "restart"} : Call(k, op)
  BY <1>1, CallKeeps
<1>2. ASSUME NEW k \in Callers,
             \/ AskHealth(k) \/ Look(k) \/ Spawn(k) \/ Publish(k) \/ Poll(k)
             \/ LookToStop(k) \/ Ended(k) \/ OutOfTime(k) \/ StartAgain(k)
      PROVE  ShellInv'
  BY <1>2, AskKeeps, SpawnKeeps, PublishKeeps, StopKeeps
<1>3. ASSUME NEW c \in Processes,
             Tell(c) \/ Clear(c) \/ Listen(c) \/ WatchParent(c) \/ CloseDown(c) \/ ProcessCrash(c)
      PROVE  ShellInv'
  BY <1>3, WaiterKeeps, ProcessStepKeeps
<1>4. CASE StrangerLeaves \/ UNCHANGED shellVars
  <2>1. UNCHANGED <<desktop, command, starting, control, child, parent, waited>>
    BY <1>4 DEF StrangerLeaves, shellVars
  <2> QED
    BY <2>1 DEF ShellInv, ShellShape, ControlsFit, HeldFits, OneStart, ProcessesFit, DesktopOwns,
                OneBackend, StoppedIsGone, Alive
<1>5. CASE CloseWindow
  BY <1>5, CloseWindowKeeps
<1>6. CASE EndDesktop \/ OpenDesktop
  BY <1>6, DesktopKeeps
<1> QED
  BY <1>1, <1>2, <1>3, <1>4, <1>5, <1>6 DEF ShellNext, Callers

-----------------------------------------------------------------------------
(* Commands: a command is sent once, success is what happened, and a shell *)
(* leaves nothing of its group.  For any numbers of attempts, checks and   *)
(* faults.                                                                 *)

CallRecords ==
    [tool : {"none", "shell", "ssh", "wait"},
     at : {"idle", "dial", "backoff", "session", "run", "interval", "start", "reap"},
     expected : {-1, 0}, attempt : Nat, matching : Nat, polls : Nat, faults : Nat,
     pending : BOOLEAN, reply : {"none", "ok", "failure", "timeout", "canceled"}]
ProcessRecords ==
    [at : {"none", "sending", "running", "exited"}, code : -1..1, told : BOOLEAN,
     job : {"none", "piped", "quiet", "escaped"}]

CommandShape ==
    /\ toolCall \in CallRecords /\ process \in ProcessRecords
    /\ started \in Nat /\ looks \in Seq(-1..1)

\* Where a call of each tool may be.
ToolFits ==
    /\ toolCall.tool = "none" => toolCall.at = "idle"
    /\ toolCall.tool = "shell" => toolCall.at \in {"idle", "start", "run", "reap"}
    /\ toolCall.tool = "ssh" => toolCall.at \in {"idle", "dial", "backoff", "session", "run"}
    /\ toolCall.tool = "wait" => toolCall.at \notin {"start", "reap"}
    /\ toolCall.tool = "shell" => connection = "none"
    /\ toolCall.at # "idle" => toolCall.reply = "none"

\* What was started so far, by where the call is.
StartedFits ==
    toolCall.tool # "wait" =>
        /\ started <= 1
        /\ process.at = "sending" => started = 0
        /\ toolCall.at \in {"dial", "backoff", "session", "start"} =>
             started = 0 /\ process.at = "none"

ProcessFits ==
    /\ process.told => process.at = "exited"
    /\ toolCall.tool # "shell" /\ process.at = "exited" => process.code # -1
    /\ toolCall.at = "reap" => process.at = "exited"
    /\ toolCall.tool = "shell" => process.at # "sending"

\* The checks that matched in a row are the last ones that were looked at.
InARow(seen, n) ==
    /\ n <= Len(seen)
    /\ \A m \in Len(seen) - n + 1..Len(seen) : seen[m] = toolCall.expected /\ seen[m] # -1

MatchingFits == toolCall.tool = "wait" => InARow(looks, toolCall.matching)

CommandInv ==
    /\ CommandShape /\ ToolFits /\ StartedFits /\ ProcessFits /\ MatchingFits
    /\ SuccessIsTrue /\ GroupIsGone

LEMMA CommandInvStarts == CommandInit => CommandInv
<1> SUFFICES ASSUME CommandInit PROVE CommandInv
  OBVIOUS
<1>1. /\ toolCall.tool = "none" /\ toolCall.at = "idle" /\ toolCall.reply = "none"
      /\ process.at = "none" /\ process.told = FALSE /\ started = 0 /\ looks = <<>>
  BY DEF CommandInit, Unstarted
<1>2. CommandShape
  BY DEF CommandInit, CommandShape, CallRecords, ProcessRecords, Unstarted
<1>3. ToolFits /\ StartedFits /\ ProcessFits /\ MatchingFits
  BY <1>1 DEF ToolFits, StartedFits, ProcessFits, MatchingFits
<1>4. SuccessIsTrue /\ GroupIsGone
  BY <1>1 DEF SuccessIsTrue, GroupIsGone
<1> QED
  BY <1>2, <1>3, <1>4 DEF CommandInv

LEMMA CommandInvFields ==
    ASSUME CommandInv
    PROVE  /\ toolCall \in CallRecords /\ process \in ProcessRecords
           /\ started \in Nat /\ looks \in Seq(-1..1)
           /\ ToolFits /\ StartedFits /\ ProcessFits /\ MatchingFits
           /\ SuccessIsTrue /\ GroupIsGone
  BY DEF CommandInv, CommandShape

\* The records that the end of a call leaves.
LEMMA ClearedFits ==
    ASSUME NEW p \in ProcessRecords
    PROVE  /\ Cleared(p) \in ProcessRecords
           /\ Cleared(p).at = p.at /\ Cleared(p).code = p.code /\ Cleared(p).told = p.told
           /\ toolCall.tool = "shell" => Cleared(p).job \in {"none", "escaped"}
  BY DEF Cleared, ProcessRecords

\* An answer is true when the call has what it says.
LEMMA RepliesKeep ==
    ASSUME CommandInv, toolCall.at # "idle", looks' \in Seq(-1..1),
           NEW r \in {"ok", "failure", "timeout", "canceled"}, CallReplies(r),
           toolCall.tool = "wait" => InARow(looks', toolCall.matching),
           r = "ok" => IF toolCall.tool = "wait" THEN InARow(looks', StableChecks)
                       ELSE process.at = "exited" /\ process.code = 0
    PROVE  CommandInv'
<1>1. /\ toolCall' = [toolCall EXCEPT !.at = "idle", !.reply = r]
      /\ process' = Cleared(process) /\ connection' = "none" /\ started' = started
  BY DEF CallReplies
<1>2. /\ toolCall \in CallRecords /\ process \in ProcessRecords
      /\ started \in Nat /\ ToolFits /\ StartedFits /\ ProcessFits
  BY CommandInvFields
<1>3. /\ toolCall' \in CallRecords /\ toolCall'.at = "idle" /\ toolCall'.reply = r
      /\ toolCall'.tool = toolCall.tool /\ toolCall'.matching = toolCall.matching
      /\ toolCall'.expected = toolCall.expected /\ toolCall'.faults = toolCall.faults
  BY <1>1, <1>2 DEF CallRecords
<1>4. /\ process' \in ProcessRecords /\ process'.at = process.at /\ process'.code = process.code
      /\ process'.told = process.told
      /\ toolCall.tool = "shell" => process'.job \in {"none", "escaped"}
  BY <1>1, <1>2, ClearedFits
<1>5. CommandShape'
  BY <1>1, <1>2, <1>3, <1>4 DEF CommandShape
<1>6. ToolFits'
  BY <1>1, <1>2, <1>3 DEF ToolFits
<1>7. StartedFits'
  BY <1>1, <1>2, <1>3, <1>4 DEF StartedFits
<1>8. ProcessFits'
  BY <1>2, <1>3, <1>4 DEF ProcessFits
<1>9. MatchingFits'
  BY <1>3 DEF MatchingFits, InARow
<1>10. SuccessIsTrue'
  BY <1>3, <1>4 DEF SuccessIsTrue, InARow
<1>11. GroupIsGone'
  BY <1>3, <1>4 DEF GroupIsGone
<1> QED
  BY <1>5, <1>6, <1>7, <1>8, <1>9, <1>10, <1>11 DEF CommandInv

\* A step of the call on its way, which says nothing yet.
CallGoesOn(at) ==
    /\ toolCall' \in CallRecords /\ toolCall'.at = at /\ toolCall'.tool = toolCall.tool
    /\ toolCall'.matching = toolCall.matching /\ toolCall'.expected = toolCall.expected
    /\ toolCall'.reply = toolCall.reply /\ toolCall'.faults >= toolCall.faults

LEMMA GoesOnKeeps ==
    ASSUME CommandInv, NEW at, CallGoesOn(at),
           toolCall.at # "idle" \/ at = toolCall.at,
           ToolFits', StartedFits', ProcessFits', process' \in ProcessRecords, started' \in Nat,
           toolCall.at = "idle" => /\ process.at \notin {"sending", "running"} => process' = process
                                   /\ process'.job = process.job,
           looks' = looks
    PROVE  CommandInv'
<1>1. /\ toolCall \in CallRecords /\ process \in ProcessRecords /\ looks \in Seq(-1..1)
      /\ ToolFits /\ MatchingFits /\ SuccessIsTrue /\ GroupIsGone
  BY CommandInvFields
<1>2. /\ toolCall' \in CallRecords /\ toolCall'.at = at /\ toolCall'.tool = toolCall.tool
      /\ toolCall'.matching = toolCall.matching /\ toolCall'.expected = toolCall.expected
      /\ toolCall'.reply = toolCall.reply /\ toolCall'.faults >= toolCall.faults
      /\ toolCall.faults \in Nat /\ toolCall'.faults \in Nat
  BY <1>1 DEF CallGoesOn, CallRecords
<1>3. CommandShape'
  BY <1>1, <1>2 DEF CommandShape
<1>4. MatchingFits'
  BY <1>1, <1>2 DEF MatchingFits, InARow
<1>5. SuccessIsTrue'
  BY <1>1, <1>2 DEF SuccessIsTrue, ToolFits
<1>6. GroupIsGone'
  <2>1. toolCall'.faults = 0 => toolCall.faults = 0
    BY <1>2
  <2> QED
    BY <1>1, <1>2, <2>1 DEF GroupIsGone, ToolFits
<1> QED
  BY <1>3, <1>4, <1>5, <1>6 DEF CommandInv

\* What one execution there came to, and what ssh_wait makes of it.
LEMMA ResultKeeps ==
    ASSUME CommandInv, toolCall.at \in {"dial", "backoff", "session", "run"},
           toolCall.tool \in {"ssh", "wait"},
           NEW err, NEW code, Result(err, code),
           err \in {"none", "exit"} => process.at = "exited" /\ code = process.code,
           err = "none" => code = 0
    PROVE  CommandInv'
<1>1. /\ toolCall \in CallRecords /\ process \in ProcessRecords
      /\ started \in Nat /\ looks \in Seq(-1..1)
      /\ ToolFits /\ StartedFits /\ ProcessFits /\ MatchingFits
  BY CommandInvFields
<1>2. CASE toolCall.tool = "ssh"
  <2>1. PICK r \in {"ok", "canceled", "failure"} : /\ CallReplies(r) /\ looks' = looks
                                                   /\ (r = "ok" => err = "none")
    BY <1>2 DEF Result
  <2>2. r = "ok" => process.at = "exited" /\ process.code = 0
    BY <2>1
  <2> QED
    BY <1>1, <1>2, <2>1, <2>2, RepliesKeep
<1>3. CASE toolCall.tool = "wait"
  <2>1. looks' = Append(looks, Really)
    BY <1>3 DEF Result
  <2>2. /\ Really \in -1..1
        /\ Matches(err, code) => Really = toolCall.expected /\ Really # -1
    BY <1>1, <1>3 DEF Really, Matches, ProcessFits, ProcessRecords
  <2>3. /\ looks' \in Seq(-1..1) /\ Len(looks') = Len(looks) + 1
        /\ \A n \in 1..Len(looks) : looks'[n] = looks[n]
        /\ looks'[Len(looks) + 1] = Really
    BY <1>1, <2>1, <2>2
  <2>4. toolCall.matching \in Nat /\ InARow(looks, toolCall.matching) /\ toolCall.tool = "wait"
    BY <1>1, <1>3 DEF MatchingFits, CallRecords
  <2>5. Counted(err, code) \in Nat /\ InARow(looks', Counted(err, code))
    <3>1. CASE Matches(err, code)
      <4>1. Counted(err, code) = toolCall.matching + 1
        BY <3>1 DEF Counted
      <4>2. ASSUME NEW m \in Len(looks') - (toolCall.matching + 1) + 1..Len(looks')
            PROVE  looks'[m] = toolCall.expected /\ looks'[m] # -1
        <5>1. CASE m = Len(looks) + 1
          BY <2>2, <2>3, <3>1, <5>1
        <5>2. CASE m # Len(looks) + 1
          <6>1. Len(looks) \in Nat
            BY <1>1
          <6>2. m \in 1..Len(looks) /\ m \in Len(looks) - toolCall.matching + 1..Len(looks)
            BY <2>3, <2>4, <5>2, <6>1 DEF InARow
          <6> QED
            BY <2>3, <2>4, <6>2 DEF InARow
        <5> QED
          BY <5>1, <5>2
      <4> QED
        BY <1>1, <2>3, <2>4, <4>1, <4>2 DEF InARow
    <3>2. CASE ~Matches(err, code)
      <4>1. Counted(err, code) = 0
        BY <3>2 DEF Counted
      <4> QED
        BY <1>1, <2>3, <4>1 DEF InARow
    <3> QED
      BY <3>1, <3>2
  <2>6. CASE Counted(err, code) >= StableChecks
    <3>1. CallReplies("ok")
      BY <1>3, <2>6 DEF Result
    <3>2. StableChecks \in Nat /\ StableChecks > 0
      BY CommandAssumption
    <3>3. InARow(looks', StableChecks)
      BY <1>1, <2>3, <2>5, <2>6, <3>2 DEF InARow
    <3>4. Counted(err, code) = toolCall.matching + 1
      BY <2>6, <3>2 DEF Counted
    <3>5. InARow(looks', toolCall.matching)
      BY <1>1, <2>3, <2>4, <2>5, <3>4 DEF InARow
    <3> QED
      BY <1>3, <2>3, <3>1, <3>3, <3>5, RepliesKeep
  <2>7. CASE ~(Counted(err, code) >= StableChecks)
    <3>1. PICK n \in Nat : n = Counted(err, code)
      BY <2>5
    <3>2. /\ toolCall' = [toolCall EXCEPT !.at = "interval", !.polls = @ + 1, !.matching = n]
          /\ connection' = "none" /\ UNCHANGED <<process, started>>
      BY <1>3, <2>7, <3>1 DEF Result
    <3>3. toolCall.polls \in Nat /\ toolCall.polls + 1 \in Nat /\ toolCall.reply = "none"
      BY <1>1 DEF CallRecords, ToolFits
    <3>4. /\ toolCall' \in CallRecords /\ toolCall'.at = "interval" /\ toolCall'.tool = "wait"
          /\ toolCall'.matching = n /\ toolCall'.expected = toolCall.expected
          /\ toolCall'.reply = "none"
      BY <1>1, <1>3, <3>2, <3>3 DEF CallRecords
    <3>5. CommandShape' /\ ToolFits' /\ StartedFits' /\ ProcessFits'
      BY <1>1, <1>3, <2>3, <3>2, <3>4 DEF CommandShape, ToolFits, StartedFits, ProcessFits
    <3>6. MatchingFits'
      BY <2>5, <3>1, <3>4 DEF MatchingFits, InARow
    <3>7. SuccessIsTrue' /\ GroupIsGone'
      BY <3>4 DEF SuccessIsTrue, GroupIsGone
    <3> QED
      BY <3>5, <3>6, <3>7 DEF CommandInv
  <2> QED
    BY <2>6, <2>7
<1> QED
  BY <1>2, <1>3

\* What the other side and the contexts do beside the call.
LEMMA BesidesKeep ==
    ASSUME CommandInv,
           (\E how \in {"expired", "canceled"} : CallEnds(how)) \/ CheckExpires
             \/ LinkChanges \/ Begins \/ ExitArrives \/ (\E code \in 0..1 : Exits(code) \/ ShellExits(code))
    PROVE  CommandInv'
<1>1. /\ toolCall \in CallRecords /\ process \in ProcessRecords
      /\ started \in Nat /\ looks \in Seq(-1..1)
      /\ ToolFits /\ StartedFits /\ ProcessFits /\ MatchingFits
  BY CommandInvFields
<1>2. looks' = looks
  BY DEF CallEnds, CheckExpires, LinkChanges, Begins, ExitArrives, Exits, ShellExits
<1>3. toolCall' = toolCall => CallGoesOn(toolCall.at)
  BY <1>1 DEF CallGoesOn, CallRecords
<1>4. CASE (\E how \in {"expired", "canceled"} : CallEnds(how)) \/ CheckExpires \/ LinkChanges
  <2>1. /\ UNCHANGED <<process, started>>
        /\ toolCall.tool = "shell" => connection' = connection
        /\ toolCall' = toolCall \/ toolCall' = [toolCall EXCEPT !.faults = @ + 1]
    BY <1>1, <1>4 DEF CallEnds, CheckExpires, LinkChanges, ToolFits
  <2>2. /\ toolCall.faults \in Nat
        /\ toolCall' = [toolCall EXCEPT !.faults = @ + 1] => CallGoesOn(toolCall.at)
    BY <1>1 DEF CallGoesOn, CallRecords
  <2>3. CallGoesOn(toolCall.at)
    BY <1>3, <2>1, <2>2
  <2>4. ToolFits' /\ StartedFits' /\ ProcessFits'
    BY <1>1, <2>1, <2>3 DEF ToolFits, StartedFits, ProcessFits, CallGoesOn
  <2> QED
    BY <1>1, <1>2, <2>1, <2>3, <2>4, GoesOnKeeps
<1>5. CASE Begins
  <2>1. /\ process.at = "sending" /\ process' = [process EXCEPT !.at = "running"]
        /\ started' = started + 1 /\ toolCall' = toolCall /\ connection' = connection
    BY <1>5 DEF Begins
  <2>2. /\ process' \in ProcessRecords /\ process'.at = "running" /\ process'.told = process.told
        /\ process'.job = process.job
    BY <1>1, <2>1 DEF ProcessRecords
  <2>3. CallGoesOn(toolCall.at) /\ started' \in Nat
    BY <1>1, <1>3, <2>1
  <2>4. ToolFits' /\ StartedFits' /\ ProcessFits'
    BY <1>1, <2>1, <2>2 DEF ToolFits, StartedFits, ProcessFits
  <2> QED
    BY <1>2, <2>1, <2>2, <2>3, <2>4, GoesOnKeeps
<1>6. CASE ExitArrives \/ \E code \in 0..1 : Exits(code) \/ ShellExits(code)
  <2>1. UNCHANGED <<toolCall, started, connection>>
    BY <1>6 DEF ExitArrives, Exits, ShellExits
  <2>2. /\ process' \in ProcessRecords /\ process'.at = "exited" /\ process'.job = process.job
        /\ process.at \in {"running", "exited"}
        /\ (process.at = "running" => process'.code # -1)
        /\ (process.at = "exited" => process'.code = process.code /\ toolCall.at = "run")
    <3>1. CASE ExitArrives
      <4>1. process.at = "exited" /\ toolCall.at = "run"
            /\ process' = [process EXCEPT !.told = TRUE]
        BY <3>1 DEF ExitArrives
      <4> QED
        BY <1>1, <4>1 DEF ProcessRecords
    <3>2. ASSUME NEW code \in 0..1, Exits(code) \/ ShellExits(code)
          PROVE  /\ process.at = "running" /\ process' \in ProcessRecords /\ process'.at = "exited"
                 /\ process'.job = process.job /\ process'.code = code
      <4>1. process.at = "running" /\ process' = [process EXCEPT !.at = "exited", !.code = code]
        BY <3>2 DEF Exits, ShellExits
      <4>2. code \in -1..1
        OBVIOUS
      <4> QED
        BY <1>1, <4>1, <4>2 DEF ProcessRecords
    <3> QED
      BY <1>6, <3>1, <3>2
  <2>3. CallGoesOn(toolCall.at)
    BY <1>3, <2>1
  <2>4. ToolFits' /\ StartedFits' /\ ProcessFits'
    BY <1>1, <2>1, <2>2 DEF ToolFits, StartedFits, ProcessFits
  <2> QED
    BY <1>1, <1>2, <2>1, <2>2, <2>3, <2>4, GoesOnKeeps
<1> QED
  BY <1>4, <1>5, <1>6

\* A call begins, or is refused.
LEMMA AskedKeeps ==
    ASSUME CommandInv,
           (\E t \in {"shell", "ssh"} : Asked(t, 0)) \/ (\E e \in {-1, 0} : Asked("wait", e)) \/ Refused
    PROVE  CommandInv'
<1>1. /\ toolCall \in CallRecords /\ process \in ProcessRecords
      /\ started \in Nat /\ looks \in Seq(-1..1)
      /\ ToolFits /\ StartedFits /\ ProcessFits /\ MatchingFits
  BY CommandInvFields
<1>2. ASSUME NEW t \in {"shell", "ssh", "wait"}, NEW e \in {-1, 0}, Asked(t, e)
      PROVE  CommandInv'
  <2>1. PICK at \in {"start", "dial"} : at = IF t = "shell" THEN "start" ELSE "dial"
    OBVIOUS
  <2>2. /\ toolCall' = [tool |-> t, at |-> at, expected |-> e,
                        attempt |-> 1, matching |-> 0, polls |-> 0, faults |-> 0,
                        pending |-> FALSE, reply |-> "none"]
        /\ connection' = "none" /\ process' = Unstarted /\ started' = 0 /\ looks' = <<>>
    BY <1>2, <2>1 DEF Asked
  <2>3. toolCall' \in CallRecords /\ process' \in ProcessRecords
    BY <2>2 DEF CallRecords, ProcessRecords, Unstarted
  <2>4. CommandShape'
    BY <2>2, <2>3 DEF CommandShape
  <2>5. ToolFits' /\ StartedFits' /\ ProcessFits' /\ MatchingFits'
    BY <2>1, <2>2 DEF ToolFits, StartedFits, ProcessFits, MatchingFits, InARow, Unstarted
  <2>6. SuccessIsTrue' /\ GroupIsGone'
    BY <2>2 DEF SuccessIsTrue, GroupIsGone
  <2> QED
    BY <2>4, <2>5, <2>6 DEF CommandInv
<1>3. CASE Refused
  <2>1. /\ toolCall' = [toolCall EXCEPT !.at = "idle", !.faults = @ + 1]
        /\ toolCall.at = "dial" /\ UNCHANGED <<connection, process, started, looks>>
    BY <1>3 DEF Refused, StepsByFault
  <2>2. toolCall.faults \in Nat
    BY <1>1 DEF CallRecords
  <2>3. CallGoesOn("idle")
    <3>1. PICK n \in Nat : n = toolCall.faults + 1
      BY <2>2
    <3>2. toolCall' = [toolCall EXCEPT !.at = "idle", !.faults = n]
      BY <2>1, <3>1
    <3>3. n >= toolCall.faults
      BY <2>2, <3>1
    <3>4. toolCall' \in CallRecords /\ toolCall'.faults = n
      BY <1>1, <3>2 DEF CallRecords
    <3>5. /\ toolCall'.at = "idle" /\ toolCall'.tool = toolCall.tool
          /\ toolCall'.matching = toolCall.matching /\ toolCall'.expected = toolCall.expected
          /\ toolCall'.reply = toolCall.reply
      BY <1>1, <3>2 DEF CallRecords
    <3> QED
      BY <3>3, <3>4, <3>5 DEF CallGoesOn
  <2>4. ToolFits' /\ StartedFits' /\ ProcessFits'
    BY <1>1, <2>1, <2>3 DEF ToolFits, StartedFits, ProcessFits, CallGoesOn
  <2> QED
    BY <1>1, <2>1, <2>3, <2>4, GoesOnKeeps
<1> QED
  BY <1>2, <1>3

LEMMA NotConnectedKeeps ==
    ASSUME CommandInv, toolCall.at \in {"dial", "backoff"}, NotConnected
    PROVE  CommandInv'
<1>1. /\ toolCall \in CallRecords /\ looks \in Seq(-1..1) /\ ToolFits /\ MatchingFits
  BY CommandInvFields
<1>2. CASE CallReplies("canceled") /\ looks' = looks
  BY <1>1, <1>2, RepliesKeep DEF MatchingFits
<1>3. CASE Result("connect", -1)
  <2>1. toolCall.tool \in {"ssh", "wait"}
    BY <1>1 DEF ToolFits, CallRecords
  <2> QED
    BY <1>3, <2>1, ResultKeeps
<1> QED
  BY <1>2, <1>3 DEF NotConnected

\* The way to a session: no step of it starts anything twice.
LEMMA ConnectKeeps ==
    ASSUME CommandInv, Connects \/ ConnectFails \/ BacksOff
    PROVE  CommandInv'
<1>1. /\ toolCall \in CallRecords /\ process \in ProcessRecords
      /\ started \in Nat /\ looks \in Seq(-1..1)
      /\ ToolFits /\ StartedFits /\ ProcessFits
  BY CommandInvFields
<1>2. ASSUME NEW at \in {"session", "dial", "backoff"}, CallGoesOn(at),
             toolCall.at \in {"dial", "backoff"}, UNCHANGED <<process, started, looks>>
      PROVE  CommandInv'
  <2>1. ToolFits' /\ StartedFits' /\ ProcessFits'
    BY <1>1, <1>2 DEF ToolFits, StartedFits, ProcessFits, CallGoesOn
  <2> QED
    BY <1>1, <1>2, <2>1, GoesOnKeeps
<1>3. ASSUME NEW at \in {"session", "dial"}, toolCall' = [toolCall EXCEPT !.at = at]
      PROVE  CallGoesOn(at)
  <2>1. toolCall.faults \in Nat
    BY <1>1 DEF CallRecords
  <2> QED
    BY <1>1, <1>3, <2>1 DEF CallGoesOn, CallRecords
<1>4. CASE Connects
  BY <1>2, <1>3, <1>4 DEF Connects, Steps
<1>5. CASE ConnectFails
  <2>1. CASE NotConnected
    BY <1>5, <2>1, NotConnectedKeeps DEF ConnectFails
  <2>2. CASE /\ toolCall' = [toolCall EXCEPT !.at = "backoff", !.attempt = @ + 1,
                                             !.faults = IF Ctx = "live" THEN @ + 1 ELSE @]
             /\ UNCHANGED <<process, started, looks>>
    <3>1. PICK f : f = IF Ctx = "live" THEN toolCall.faults + 1 ELSE toolCall.faults
      OBVIOUS
    <3>2. f \in Nat /\ f >= toolCall.faults /\ toolCall.attempt + 1 \in Nat
      BY <1>1, <3>1 DEF CallRecords
    <3>3. toolCall' = [toolCall EXCEPT !.at = "backoff", !.attempt = @ + 1, !.faults = f]
      BY <2>2, <3>1
    <3>4. CallGoesOn("backoff")
      BY <1>1, <3>2, <3>3 DEF CallGoesOn, CallRecords
    <3> QED
      BY <1>2, <1>5, <2>2, <3>4 DEF ConnectFails
  <2> QED
    BY <1>5, <2>1, <2>2 DEF ConnectFails
<1>6. CASE BacksOff
  BY <1>2, <1>3, <1>6, NotConnectedKeeps DEF BacksOff, Steps
<1> QED
  BY <1>4, <1>5, <1>6

\* The other side: a session, and the ends of what runs there.
LEMMA RemoteKeeps ==
    ASSUME CommandInv, OpensSession \/ RemoteDone \/ RemoteEnded \/ ConnectionLost
    PROVE  CommandInv'
<1>1. /\ toolCall \in CallRecords /\ process \in ProcessRecords
      /\ started \in Nat /\ looks \in Seq(-1..1)
      /\ ToolFits /\ StartedFits /\ ProcessFits
  BY CommandInvFields
<1>2. CASE OpensSession /\ connection = "up"
  <2>1. /\ toolCall' = [toolCall EXCEPT !.at = "run"] /\ toolCall.at = "session"
        /\ process' = [Unstarted EXCEPT !.at = "sending"]
        /\ UNCHANGED <<connection, started, looks>>
    BY <1>2, "session" # "run", "up" # "down" DEF OpensSession, Steps
  <2>2. /\ process' \in ProcessRecords /\ process'.at = "sending" /\ process'.told = FALSE
    <3>1. Unstarted \in ProcessRecords /\ Unstarted.told = FALSE
      BY DEF ProcessRecords, Unstarted
    <3> QED
      BY <2>1, <3>1 DEF ProcessRecords
  <2>3. CallGoesOn("run")
    <3>1. toolCall.faults \in Nat
      BY <1>1 DEF CallRecords
    <3> QED
      BY <1>1, <2>1, <3>1 DEF CallGoesOn, CallRecords
  <2>4. ToolFits' /\ StartedFits' /\ ProcessFits'
    BY <1>1, <2>1, <2>2, <2>3 DEF ToolFits, StartedFits, ProcessFits, CallGoesOn
  <2> QED
    BY <1>1, <2>1, <2>2, <2>3, <2>4, GoesOnKeeps
<1>3. CASE OpensSession /\ connection # "up"
  <2>1. toolCall.at = "session" /\ Result("session", -1)
    BY <1>3 DEF OpensSession
  <2>2. toolCall.tool \in {"ssh", "wait"}
    BY <1>1, <2>1 DEF ToolFits, CallRecords
  <2> QED
    BY <2>1, <2>2, ResultKeeps
<1>4. CASE RemoteDone
  <2>1. PICK err : err = IF process.code = 0 THEN "none" ELSE "exit"
    OBVIOUS
  <2>2. /\ toolCall.at = "run" /\ process.told /\ Result(err, process.code)
        /\ toolCall.tool \in {"ssh", "wait"} /\ process.at = "exited"
    BY <1>1, <1>4, <2>1 DEF RemoteDone, ToolFits, ProcessFits, CallRecords
  <2>3. err = "none" => process.code = 0
    BY <2>1
  <2> QED
    BY <2>2, <2>3, ResultKeeps
<1>5. CASE RemoteEnded \/ ConnectionLost
  <2>1. PICK err \in {"ended", "lost"} : toolCall.at = "run" /\ Result(err, -1)
    BY <1>5 DEF RemoteEnded, ConnectionLost
  <2>2. toolCall.tool \in {"ssh", "wait"}
    BY <1>1, <1>5 DEF RemoteEnded, ConnectionLost, ToolFits, CallRecords
  <2> QED
    BY <2>1, <2>2, ResultKeeps
<1> QED
  BY <1>2, <1>3, <1>4, <1>5

LEMMA PollsKeep ==
    ASSUME CommandInv, PollsAgain
    PROVE  CommandInv'
<1>1. /\ toolCall \in CallRecords /\ process \in ProcessRecords
      /\ started \in Nat /\ looks \in Seq(-1..1)
      /\ ToolFits /\ StartedFits /\ ProcessFits /\ MatchingFits
  BY CommandInvFields
<1>2. toolCall.at = "interval" /\ toolCall.tool = "wait"
  BY <1>1 DEF PollsAgain, ToolFits, CallRecords
<1>3. CASE CallReplies("timeout") /\ looks' = looks
  BY <1>1, <1>2, <1>3, RepliesKeep DEF MatchingFits
<1>4. CASE /\ toolCall' = [toolCall EXCEPT !.at = "dial", !.attempt = 1]
           /\ process' = Unstarted /\ UNCHANGED <<connection, started, looks>>
  <2>1. toolCall.faults \in Nat
    BY <1>1 DEF CallRecords
  <2>2. CallGoesOn("dial")
    <3>1. toolCall' \in CallRecords /\ toolCall'.at = "dial" /\ toolCall'.faults = toolCall.faults
      BY <1>1, <1>4 DEF CallRecords
    <3>2. /\ toolCall'.tool = toolCall.tool /\ toolCall'.matching = toolCall.matching
          /\ toolCall'.expected = toolCall.expected /\ toolCall'.reply = toolCall.reply
      BY <1>1, <1>4 DEF CallRecords
    <3> QED
      BY <2>1, <3>1, <3>2 DEF CallGoesOn
  <2>3. process' \in ProcessRecords /\ process'.at = "none" /\ process'.told = FALSE
    BY <1>4 DEF ProcessRecords, Unstarted
  <2>4. ToolFits' /\ StartedFits' /\ ProcessFits'
    BY <1>1, <1>2, <1>4, <2>2, <2>3 DEF ToolFits, StartedFits, ProcessFits, CallGoesOn
  <2> QED
    BY <1>1, <1>2, <1>4, <2>2, <2>3, <2>4, GoesOnKeeps
<1> QED
  BY <1>3, <1>4 DEF PollsAgain

\* The shell of this machine.
LEMMA ShellStartsKeep ==
    ASSUME CommandInv, ShellStarts
    PROVE  CommandInv'
<1>1. /\ toolCall \in CallRecords /\ process \in ProcessRecords
      /\ started \in Nat /\ looks \in Seq(-1..1)
      /\ ToolFits /\ StartedFits /\ ProcessFits
  BY CommandInvFields
<1>2. toolCall.at = "start" /\ toolCall.tool = "shell"
  BY <1>1 DEF ShellStarts, ToolFits, CallRecords
<1>3. CASE /\ toolCall' = [toolCall EXCEPT !.at = "run"]
           /\ \E j \in {"none", "piped", "quiet", "escaped"} :
                process' = [Unstarted EXCEPT !.at = "running", !.job = j]
           /\ started' = started + 1 /\ UNCHANGED <<connection, looks>>
  <2>1. toolCall.faults \in Nat
    BY <1>1 DEF CallRecords
  <2>2. CallGoesOn("run")
    BY <1>1, <1>3, <2>1 DEF CallGoesOn, CallRecords
  <2>3. process' \in ProcessRecords /\ process'.at = "running" /\ process'.told = FALSE
    <3>1. Unstarted \in ProcessRecords /\ Unstarted.told = FALSE
      BY DEF ProcessRecords, Unstarted
    <3>2. PICK j \in {"none", "piped", "quiet", "escaped"} :
            process' = [Unstarted EXCEPT !.at = "running", !.job = j]
      BY <1>3
    <3> QED
      BY <3>1, <3>2 DEF ProcessRecords
  <2>4. started' = 1
    BY <1>1, <1>2, <1>3 DEF StartedFits
  <2>5. ToolFits' /\ StartedFits' /\ ProcessFits'
    BY <1>1, <1>2, <1>3, <2>2, <2>3, <2>4 DEF ToolFits, StartedFits, ProcessFits, CallGoesOn
  <2> QED
    BY <1>1, <1>2, <1>3, <2>2, <2>3, <2>4, <2>5, GoesOnKeeps
<1>4. ASSUME NEW r \in {"canceled", "failure"}, CallReplies(r), looks' = looks
      PROVE  CommandInv'
  BY <1>1, <1>2, <1>4, RepliesKeep
<1> QED
  BY <1>3, <1>4 DEF ShellStarts, Steps

LEMMA ShellEndsKeep ==
    ASSUME CommandInv, ShellDone \/ ShellKilled \/ ShellReaped
    PROVE  CommandInv'
<1>1. /\ toolCall \in CallRecords /\ process \in ProcessRecords
      /\ started \in Nat /\ looks \in Seq(-1..1)
      /\ ToolFits /\ StartedFits /\ ProcessFits
  BY CommandInvFields
<1>2. toolCall.at \in {"run", "reap"} /\ toolCall.tool = "shell" /\ looks' = looks
  BY <1>1 DEF ShellDone, ShellKilled, ShellReaped, ToolFits, CallRecords
<1>3. CASE ShellDone
  <2>1. PICK r \in {"ok", "canceled", "failure"} :
          CallReplies(r) /\ (r = "ok" => process.at = "exited" /\ process.code = 0)
    BY <1>3 DEF ShellDone, Waited
  <2> QED
    BY <1>1, <1>2, <2>1, RepliesKeep
<1>4. CASE ShellKilled
  <2>1. PICK dead : dead = [process EXCEPT !.at = "exited"]
    OBVIOUS
  <2>2. dead \in ProcessRecords /\ dead.at = "exited"
    BY <1>1, <2>1 DEF ProcessRecords
  <2>3. /\ process' = Cleared(dead) \/ process' = dead
        /\ UNCHANGED <<connection, started>>
        /\ \/ toolCall' = [toolCall EXCEPT !.at = "reap"]
           \/ toolCall' = [toolCall EXCEPT !.at = "reap", !.faults = @ + 1]
    BY <1>4, <2>1 DEF ShellKilled, Steps, StepsByFault
  <2>4. process' \in ProcessRecords /\ process'.at = "exited"
    BY <2>2, <2>3, ClearedFits
  <2>5. CallGoesOn("reap")
    <3>1. PICK n \in Nat : n = toolCall.faults + 1 /\ n >= toolCall.faults
      BY <1>1 DEF CallRecords
    <3>2. toolCall.faults \in Nat
      BY <1>1 DEF CallRecords
    <3>3. CASE toolCall' = [toolCall EXCEPT !.at = "reap"]
      BY <1>1, <3>2, <3>3 DEF CallGoesOn, CallRecords
    <3>4. CASE toolCall' = [toolCall EXCEPT !.at = "reap", !.faults = @ + 1]
      <4>1. toolCall' = [toolCall EXCEPT !.at = "reap", !.faults = n]
        BY <3>1, <3>4
      <4>2. toolCall' \in CallRecords /\ toolCall'.faults = n
        BY <1>1, <4>1 DEF CallRecords
      <4>3. /\ toolCall'.at = "reap" /\ toolCall'.tool = toolCall.tool
            /\ toolCall'.matching = toolCall.matching /\ toolCall'.expected = toolCall.expected
            /\ toolCall'.reply = toolCall.reply
        BY <1>1, <4>1 DEF CallRecords
      <4> QED
        BY <3>1, <4>2, <4>3 DEF CallGoesOn
    <3> QED
      BY <2>3, <3>3, <3>4
  <2>6. ToolFits' /\ StartedFits' /\ ProcessFits'
    BY <1>1, <1>2, <2>3, <2>4, <2>5 DEF ToolFits, StartedFits, ProcessFits, CallGoesOn
  <2> QED
    BY <1>1, <1>2, <2>3, <2>4, <2>5, <2>6, GoesOnKeeps
<1>5. CASE ShellReaped
  <2>1. /\ process' = Cleared(process) \/ (toolCall.faults > 0 /\ process' = process)
        /\ UNCHANGED <<connection, started>> /\ toolCall.at = "reap"
    BY <1>5 DEF ShellReaped
  <2>2. PICK late \in BOOLEAN, r \in {"canceled", "failure"} :
          toolCall' = [toolCall EXCEPT !.at = "idle", !.pending = late, !.reply = r]
    BY <1>5 DEF ShellReaped
  <2>3. /\ toolCall' \in CallRecords /\ toolCall'.at = "idle" /\ toolCall'.reply = r
        /\ toolCall'.tool = "shell" /\ toolCall'.faults = toolCall.faults
    BY <1>1, <1>2, <2>2 DEF CallRecords
  <2>4. /\ process' \in ProcessRecords /\ process'.at = process.at /\ process'.code = process.code
        /\ process'.told = process.told
        /\ (toolCall.faults = 0 => process'.job \in {"none", "escaped"})
    BY <1>1, <1>2, <2>1, ClearedFits DEF CallRecords
  <2>5. CommandShape'
    BY <1>1, <1>2, <2>1, <2>3, <2>4 DEF CommandShape
  <2>6. ToolFits' /\ StartedFits' /\ ProcessFits'
    BY <1>1, <1>2, <2>1, <2>3, <2>4 DEF ToolFits, StartedFits, ProcessFits
  <2>7. MatchingFits' /\ SuccessIsTrue' /\ GroupIsGone'
    BY <2>3, <2>4 DEF MatchingFits, SuccessIsTrue, GroupIsGone
  <2> QED
    BY <2>5, <2>6, <2>7 DEF CommandInv
<1> QED
  BY <1>3, <1>4, <1>5

LEMMA CommandInvKept == CommandInv /\ [CommandNext]_commandVars => CommandInv'
<1> SUFFICES ASSUME CommandInv, [CommandNext]_commandVars PROVE CommandInv'
  OBVIOUS
<1>1. CASE CommandStep
  BY <1>1, ConnectKeeps, RemoteKeeps, PollsKeep, ShellStartsKeep, ShellEndsKeep DEF CommandStep
<1>2. CASE \/ \E t \in {"shell", "ssh"} : Asked(t, 0)
           \/ \E e \in {-1, 0} : Asked("wait", e)
           \/ Refused
  BY <1>2, AskedKeeps
<1>3. CASE \/ \E how \in {"expired", "canceled"} : CallEnds(how)
           \/ CheckExpires \/ Begins \/ ExitArrives \/ LinkChanges
           \/ \E code \in 0..1 : Exits(code) \/ ShellExits(code)
  BY <1>3, BesidesKeep
<1>4. CASE UNCHANGED commandVars
  BY <1>4 DEF commandVars, CommandInv, CommandShape, ToolFits, StartedFits, ProcessFits,
              MatchingFits, InARow, SuccessIsTrue, GroupIsGone
<1> QED
  BY <1>1, <1>2, <1>3, <1>4 DEF CommandNext

LEMMA CommandInvShows == CommandInv => CommandsHold
  BY CommandInvFields DEF CommandInv, CommandsHold, SentOnce, StartedFits

-----------------------------------------------------------------------------
(* The types of the components: what their invariants leave open.          *)

ClientRecords == [at : {"off", "subscribed", "sending", "waiting", "closed"}, heartbeat : BOOLEAN]

StreamPlaces ==
    /\ tail \in {"none", "half", "no newline"}
    /\ worker \in {"working", "ending", "saved", "finished", "restarted"}
    /\ client \in ClientRecords

StreamCounts == known \in Nat /\ streamFaults \in 0..MaxStreamFaults

StreamLimits == StreamPlaces /\ StreamCounts /\ pruned \in BOOLEAN /\ woken \in BOOLEAN

LEMMA StreamTypesStart == StreamInit => StreamLimits
<1> SUFFICES ASSUME StreamInit PROVE StreamLimits
  OBVIOUS
<1>1. pruned \in BOOLEAN /\ woken \in BOOLEAN
  BY Zenon DEF StreamInit
<1>2. StreamCounts
  BY EventBounds DEF StreamInit, StreamCounts
<1>3. StreamPlaces
  BY DEF StreamInit, StreamPlaces, ClientRecords
<1> QED
  BY <1>1, <1>2, <1>3 DEF StreamLimits

\* The file of events is written, or a write to it fails.
LEMMA AppendTyped ==
    ASSUME StreamInv, StreamLimits, NEW kind \in Logged, NEW sequence,
           Appends(kind, sequence) \/ Fails(kind, sequence)
    PROVE  /\ tail' \in {"none", "half", "no newline"} /\ StreamCounts'
           /\ pruned' \in BOOLEAN /\ woken' \in BOOLEAN
<1>1. LastSequence = Len(file) /\ TailRead = "none" /\ Len(file) \in Nat
  BY WrittenWhole
<1>2. MaxStreamFaults \in Nat /\ known \in Nat /\ streamFaults \in 0..MaxStreamFaults
  BY EventBounds DEF StreamLimits, StreamCounts
<1>3. woken' \in BOOLEAN /\ pruned' \in BOOLEAN
  <2>1. (woken \/ Subscribed) \in BOOLEAN /\ woken \in BOOLEAN /\ pruned \in BOOLEAN
    BY Zenon DEF StreamLimits
  <2> QED
    BY <2>1, Zenon DEF Appends, Fails, Acknowledged, NotAcknowledged, Conflict
<1>4. CASE Acknowledged(kind)
  <2>1. tail' = "none" /\ known' = Len(file) + 1 /\ UNCHANGED streamFaults
    BY <1>1, <1>4 DEF Acknowledged
  <2>2. StreamCounts'
    BY <1>1, <1>2, <2>1 DEF StreamCounts
  <2> QED
    BY <1>3, <2>1, <2>2
<1>5. CASE NotAcknowledged(kind)
  <2>1. tail' \in {"none", "half", "no newline"}
    BY <1>1, <1>5 DEF NotAcknowledged
  <2>2. known' = known /\ streamFaults < MaxStreamFaults /\ streamFaults' = streamFaults + 1
    BY <1>5 DEF NotAcknowledged
  <2>3. StreamCounts'
    BY <1>2, <2>2 DEF StreamCounts
  <2> QED
    BY <1>3, <2>1, <2>3
<1>6. CASE Conflict
  <2>1. tail' = "none" /\ UNCHANGED <<known, streamFaults>>
    BY <1>1, <1>6 DEF Conflict
  <2>2. StreamCounts'
    BY <1>2, <2>1 DEF StreamCounts
  <2> QED
    BY <1>3, <2>1, <2>2
<1> QED
  BY <1>4, <1>5, <1>6 DEF Appends, Fails

LEMMA StreamTypesKept ==
    ASSUME StreamInv, StreamLimits, [StreamNext]_streamVars
    PROVE  StreamLimits'
<1>0. StreamPlaces /\ StreamCounts
  BY DEF StreamLimits
<1>1. MaxStreamFaults \in Nat /\ "progress" \in Logged /\ "terminal" \in Logged
  BY EventBounds DEF Logged
<1>2. [at |-> "off", heartbeat |-> FALSE] \in ClientRecords
      /\ \A h \in BOOLEAN : [at |-> "subscribed", heartbeat |-> h] \in ClientRecords
  BY Zenon DEF ClientRecords
<1>3. \A at \in {"subscribed", "sending", "waiting", "closed"} : [client EXCEPT !.at = at] \in ClientRecords
  BY <1>0 DEF StreamPlaces, ClientRecords
<1>4. CASE Report \/ AppendTerminal \/ Reconcile
  <2>1. UNCHANGED client /\ worker' \in {worker, "ending", "finished"}
    BY <1>4 DEF Report, AppendTerminal, Reconcile
  <2>2. StreamPlaces' \/ tail' \notin {"none", "half", "no newline"}
    BY <1>0, <2>1 DEF StreamPlaces
  <2>3. CASE \E kind \in Logged, sequence \in {known, Len(file)} :
               Appends(kind, sequence) \/ Fails(kind, sequence)
    BY <2>2, <2>3, AppendTyped DEF StreamLimits
  <2>4. CASE tail' = "none" /\ UNCHANGED <<known, pruned, woken, streamFaults>>
    <3>1. StreamCounts'
      BY <1>0, <2>4 DEF StreamCounts
    <3> QED
      BY <2>2, <2>4, <3>1 DEF StreamLimits
  <2> QED
    BY <1>1, <1>4, <2>3, <2>4 DEF Report, AppendTerminal, Reconcile
<1>5. ASSUME \/ SaveTerminal \/ StreamRestart \/ Prune \/ Connect \/ Serve \/ Disconnect
             \/ UNCHANGED streamVars
      PROVE  StreamLimits'
  <2>1. /\ known' \in {known, 0}
        /\ UNCHANGED streamFaults \/ (streamFaults < MaxStreamFaults /\ streamFaults' = streamFaults + 1)
    BY <1>5 DEF SaveTerminal, StreamRestart, Prune, Connect, Disconnect, Serve, List, Send,
       LookAtRun, Wake, fileVars, clientVars, streamVars
  <2>2. StreamCounts'
    BY <1>0, <1>1, <2>1 DEF StreamCounts
  <2>3. pruned' \in BOOLEAN /\ woken' \in BOOLEAN
    <3>1. pruned \in BOOLEAN /\ woken \in BOOLEAN
      BY Zenon DEF StreamLimits
    <3> QED
      BY <1>5, <3>1, Zenon DEF SaveTerminal, StreamRestart, Prune, Connect, Disconnect, Serve,
         List, Send, LookAtRun, Wake, fileVars, clientVars, streamVars
  <2>4. client' \in ClientRecords
    <3>1. client \in ClientRecords
      BY <1>0 DEF StreamPlaces
    <3>2. CASE StreamRestart \/ Connect \/ Disconnect
      BY <1>2, <3>2, Zenon DEF StreamRestart, Connect, Disconnect
    <3>3. CASE SaveTerminal \/ Prune \/ Serve \/ UNCHANGED streamVars
      BY <1>3, <3>1, <3>3 DEF SaveTerminal, Prune, Serve, List, Send, LookAtRun, Wake, clientVars,
         streamVars
    <3> QED
      BY <1>5, <3>2, <3>3
  <2>5. tail' \in {tail, "none"} /\ worker' \in {worker, "saved", "restarted"}
    BY <1>5 DEF SaveTerminal, StreamRestart, Prune, Connect, Disconnect, Serve, List, Send,
       LookAtRun, Wake, fileVars, clientVars, streamVars
  <2>6. StreamPlaces'
    BY <1>0, <2>4, <2>5 DEF StreamPlaces
  <2> QED
    BY <2>2, <2>3, <2>6 DEF StreamLimits
<1> QED
  BY <1>4, <1>5 DEF StreamNext

LEMMA StreamTyped == StreamInv /\ StreamLimits => StreamTypeOK
<1> SUFFICES ASSUME StreamInv, StreamLimits PROVE StreamTypeOK
  OBVIOUS
<1>1. {pruned, woken} \subseteq BOOLEAN
  BY Zenon DEF StreamLimits
<1>2. StreamPlaces /\ StreamCounts /\ StreamShape
  BY DEF StreamInv, StreamLimits
<1> QED
  BY <1>1, <1>2 DEF StreamShape, StreamPlaces, StreamCounts, ClientRecords, StreamTypeOK

\* The desktops, the calls and the faults are counted up to their bounds.
ShellLimits ==
    /\ desktop.id \in 1..MaxDesktops /\ stranger \in BOOLEAN
    /\ calls \in 0..MaxCalls /\ shellFaults \in 0..MaxShellFaults

LEMMA ShellTypesStart == ShellInit => ShellLimits
<1> SUFFICES ASSUME ShellInit PROVE ShellLimits
  OBVIOUS
<1>1. stranger \in BOOLEAN
  BY Zenon DEF ShellInit
<1>2. desktop.id = 1 /\ calls = 0 /\ shellFaults = 0
  BY DEF ShellInit
<1> QED
  BY <1>1, <1>2, ShellBounds DEF ShellLimits

LEMMA ShellTypesKept ==
    ASSUME ShellInv, ShellLimits, [ShellNext]_shellVars
    PROVE  ShellLimits'
<1> DEFINE Faulty == shellFaults < MaxShellFaults /\ shellFaults' = shellFaults + 1
<1>1. /\ MaxDesktops \in Nat /\ MaxCalls \in Nat /\ MaxShellFaults \in Nat
      /\ desktop.id \in 1..MaxDesktops /\ calls \in 0..MaxCalls
      /\ shellFaults \in 0..MaxShellFaults
  BY ShellBounds DEF ShellLimits
<1>2. stranger' \in BOOLEAN
  <2>1. stranger \in BOOLEAN
    BY Zenon DEF ShellLimits
  <2>2. stranger' = stranger \/ stranger' = FALSE
    BY Zenon DEF ShellNext, Call, AskHealth, Look, Spawn, Publish, Poll, LookToStop, Ended, OutOfTime,
       StartAgain, Tell, Clear, Listen, WatchParent, CloseDown, ProcessCrash, StrangerLeaves,
       CloseWindow, EndDesktop, OpenDesktop, shellVars
  <2> QED
    BY <2>1, <2>2, Zenon
<1>3. shellFaults' = shellFaults \/ Faulty
  BY Zenon DEF ShellNext, Call, AskHealth, Look, Spawn, Publish, Poll, LookToStop, Ended, OutOfTime,
     StartAgain, Tell, Clear, Listen, WatchParent, CloseDown, ProcessCrash, StrangerLeaves,
     CloseWindow, EndDesktop, OpenDesktop, shellVars, ShellFault, Healthy, Unhealthy
<1>4. calls' = calls \/ (calls < MaxCalls /\ calls' = calls + 1)
  BY Zenon DEF ShellNext, Call, AskHealth, Look, Spawn, Publish, Poll, LookToStop, Ended, OutOfTime,
     StartAgain, Tell, Clear, Listen, WatchParent, CloseDown, ProcessCrash, StrangerLeaves,
     CloseWindow, EndDesktop, OpenDesktop, shellVars
<1>5. desktop'.id = desktop.id \/ (desktop.id < MaxDesktops /\ desktop'.id = desktop.id + 1)
  <2>1. \/ desktop' = desktop \/ desktop' = [desktop EXCEPT !.is = "leaving"]
        \/ desktop' = [desktop EXCEPT !.is = "gone"]
        \/ (desktop.id < MaxDesktops /\ desktop' = [id |-> desktop.id + 1, is |-> "up"])
    BY Zenon DEF ShellNext, Call, AskHealth, Look, Spawn, Publish, Poll, LookToStop, Ended, OutOfTime,
       StartAgain, Tell, Clear, Listen, WatchParent, CloseDown, ProcessCrash, StrangerLeaves,
       CloseWindow, EndDesktop, OpenDesktop, shellVars
  <2>2. desktop \in [id : Nat, is : {"up", "leaving", "gone"}]
    BY DEF ShellInv, ShellShape
  <2> QED
    BY <2>1, <2>2
<1>6. calls' \in 0..MaxCalls /\ shellFaults' \in 0..MaxShellFaults
  BY <1>1, <1>3, <1>4
<1>7. desktop'.id \in 1..MaxDesktops
  BY <1>1, <1>5
<1> QED
  BY <1>2, <1>6, <1>7 DEF ShellLimits

LEMMA ShellTyped == ShellInv /\ ShellLimits => ShellTypeOK
<1> SUFFICES ASSUME ShellInv, ShellLimits PROVE ShellTypeOK
  OBVIOUS
<1>1. starting \in BOOLEAN /\ stranger \in BOOLEAN
  BY Zenon DEF ShellInv, ShellShape, ShellLimits
<1>2. desktop \in [id : 1..MaxDesktops, is : {"up", "leaving", "gone"}]
  BY DEF ShellInv, ShellShape, ShellLimits
<1>3. parent \in [Processes -> 0..MaxDesktops]
  <2>1. \A c \in Processes : parent[c] \in 0..MaxDesktops
    BY ShellBounds DEF ShellInv, ShellShape, ProcessesFit, ShellLimits
  <2> QED
    BY <2>1 DEF ShellInv, ShellShape
<1>4. command \in 0..MaxChildren /\ control \in [Callers -> HeldRecords]
      /\ child \in [Processes -> {"none", "born", "serving", "closing", "gone"}]
      /\ waited \in [Processes -> {"no", "waits", "told", "cleared"}]
  BY DEF ShellInv, ShellShape
<1>5. calls \in 0..MaxCalls /\ shellFaults \in 0..MaxShellFaults
  BY DEF ShellLimits
<1> QED
  BY <1>1, <1>2, <1>3, <1>4, <1>5 DEF ShellTypeOK, Callers, HeldRecords

\* The clients a status and a stop name were started.
TunnelLimits ==
    /\ status.named \in 0..MaxTunnels /\ \A s \in Stoppers : stopper[s].client \in 0..MaxTunnels
    /\ unkilled \subseteq Clients
    /\ keyFile \in BOOLEAN /\ edits \in 0..MaxEdits /\ tunnelFaults \in 0..MaxTunnelFaults

LEMMA TunnelTypesStart == TunnelInit => TunnelLimits
<1> SUFFICES ASSUME TunnelInit PROVE TunnelLimits
  OBVIOUS
<1>1. keyFile \in BOOLEAN
  BY Zenon DEF TunnelInit
<1>2. status.named = 0 /\ edits = 0 /\ tunnelFaults = 0 /\ unkilled = {} /\ \A s \in Stoppers : stopper[s].client = 0
  BY DEF TunnelInit, Stopped, NoStop
<1> QED
  BY <1>1, <1>2, TunnelBounds DEF TunnelLimits

LEMMA TunnelTypesKept ==
    ASSUME TunnelInv, TunnelLimits, [TunnelNext]_tunnelVars
    PROVE  TunnelLimits'
<1>1. /\ MaxTunnels \in Nat /\ MaxEdits \in Nat /\ MaxTunnelFaults \in Nat
      /\ edits \in 0..MaxEdits /\ tunnelFaults \in 0..MaxTunnelFaults
      /\ status.named \in 0..MaxTunnels
  BY TunnelBounds DEF TunnelLimits
<1>2. \A s \in Stoppers : stopper[s].client \in 0..MaxTunnels
  BY DEF TunnelLimits
<1>3. keyFile' \in BOOLEAN
  <2>1. keyFile \in BOOLEAN
    BY Zenon DEF TunnelLimits
  <2>2. keyFile' = keyFile \/ keyFile' = FALSE \/ keyFile' = TRUE
    BY Zenon DEF KeyGoes, TunnelNext, Configure, StartTunnel, ClientEnds, Wait, Line, TakeOut, RemoveKey, Kill,
       ServiceCrash, tunnelVars
  <2> QED
    BY <2>1, <2>2, Zenon
<1>4. /\ edits' = edits \/ (edits < MaxEdits /\ edits' = edits + 1)
      /\ tunnelFaults' = tunnelFaults \/ TunnelFault
  BY Zenon DEF KeyGoes, TunnelNext, Configure, StartTunnel, ClientEnds, Wait, Line, TakeOut, RemoveKey, Kill,
     ServiceCrash, tunnelVars
<1>5. edits' \in 0..MaxEdits /\ tunnelFaults' \in 0..MaxTunnelFaults
  BY <1>1, <1>4 DEF TunnelFault
<1>6. status'.named \in 0..MaxTunnels
  <2>1. \/ status' = status \/ status' = Stopped
        \/ status' = [running |-> TRUE, connected |-> FALSE, named |-> 0]
        \/ status' = [status EXCEPT !.connected = TRUE] \/ status' = [status EXCEPT !.connected = FALSE]
        \/ \E n \in Clients : status' = [status EXCEPT !.named = n]
    BY Zenon DEF TunnelNext, Configure, StartTunnel, ClientEnds, Wait, Line, TakeOut, RemoveKey, Kill,
       ServiceCrash, tunnelVars
  <2>2. status \in [running : BOOLEAN, connected : BOOLEAN, named : Nat]
    BY DEF TunnelInv, TunnelShape
  <2> QED
    BY <1>1, <2>1, <2>2 DEF Stopped, Clients
<1>7. \A s \in Stoppers : stopper'[s].client \in 0..MaxTunnels
  <2>1. stopper \in [Stoppers -> [at : {"rest", "file", "kill"}, client : Nat]]
        /\ tunnel \in 0..MaxTunnels
    BY <1>1 DEF TunnelInv, TunnelShape, StatusFits, Clients
  <2>2. \/ stopper' = stopper \/ stopper' = [s \in Stoppers |-> NoStop]
        \/ \E s \in Stoppers :
             \/ stopper' = [stopper EXCEPT ![s] = [at |-> "file", client |-> tunnel]]
             \/ stopper' = [stopper EXCEPT ![s] = IF @.client = 0 THEN NoStop ELSE [@ EXCEPT !.at = "kill"]]
             \/ stopper' = [stopper EXCEPT ![s] = NoStop]
    BY Zenon DEF TunnelNext, Configure, StartTunnel, ClientEnds, Wait, Line, TakeOut, RemoveKey, Kill,
       ServiceCrash, tunnelVars
  <2> QED
    BY <1>1, <1>2, <2>1, <2>2 DEF NoStop
<1>8. unkilled' \subseteq Clients
  <2>1. \/ unkilled' = unkilled
        \/ \E s \in Stoppers : /\ stopper[s].at = "kill"
                               /\ unkilled' = unkilled \cup {stopper[s].client}
    BY Zenon DEF TunnelNext, Configure, StartTunnel, ClientEnds, Wait, Line, TakeOut, RemoveKey, Kill,
       ServiceCrash, tunnelVars
  <2>2. unkilled \subseteq Clients /\ \A s \in Stoppers : stopper[s].at = "kill" => stopper[s].client # 0
    BY DEF TunnelLimits, TunnelInv, StoppersFit
  <2>3. ASSUME NEW s \in Stoppers, stopper[s].at = "kill" PROVE stopper[s].client \in Clients
    <3>1. stopper[s].client \in 0..MaxTunnels /\ stopper[s].client # 0
      BY <1>2, <2>2, <2>3
    <3> QED
      BY <1>1, <3>1 DEF Clients
  <2> QED
    BY <2>1, <2>2, <2>3
<1> QED
  BY <1>3, <1>5, <1>6, <1>7, <1>8 DEF TunnelLimits

LEMMA TunnelTyped == TunnelInv /\ TunnelLimits => TunnelTypeOK
<1> SUFFICES ASSUME TunnelInv, TunnelLimits PROVE TunnelTypeOK
  OBVIOUS
<1>1. keyFile \in BOOLEAN
  BY Zenon DEF TunnelLimits
<1>2. tunnel \in 0..MaxTunnels
  BY TunnelBounds DEF TunnelInv, TunnelShape, StatusFits, Clients
<1>3. status \in [running : BOOLEAN, connected : BOOLEAN, named : 0..MaxTunnels]
  BY DEF TunnelInv, TunnelShape, TunnelLimits
<1>4. stopper \in [Stoppers -> [at : {"rest", "file", "kill"}, client : 0..MaxTunnels]]
  BY DEF TunnelInv, TunnelShape, TunnelLimits
<1>5. /\ netConfig \in Configs /\ netClient \in [Clients -> {"none", "up", "ended"}]
      /\ usedBy \in [Clients -> Configs] /\ watched \cup unkilled \subseteq Clients
  BY DEF TunnelInv, TunnelShape, TunnelLimits
<1>6. edits \in 0..MaxEdits /\ tunnelFaults \in 0..MaxTunnelFaults
  BY DEF TunnelLimits
<1> QED
  BY <1>1, <1>2, <1>3, <1>4, <1>5, <1>6 DEF TunnelTypeOK

\* Every goroutine that closes the server belongs to a request that is over, and
\* a request at work has its flow.
CallbackRecords(n) ==
    [at : {"away", "exchange", "store", "stored", "gone"}, id : 0..n]

FlowRecords(n) == [id : 1..n, status : {"pending", "failed"}] \cup {NoFlow}

Over(given) == {c \in Callbacks : given[c].at = "gone"}

FlowsFit ==
    /\ flows \in 0..MaxFlows /\ port \in 0..flows /\ timers \subseteq 1..flows /\ codes \subseteq 1..flows
    /\ flow \in FlowRecords(flows)

CallbacksFit ==
    /\ callback \in [Callbacks -> CallbackRecords(flows)]
    /\ \A c \in Callbacks : callback[c].at \in {"exchange", "store", "stored"} => callback[c].id # 0

ClosersFit == closers \in Nat /\ closers <= Cardinality(Over(callback))

SignInLimits ==
    /\ FlowsFit /\ CallbacksFit /\ ClosersFit
    /\ leaving \in BOOLEAN /\ authFaults \in 0..MaxAuthFaults

LEMMA OverIsFinite ==
    ASSUME NEW given
    PROVE  IsFiniteSet(Over(given)) /\ Cardinality(Over(given)) \in Nat
           /\ Cardinality(Over(given)) <= Cardinality(Callbacks)
<1>1. IsFiniteSet(Callbacks) /\ Over(given) \subseteq Callbacks
  BY SignInBounds DEF Over
<1> QED
  BY <1>1, FS_Subset, FS_CardinalityType

\* One request more is over.
LEMMA OneMoreIsOver ==
    ASSUME NEW given, NEW c \in Callbacks, NEW given2,
           given[c].at # "gone", given2[c].at = "gone",
           \A d \in Callbacks : d # c => given2[d].at = given[d].at
    PROVE  Cardinality(Over(given2)) = Cardinality(Over(given)) + 1
<1>1. Over(given2) = Over(given) \cup {c} /\ c \notin Over(given)
  BY DEF Over
<1> QED
  BY <1>1, OverIsFinite, FS_AddElement

LEMMA SameAreOver ==
    ASSUME NEW given, NEW given2, \A d \in Callbacks : given[d].at = "gone" => given2[d].at = "gone"
    PROVE  Cardinality(Over(given)) <= Cardinality(Over(given2))
<1>1. Over(given) \subseteq Over(given2)
  BY DEF Over
<1> QED
  BY <1>1, OverIsFinite, FS_Subset

LEMMA SignInTypesStart == SignInInit => SignInLimits
<1> SUFFICES ASSUME SignInInit PROVE SignInLimits
  OBVIOUS
<1>1. leaving \in BOOLEAN
  BY Zenon DEF SignInInit
<1>2. FlowsFit
  BY SignInBounds DEF SignInInit, FlowsFit, FlowRecords
<1>3. CallbacksFit
  BY DEF SignInInit, CallbacksFit, CallbackRecords, Away
<1>4. ClosersFit
  <2>1. closers = 0 /\ Cardinality(Over(callback)) \in Nat
    BY OverIsFinite DEF SignInInit
  <2> QED
    BY <2>1 DEF ClosersFit
<1>5. authFaults \in 0..MaxAuthFaults
  BY SignInBounds DEF SignInInit
<1> QED
  BY <1>1, <1>2, <1>3, <1>4, <1>5 DEF SignInLimits

\* A request that goes to a place of its own, or is over and calls a goroutine.
RequestMoves(c, record) ==
    /\ record \in CallbackRecords(flows) /\ callback' = [callback EXCEPT ![c] = record]
    /\ record.at \in {"exchange", "store", "stored"} => record.id # 0
    /\ closers' = closers \/ (record.at = "gone" /\ closers' = closers + 1)

LEMMA RequestTyped ==
    ASSUME SignInLimits, NEW c \in Callbacks, NEW record, RequestMoves(c, record), flows' = flows,
           callback[c].at # "gone"
    PROVE  CallbacksFit' /\ ClosersFit'
<1>0. /\ record \in CallbackRecords(flows) /\ callback' = [callback EXCEPT ![c] = record]
      /\ record.at \in {"exchange", "store", "stored"} => record.id # 0
      /\ closers' = closers \/ (record.at = "gone" /\ closers' = closers + 1)
  BY DEF RequestMoves
<1>1. callback \in [Callbacks -> CallbackRecords(flows)] /\ callback' \in [Callbacks -> CallbackRecords(flows)]
      /\ callback'[c] = record /\ \A d \in Callbacks : d # c => callback'[d] = callback[d]
  BY <1>0 DEF SignInLimits, CallbacksFit
<1>2. CallbacksFit'
  BY <1>0, <1>1 DEF SignInLimits, CallbacksFit
<1>3. closers \in Nat /\ closers <= Cardinality(Over(callback))
  BY DEF SignInLimits, ClosersFit
<1>4. Cardinality(Over(callback)) \in Nat /\ Cardinality(Over(callback')) \in Nat
  BY OverIsFinite
<1>5. CASE closers' = closers
  <2>1. \A d \in Callbacks : callback[d].at = "gone" => callback'[d].at = "gone"
    BY <1>1
  <2>2. Cardinality(Over(callback)) <= Cardinality(Over(callback'))
    BY <2>1, SameAreOver
  <2> QED
    BY <1>2, <1>3, <1>4, <1>5, <2>2 DEF ClosersFit
<1>6. CASE record.at = "gone" /\ closers' = closers + 1
  <2>1. callback'[c].at = "gone" /\ \A d \in Callbacks : d # c => callback'[d].at = callback[d].at
    BY <1>1, <1>6
  <2>2. Cardinality(Over(callback')) = Cardinality(Over(callback)) + 1
    BY <2>1, OneMoreIsOver
  <2> QED
    BY <1>2, <1>3, <1>4, <1>6, <2>2 DEF ClosersFit
<1> QED
  BY <1>0, <1>5, <1>6

LEMMA FlowFails ==
    ASSUME SignInLimits, NEW id, id # 0, FailFlow(id)
    PROVE  flow' \in FlowRecords(flows)
BY DEF SignInLimits, FlowsFit, FlowRecords, FailFlow, NoFlow

LEMMA EndsMoveIt ==
    ASSUME SignInLimits, NEW c, NEW id \in 1..flows, Ends(c, id)
    PROVE  (\E record : RequestMoves(c, record)) /\ flow' \in FlowRecords(flows)
<1>1. flows \in Nat
  BY SignInBounds DEF SignInLimits, FlowsFit
<1>2. RequestMoves(c, [at |-> "gone", id |-> id])
  BY <1>1 DEF Ends, RequestMoves, CallbackRecords
<1>3. flow' \in FlowRecords(flows)
  BY <1>1, FlowFails DEF Ends
<1> QED
  BY <1>2, <1>3

\* A request that goes on keeps its flow.
LEMMA GoesMoveIt ==
    ASSUME SignInLimits, NEW c \in Callbacks, callback[c].at \in {"exchange", "store", "stored"},
           NEW place \in {"store", "stored", "gone"}, callback' = [callback EXCEPT ![c].at = place],
           closers' = closers \/ (place = "gone" /\ closers' = closers + 1)
    PROVE  \E record : RequestMoves(c, record)
<1>1. callback \in [Callbacks -> CallbackRecords(flows)] /\ callback[c].id # 0
  BY DEF SignInLimits, CallbacksFit
<1>2. [callback[c] EXCEPT !.at = place] \in CallbackRecords(flows)
      /\ [callback[c] EXCEPT !.at = place].at = place
      /\ [callback[c] EXCEPT !.at = place].id = callback[c].id
  BY <1>1 DEF CallbackRecords
<1>3. callback' = [callback EXCEPT ![c] = [callback[c] EXCEPT !.at = place]]
  BY <1>1
<1>4. RequestMoves(c, [callback[c] EXCEPT !.at = place])
  BY <1>1, <1>2, <1>3 DEF RequestMoves
<1> QED
  BY <1>4

LEMMA SignInTypesKept ==
    ASSUME SignInLimits, [SignInNext]_signInVars
    PROVE  SignInLimits'
<1>1. /\ MaxFlows \in Nat /\ MaxAuthFaults \in Nat /\ flows \in 0..MaxFlows
      /\ authFaults \in 0..MaxAuthFaults
  BY SignInBounds DEF SignInLimits, FlowsFit
<1>2. leaving' \in BOOLEAN
  <2>1. leaving \in BOOLEAN
    BY Zenon DEF SignInLimits
  <2>2. leaving' = leaving \/ leaving' = TRUE \/ leaving' = FALSE
    BY Zenon DEF SignInNext, Start, ServeFails, ShutdownServer, StopFlow, DeleteRecord, Arrive,
       Exchange, StoreRecord, Complete, ExpireFlow, BeginRefresh, Refresh, signInVars, flowVars, tokenVars
  <2> QED
    BY <2>1, <2>2, Zenon
<1>3. authFaults' \in 0..MaxAuthFaults
  <2>1. authFaults' = authFaults \/ AuthFault
    BY Zenon DEF SignInNext, Start, ServeFails, ShutdownServer, StopFlow, DeleteRecord, Arrive,
       Exchange, StoreRecord, Complete, ExpireFlow, BeginRefresh, Refresh, signInVars, flowVars, tokenVars
  <2> QED
    BY <1>1, <2>1 DEF AuthFault
<1>4. FlowsFit /\ CallbacksFit /\ ClosersFit
  BY DEF SignInLimits
<1>5. (FlowsFit /\ CallbacksFit /\ ClosersFit)' => SignInLimits'
  BY <1>2, <1>3 DEF SignInLimits
<1>6. ASSUME UNCHANGED <<callback, closers, flows>> PROVE CallbacksFit' /\ ClosersFit'
  BY <1>4, <1>6 DEF CallbacksFit, ClosersFit
<1>7. CASE UNCHANGED flowVars
  BY <1>4, <1>5, <1>6, <1>7 DEF flowVars, FlowsFit
<1>8. CASE Start
  <2>1. /\ flows < MaxFlows /\ flows' = flows + 1 /\ port' = flows + 1 /\ timers' = timers \cup {flows + 1}
        /\ flow' = [id |-> flows + 1, status |-> "pending"] /\ UNCHANGED <<closers, callback, codes>>
    BY <1>8 DEF Start
  <2>2. 0..flows \subseteq 0..flows' /\ 1..flows \subseteq 1..flows' /\ flows' \in 1..flows'
        /\ flows' \in 0..MaxFlows
    BY <1>1, <2>1
  <2>3. FlowsFit'
    BY <1>4, <2>1, <2>2 DEF FlowsFit, FlowRecords
  <2>4. CallbacksFit'
    BY <1>4, <2>1, <2>2 DEF CallbacksFit, CallbackRecords
  <2> QED
    BY <1>4, <1>5, <2>1, <2>3, <2>4 DEF ClosersFit
<1>9. CASE ServeFails
  <2>1. flow' \in FlowRecords(flows)
    BY <1>9, FlowFails DEF ServeFails
  <2> QED
    BY <1>4, <1>5, <1>6, <1>9, <2>1 DEF ServeFails, FlowsFit
<1>10. CASE ShutdownServer
  <2>1. FlowsFit'
    BY <1>1, <1>4, <1>10 DEF ShutdownServer, FlowsFit
  <2>2. CallbacksFit'
    BY <1>4, <1>10 DEF ShutdownServer, CallbacksFit
  <2>3. ClosersFit'
    BY <1>4, <1>10, OverIsFinite DEF ShutdownServer, ClosersFit
  <2> QED
    BY <1>5, <2>1, <2>2, <2>3
<1>11. CASE StopFlow
  <2>1. flow' \in {flow, NoFlow} /\ port' \in {port, 0} /\ UNCHANGED <<flows, timers, codes, closers, callback>>
    BY <1>11 DEF StopFlow
  <2> QED
    BY <1>1, <1>4, <1>5, <1>6, <2>1 DEF FlowsFit, FlowRecords
<1>12. CASE DeleteRecord
  BY <1>4, <1>5, <1>6, <1>12 DEF DeleteRecord, FlowsFit
<1>13. ASSUME NEW id \in 1..MaxFlows, ExpireFlow(id) PROVE SignInLimits'
  <2>1. flow' \in FlowRecords(flows)
    BY <1>13, FlowFails DEF ExpireFlow
  <2>2. port' \in {port, 0} /\ timers' \subseteq timers /\ UNCHANGED <<flows, codes, closers, callback>>
    BY <1>13 DEF ExpireFlow
  <2> QED
    BY <1>1, <1>4, <1>5, <1>6, <2>1, <2>2 DEF FlowsFit
<1>14. ASSUME NEW c \in Callbacks, Arrive(c) \/ Exchange(c) \/ StoreRecord(c) \/ Complete(c)
       PROVE  SignInLimits'
  <2>1. callback[c] \in CallbackRecords(flows) /\ callback[c].at # "gone"
        /\ UNCHANGED <<flows, port, timers>>
        /\ (callback[c].at # "away" => callback[c].id # 0)
    BY <1>4, <1>14 DEF CallbacksFit, CallbackRecords, Arrive, Exchange, StoreRecord, Complete
  <2>2. flow \in FlowRecords(flows) /\ callback[c].id \in 0..flows
    BY <1>4, <2>1 DEF FlowsFit, CallbackRecords
  <2>3. (\E record : RequestMoves(c, record)) /\ flow' \in FlowRecords(flows) /\ codes' \subseteq 1..flows
    <3>1. codes \subseteq 1..flows
      BY <1>4 DEF FlowsFit
    <3>2. CASE Arrive(c)
      <4>1. flow.id \in 1..flows /\ codes' = codes
        BY <2>2, <3>2 DEF Arrive, FlowRecords, NoFlow
      <4>2. CASE Ends(c, flow.id)
        BY <3>1, <4>1, <4>2, EndsMoveIt
      <4>3. CASE callback' = [callback EXCEPT ![c] = [at |-> "exchange", id |-> flow.id]]
                 /\ UNCHANGED <<flow, closers>>
        <5>1. RequestMoves(c, [at |-> "exchange", id |-> flow.id])
          BY <1>1, <4>1, <4>3 DEF RequestMoves, CallbackRecords
        <5> QED
          BY <2>2, <3>1, <4>1, <4>3, <5>1
      <4> QED
        BY <3>2, <4>2, <4>3 DEF Arrive
    <3>3. CASE Exchange(c)
      <4>1. callback[c].at = "exchange" /\ callback[c].id \in 1..flows
        BY <1>1, <2>1, <2>2, <3>3 DEF Exchange
      <4>2. CASE Ends(c, callback[c].id) /\ UNCHANGED codes
        BY <3>1, <4>1, <4>2, EndsMoveIt
      <4>3. CASE codes' = codes \cup {callback[c].id} /\ UNCHANGED <<flow, closers>>
                 /\ callback' = [callback EXCEPT ![c].at =
                        IF flow = [id |-> callback[c].id, status |-> "pending"] THEN "store" ELSE "gone"]
        <5>1. PICK place \in {"store", "gone"} : callback' = [callback EXCEPT ![c].at = place]
          BY <4>3
        <5>2. \E record : RequestMoves(c, record)
          BY <4>1, <4>3, <5>1, GoesMoveIt
        <5> QED
          BY <2>2, <3>1, <4>1, <4>3, <5>2
      <4> QED
        BY <3>3, <4>2, <4>3 DEF Exchange
    <3>4. CASE StoreRecord(c)
      <4>1. callback[c].at = "store" /\ callback[c].id \in 1..flows /\ codes' = codes
        BY <1>1, <2>1, <2>2, <3>4 DEF StoreRecord
      <4>2. CASE Ends(c, callback[c].id)
        BY <3>1, <4>1, <4>2, EndsMoveIt
      <4>3. CASE callback' = [callback EXCEPT ![c].at = "stored"] /\ UNCHANGED <<flow, closers>>
        BY <2>2, <3>1, <4>1, <4>3, GoesMoveIt
      <4> QED
        BY <3>4, <4>2, <4>3 DEF StoreRecord
    <3>5. CASE Complete(c)
      <4>1. callback[c].at = "stored" /\ codes' = codes /\ flow' \in {flow, NoFlow}
            /\ callback' = [callback EXCEPT ![c].at = "gone"] /\ closers' = closers + 1
        BY <3>5 DEF Complete
      <4>2. \E record : RequestMoves(c, record)
        BY <4>1, GoesMoveIt
      <4> QED
        BY <2>2, <3>1, <4>1, <4>2 DEF FlowRecords
    <3> QED
      BY <1>14, <3>2, <3>3, <3>4, <3>5
  <2>4. CallbacksFit' /\ ClosersFit'
    BY <2>1, <2>3, RequestTyped
  <2>5. FlowsFit'
    BY <1>4, <2>1, <2>3 DEF FlowsFit
  <2> QED
    BY <1>5, <2>4, <2>5
<1> QED
  BY <1>7, <1>8, <1>9, <1>10, <1>11, <1>12, <1>13, <1>14
     DEF SignInNext, BeginRefresh, Refresh, signInVars

LEMMA SignInTyped == TokenInv /\ SignInLimits => SignInTypeOK
<1> SUFFICES ASSUME TokenInv, SignInLimits PROVE SignInTypeOK
  OBVIOUS
<1>1. leaving \in BOOLEAN
  BY Zenon DEF SignInLimits
<1>2. closers \in 0..Cardinality(Callbacks)
  <2>1. closers \in Nat /\ closers <= Cardinality(Over(callback))
    BY DEF SignInLimits, ClosersFit
  <2>2. Cardinality(Over(callback)) \in Nat /\ Cardinality(Over(callback)) <= Cardinality(Callbacks)
        /\ Cardinality(Callbacks) \in Nat
    BY OverIsFinite, SignInBounds, FS_CardinalityType
  <2> QED
    BY <2>1, <2>2
<1>3. asker \in [Askers -> 0..issued] /\ token \in 0..issued
  BY SignInBounds DEF TokenInv, TokenShape, HolderHasToken
<1>4. /\ flows \in 0..MaxFlows /\ port \in 0..flows /\ timers \subseteq 1..flows /\ codes \subseteq 1..flows
      /\ flow \in [id : 1..flows, status : {"pending", "failed"}] \cup {NoFlow}
  BY DEF SignInLimits, FlowsFit, FlowRecords
<1>5. callback \in [Callbacks -> [at : {"away", "exchange", "store", "stored", "gone"}, id : 0..flows]]
  BY DEF SignInLimits, CallbacksFit, CallbackRecords
<1>6. issued \in 0..MaxTokens /\ storeMu \in Askers \cup {NoAsker} /\ authFaults \in 0..MaxAuthFaults
  BY DEF TokenInv, TokenShape, HolderHasToken, SignInLimits
<1> QED
  BY <1>1, <1>2, <1>3, <1>4, <1>5, <1>6 DEF SignInTypeOK

PagePlaces == page \in {"loading", "offline", "healthy"}

ConsoleCounts == consoleFaults \in 0..MaxConsoleFaults /\ reloads \in 0..MaxReloads

FollowedRuns == activeRuns \in [Chats -> -MaxPrompts..MaxPrompts]

ConsoleLimits ==
    /\ outboxAvailable \in BOOLEAN /\ PagePlaces /\ ConsoleCounts /\ FollowedRuns
    /\ reconnects \in [Prompts -> 0..MaxReconnects]
    /\ skipped \subseteq Chats /\ candidates \subseteq Prompts

LEMMA ConsoleTypesStart == ConsoleInit => ConsoleLimits
<1> SUFFICES ASSUME ConsoleInit PROVE ConsoleLimits
  OBVIOUS
<1>1. outboxAvailable \in BOOLEAN
  BY Zenon DEF ConsoleInit
<1>2. PagePlaces
  BY DEF ConsoleInit, PagePlaces
<1>3. ConsoleCounts /\ FollowedRuns /\ reconnects \in [Prompts -> 0..MaxReconnects]
  BY ConsoleBounds DEF ConsoleInit, ConsoleCounts, FollowedRuns, NoRun
<1>4. skipped \subseteq Chats /\ candidates \subseteq Prompts
  BY DEF ConsoleInit
<1> QED
  BY <1>1, <1>2, <1>3, <1>4 DEF ConsoleLimits

\* The page, the outbox, the faults and the reloads.
LEMMA PageSteps ==
    ASSUME [ConsoleNext]_consoleVars
    PROVE  /\ UNCHANGED outboxAvailable \/ outboxAvailable' = TRUE \/ outboxAvailable' = FALSE
           /\ UNCHANGED page \/ page' = "loading" \/ page' = "offline" \/ page' = "healthy"
           /\ UNCHANGED consoleFaults \/ ConsoleFault
           /\ UNCHANGED reloads \/ (reloads < MaxReloads /\ reloads' = reloads + 1)
<1>1. UNCHANGED outboxAvailable \/ outboxAvailable' = TRUE \/ outboxAvailable' = FALSE
  BY Zenon DEF ConsoleNext, consoleVars, promptVars, serverVars, Others, NoFault, Put, PutFails,
     Enqueue, RemovePrompt, RetryPrompt, PromptStep, Claim, Upload, Open, Name, Read, Done, Leave,
     FailPrompt, Quit, EndRun, Cancel, Unfollow, OpenChat, Reload, LoadOutbox, Online, Choose, Offline
<1>2. UNCHANGED page \/ page' = "loading" \/ page' = "offline" \/ page' = "healthy"
  BY Zenon DEF ConsoleNext, consoleVars, promptVars, serverVars, Others,
     Enqueue, RemovePrompt, RetryPrompt, PromptStep, Claim, Upload, Open, Name, Read, Done, Leave,
     FailPrompt, Quit, EndRun, Cancel, Unfollow, OpenChat, Reload, LoadOutbox, Online, Choose, Offline
<1>3. UNCHANGED consoleFaults \/ ConsoleFault
  BY Zenon DEF ConsoleNext, consoleVars, promptVars, serverVars, Others, NoFault, Put, PutFails,
     Enqueue, RemovePrompt, RetryPrompt, PromptStep, Claim, Upload, Open, Name, Read, Done, Leave,
     FailPrompt, Quit, EndRun, Cancel, Unfollow, OpenChat, Reload, LoadOutbox, Online, Choose, Offline
<1>4. UNCHANGED reloads \/ (reloads < MaxReloads /\ reloads' = reloads + 1)
  BY Zenon DEF ConsoleNext, consoleVars, promptVars, serverVars, Others,
     Enqueue, RemovePrompt, RetryPrompt, PromptStep, Claim, Upload, Open, Name, Read, Done, Leave,
     FailPrompt, Quit, EndRun, Cancel, Unfollow, OpenChat, Reload, LoadOutbox, Online, Choose, Offline
<1> QED
  BY <1>1, <1>2, <1>3, <1>4, Zenon

\* A prompt is asked for again, or starts anew.
LEMMA ReconnectSteps ==
    ASSUME [ConsoleNext]_consoleVars
    PROVE  \/ UNCHANGED reconnects
           \/ \E items, tasks, launched : DrainedBy(items, tasks, launched)
           \/ \E p \in Prompts : Again(p)
           \/ reconnects' = [p \in Prompts |-> 0]
  BY Zenon DEF ConsoleNext, consoleVars, promptVars, serverVars, Others, Drain,
     Enqueue, RemovePrompt, RetryPrompt, PromptStep, Claim, Upload, Open, Name, Read, Done, Leave,
     FailPrompt, Quit, EndRun, Cancel, Unfollow, OpenChat, Reload, LoadOutbox, Online, Choose, Offline

\* The run a session shows, and the sessions left out.
LEMMA FollowSteps ==
    ASSUME [ConsoleNext]_consoleVars
    PROVE  /\ \/ UNCHANGED activeRuns
              \/ \E p \in Prompts : activeRuns' = [activeRuns EXCEPT ![ChatOf[p]] = p]
              \/ \E p \in Prompts : activeRuns' = [activeRuns EXCEPT ![ChatOf[p]] = NoRun]
              \/ \E s \in Chats : activeRuns' = [activeRuns EXCEPT ![s] = NoRun]
              \/ \E s \in Chats : \E p \in WorkingIn(s) : activeRuns' = Follows(activeRuns, p)
              \/ activeRuns' = [s \in Chats |-> NoRun]
              \/ Choose
           /\ \/ UNCHANGED skipped \/ skipped' = {} \/ Choose
              \/ \E s \in Chats : skipped' = skipped \ {s}
           /\ \/ UNCHANGED candidates \/ candidates' = {}
              \/ candidates' = {p \in Prompts : serverRun[p] = "working"}
<1>1. \/ UNCHANGED activeRuns
      \/ \E p \in Prompts : activeRuns' = [activeRuns EXCEPT ![ChatOf[p]] = p]
      \/ \E p \in Prompts : activeRuns' = [activeRuns EXCEPT ![ChatOf[p]] = NoRun]
      \/ \E s \in Chats : activeRuns' = [activeRuns EXCEPT ![s] = NoRun]
      \/ \E s \in Chats : \E p \in WorkingIn(s) : activeRuns' = Follows(activeRuns, p)
      \/ activeRuns' = [s \in Chats |-> NoRun]
      \/ Choose
  <2>1. \A p \in Prompts : Released(p) => \/ UNCHANGED activeRuns
                                          \/ activeRuns' = [activeRuns EXCEPT ![ChatOf[p]] = NoRun]
    BY Zenon DEF Released
  <2> QED
    BY <2>1, Zenon DEF ConsoleNext, consoleVars, promptVars, serverVars, Others,
     Enqueue, RemovePrompt, RetryPrompt, PromptStep, Claim, Upload, Open, Name, Read, Done, Leave,
     FailPrompt, Quit, EndRun, Cancel, Unfollow, OpenChat, Reload, LoadOutbox, Online, Offline
<1>2. UNCHANGED skipped \/ skipped' = {} \/ Choose \/ \E s \in Chats : skipped' = skipped \ {s}
  BY Zenon DEF ConsoleNext, consoleVars, promptVars, serverVars, Others,
     Enqueue, RemovePrompt, RetryPrompt, PromptStep, Claim, Upload, Open, Name, Read, Done, Leave,
     FailPrompt, Quit, EndRun, Cancel, Unfollow, OpenChat, Reload, LoadOutbox, Online, Offline
<1>3. \/ UNCHANGED candidates \/ candidates' = {}
      \/ candidates' = {p \in Prompts : serverRun[p] = "working"}
  BY Zenon DEF ConsoleNext, consoleVars, promptVars, serverVars, Others,
     Enqueue, RemovePrompt, RetryPrompt, PromptStep, Claim, Upload, Open, Name, Read, Done, Leave,
     FailPrompt, Quit, EndRun, Cancel, Unfollow, OpenChat, Reload, LoadOutbox, Online, Choose, Offline
<1> QED
  BY <1>1, <1>2, <1>3, Zenon

\* A set of numbers with a bound has its greatest.
LEMMA SomeGreatest ==
    ASSUME NEW b \in Nat, NEW S, S \subseteq 1..b, S # {}
    PROVE  \E x \in S : \A y \in S : y <= x
<1> DEFINE T == {b - x : x \in S}
           R == {m \in Nat \X Nat : m[1] < m[2]}
<1>1. IsWellFoundedOn(R, Nat)
  <2>1. R = OpToRel(<, Nat)
    BY DEF OpToRel
  <2> QED
    BY <2>1, NatLessThanWellFounded
<1>2. T \subseteq Nat /\ T # {}
  OBVIOUS
<1>3. PICK t \in T : \A u \in T : ~(<<u, t>> \in R)
  <2> HIDE DEF T, R
  <2> QED
    BY <1>1, <1>2, WFMin
<1>4. PICK x \in S : t = b - x
  OBVIOUS
<1>5. ASSUME NEW y \in S PROVE y <= x
  <2>1. b - y \in T /\ b - y \in Nat /\ b - x \in Nat /\ y \in Nat /\ x \in Nat
    OBVIOUS
  <2>2. ~(b - y < b - x)
    BY <1>2, <1>3, <1>4, <2>1
  <2> QED
    BY <2>1, <2>2
<1> QED
  BY <1>5

\* The runs that are chosen are runs of prompts.
LEMMA ChosenTyped ==
    ASSUME FollowedRuns, skipped \subseteq Chats, candidates \subseteq Prompts, Choose
    PROVE  FollowedRuns' /\ skipped' \subseteq Chats
<1>1. PICK chosen \in SUBSET candidates :
        /\ activeRuns' = [s \in Chats |->
              LET mine == {p \in chosen : ChatOf[p] = s} IN
              IF activeRuns[s] # NoRun \/ mine = {} THEN activeRuns[s]
              ELSE -(CHOOSE p \in mine : \A q \in mine : q <= p)]
        /\ skipped' = skipped \cup ({ChatOf[p] : p \in candidates} \ {ChatOf[p] : p \in chosen})
  BY Zenon DEF Choose
<1>2. skipped' \subseteq Chats
  BY <1>1, ConsoleBounds
<1>3. \A p \in Prompts : p \in 1..MaxPrompts /\ -p \in -MaxPrompts..MaxPrompts
  BY ConsoleBounds DEF Prompts
<1>4. ASSUME NEW s \in Chats PROVE activeRuns'[s] \in -MaxPrompts..MaxPrompts
  <2>1. PICK mine : mine = {p \in chosen : ChatOf[p] = s}
    OBVIOUS
  <2>2. mine \subseteq Prompts /\ mine \subseteq 1..MaxPrompts /\ MaxPrompts \in Nat
    BY <1>1, <2>1, ConsoleBounds DEF Prompts
  <2>3. activeRuns'[s] = IF activeRuns[s] # NoRun \/ mine = {} THEN activeRuns[s]
                         ELSE -(CHOOSE p \in mine : \A q \in mine : q <= p)
    BY <1>1, <2>1
  <2>4. activeRuns[s] \in -MaxPrompts..MaxPrompts
    BY DEF FollowedRuns
  <2>5. CASE activeRuns[s] # NoRun \/ mine = {}
    BY <2>3, <2>4, <2>5
  <2>6. CASE ~(activeRuns[s] # NoRun \/ mine = {})
    <3>1. PICK last \in mine : \A q \in mine : q <= last
      BY <2>2, <2>6, SomeGreatest
    <3>2. PICK d : d = CHOOSE p \in mine : \A q \in mine : q <= p
      OBVIOUS
    <3>3. d \in mine
      BY <3>1, <3>2
    <3>4. activeRuns'[s] = -d
      BY <2>3, <2>6, <3>2
    <3> QED
      BY <1>3, <2>2, <3>3, <3>4
  <2> QED
    BY <2>5, <2>6
<1>5. activeRuns' \in [Chats -> -MaxPrompts..MaxPrompts]
  <2>1. DOMAIN activeRuns' = Chats /\ activeRuns' = [s \in Chats |-> activeRuns'[s]]
    BY <1>1
  <2> QED
    BY <1>4, <2>1
<1> QED
  BY <1>2, <1>5 DEF FollowedRuns

LEMMA ConsoleTypesKept ==
    ASSUME ConsoleLimits, [ConsoleNext]_consoleVars
    PROVE  ConsoleLimits'
<1>1. outboxAvailable' \in BOOLEAN
  <2>1. outboxAvailable \in BOOLEAN
    BY Zenon DEF ConsoleLimits
  <2> QED
    BY <2>1, PageSteps, Zenon
<1>2. PagePlaces /\ ConsoleCounts /\ FollowedRuns /\ reconnects \in [Prompts -> 0..MaxReconnects]
      /\ skipped \subseteq Chats /\ candidates \subseteq Prompts
  BY Zenon DEF ConsoleLimits
<1>3. PagePlaces'
  BY <1>2, PageSteps, Zenon DEF PagePlaces
<1>4. ConsoleCounts'
  <2>1. MaxConsoleFaults \in Nat /\ MaxReloads \in Nat
    BY ConsoleBounds
  <2>2. /\ UNCHANGED consoleFaults \/ (consoleFaults < MaxConsoleFaults /\ consoleFaults' = consoleFaults + 1)
        /\ UNCHANGED reloads \/ (reloads < MaxReloads /\ reloads' = reloads + 1)
    BY PageSteps, Zenon DEF ConsoleFault
  <2> QED
    BY <1>2, <2>1, <2>2 DEF ConsoleCounts
<1>5. reconnects' \in [Prompts -> 0..MaxReconnects]
  <2>1. MaxReconnects \in Nat
    BY ConsoleBounds
  <2>2. CASE UNCHANGED reconnects
    BY <1>2, <2>2
  <2>3. ASSUME NEW items, NEW tasks, NEW launched, DrainedBy(items, tasks, launched)
        PROVE  reconnects' \in [Prompts -> 0..MaxReconnects]
    BY <1>2, <2>1, <2>3 DEF DrainedBy
  <2>4. ASSUME NEW p \in Prompts, Again(p)
        PROVE  reconnects' \in [Prompts -> 0..MaxReconnects]
    BY <1>2, <2>1, <2>4 DEF Again
  <2>5. CASE reconnects' = [p \in Prompts |-> 0]
    BY <2>1, <2>5
  <2> QED
    BY <2>2, <2>3, <2>4, <2>5, ReconnectSteps, Zenon
<1>6. FollowedRuns'
  <2>1. \A p \in Prompts : /\ p \in -MaxPrompts..MaxPrompts /\ -p \in -MaxPrompts..MaxPrompts
                           /\ ChatOf[p] \in Chats
    BY ConsoleBounds DEF Prompts
  <2>2. NoRun \in -MaxPrompts..MaxPrompts
    BY ConsoleBounds DEF NoRun
  <2>3. \A s \in Chats : WorkingIn(s) \subseteq Prompts
    BY DEF WorkingIn
  <2>4. ASSUME NEW p \in Prompts, activeRuns' = Follows(activeRuns, p) PROVE FollowedRuns'
    BY <1>2, <2>1, <2>4 DEF FollowedRuns, Follows
  <2>5. CASE Choose
    BY <1>2, <2>5, ChosenTyped
  <2>6. CASE \/ UNCHANGED activeRuns
             \/ \E p \in Prompts : activeRuns' = [activeRuns EXCEPT ![ChatOf[p]] = p]
             \/ \E p \in Prompts : activeRuns' = [activeRuns EXCEPT ![ChatOf[p]] = NoRun]
             \/ \E s \in Chats : activeRuns' = [activeRuns EXCEPT ![s] = NoRun]
             \/ activeRuns' = [s \in Chats |-> NoRun]
    BY <1>2, <2>1, <2>2, <2>6 DEF FollowedRuns
  <2> QED
    BY <2>3, <2>4, <2>5, <2>6, FollowSteps, Zenon
<1>7. skipped' \subseteq Chats /\ candidates' \subseteq Prompts
  <2>1. CASE Choose
    <3>1. skipped' \subseteq Chats
      BY <1>2, <2>1, ChosenTyped
    <3>2. candidates' = {}
      BY <2>1, Zenon DEF Choose
    <3> QED
      BY <3>1, <3>2
  <2>2. CASE UNCHANGED skipped \/ skipped' = {} \/ \E s \in Chats : skipped' = skipped \ {s}
    BY <1>2, <2>2, FollowSteps
  <2> QED
    BY <2>1, <2>2, FollowSteps, Zenon
<1> QED
  BY <1>1, <1>3, <1>4, <1>5, <1>6, <1>7, Zenon DEF ConsoleLimits

LEMMA ConsoleTyped == ConsoleInv /\ ConsoleLimits => ConsoleTypeOK
<1> SUFFICES ASSUME ConsoleInv, ConsoleLimits PROVE ConsoleTypeOK
  OBVIOUS
<1>1. outboxAvailable \in BOOLEAN
  BY Zenon DEF ConsoleLimits
<1>2. PagePlaces /\ ConsoleCounts /\ FollowedRuns /\ reconnects \in [Prompts -> 0..MaxReconnects]
      /\ skipped \subseteq Chats /\ candidates \subseteq Prompts
  BY Zenon DEF ConsoleLimits
<1>3. \A p \in Prompts : task[p] \notin {"none", "quitting"} => queue[p].status = "sending"
  BY ConsoleInvFields DEF Fits, PromptFits
<1>4. task \in [Prompts -> {"none", "claimed", "uploading", "opening", "naming", "reading",
                            "done", "leaving", "failing", "quitting"}]
  BY ConsoleInvFields DEF TaskPlaces
<1>5. /\ outbox \in [Prompts -> Items] /\ queue \in [Prompts -> Items]
      /\ serverRun \in [Prompts -> {"none", "working", "ended"}]
      /\ history \in [Prompts -> {"none", "accepted", "refused", "removed"}]
  BY ConsoleInvFields
<1> QED
  BY <1>1, <1>2, <1>3, <1>4, <1>5, Zenon DEF ConsoleTypeOK, PagePlaces, ConsoleCounts, FollowedRuns

\* While a call is looking at its command, another check may come.
Looking == {"start", "dial", "backoff", "session", "run"}

CallCounts ==
    /\ toolCall.attempt \in 0..MaxAttempts /\ toolCall.matching \in 0..StableChecks
    /\ toolCall.faults \in 0..MaxCommandFaults /\ toolCall.polls \in 0..MaxPolls + 1
    /\ toolCall.at \in Looking => toolCall.polls <= MaxPolls

CommandPlaces ==
    /\ {runCtx, checkCtx} \subseteq {"live", "expired", "canceled"}
    /\ connection \in {"none", "up", "silent", "down"}

CommandLimits == CallCounts /\ CommandPlaces

LEMMA CommandTypesStart == CommandInit => CommandLimits
<1> SUFFICES ASSUME CommandInit PROVE CommandLimits
  OBVIOUS
<1>1. CommandPlaces
  BY DEF CommandInit, CommandPlaces
<1>2. /\ toolCall.attempt = 0 /\ toolCall.matching = 0 /\ toolCall.faults = 0
      /\ toolCall.polls = 0 /\ toolCall.at = "idle"
  BY DEF CommandInit
<1>3. CallCounts
  BY <1>2, CommandAssumption DEF CallCounts
<1> QED
  BY <1>1, <1>3 DEF CommandLimits

\* What a step makes of the record of the call.
CallChanges ==
    \/ toolCall' = toolCall
    \/ toolCall.at \in Looking /\ \E at : toolCall' = [toolCall EXCEPT !.at = at]
    \/ /\ Fault /\ toolCall.at \in Looking
       /\ \E at : toolCall' = [toolCall EXCEPT !.at = at, !.faults = @ + 1]
    \/ \E r : toolCall' = [toolCall EXCEPT !.at = "idle", !.reply = r]
    \/ \E late, r : toolCall' = [toolCall EXCEPT !.at = "idle", !.pending = late, !.reply = r]
    \/ \E t, at, e : toolCall' = [tool |-> t, at |-> at, expected |-> e, attempt |-> 1,
                                  matching |-> 0, polls |-> 0, faults |-> 0, pending |-> FALSE,
                                  reply |-> "none"]
    \/ /\ toolCall.at \in Looking /\ toolCall.attempt # MaxAttempts /\ (Fault \/ Ctx # "live")
       /\ toolCall' = [toolCall EXCEPT !.at = "backoff", !.attempt = @ + 1,
                                       !.faults = IF Ctx = "live" THEN @ + 1 ELSE @]
    \/ /\ toolCall.at \in Looking
       /\ \E err, code : /\ ~(Counted(err, code) >= StableChecks)
                         /\ toolCall' = [toolCall EXCEPT !.at = "interval", !.polls = @ + 1,
                                                         !.matching = Counted(err, code)]
    \/ toolCall.polls < MaxPolls /\ toolCall' = [toolCall EXCEPT !.at = "dial", !.attempt = 1]
    \/ Fault /\ toolCall' = [toolCall EXCEPT !.faults = @ + 1]

LEMMA CallSteps == [CommandNext]_commandVars => CallChanges
<1> SUFFICES ASSUME [CommandNext]_commandVars PROVE CallChanges
  OBVIOUS
<1>1. "start" \in Looking /\ "dial" \in Looking /\ "backoff" \in Looking /\ "session" \in Looking
      /\ "run" \in Looking
  BY DEF Looking
<1>2. ASSUME NEW r, CallReplies(r) PROVE CallChanges
  BY <1>2, Zenon DEF CallReplies, CallChanges
<1>3. ASSUME NEW err, NEW code, toolCall.at \in Looking, Result(err, code) PROVE CallChanges
  BY <1>2, <1>3, Zenon DEF Result, CallChanges
<1>4. ASSUME toolCall.at \in Looking, NotConnected PROVE CallChanges
  BY <1>2, <1>3, <1>4, Zenon DEF NotConnected
<1>5. CASE UNCHANGED commandVars
  BY <1>5, Zenon DEF commandVars, CallChanges
<1>6. CASE (\E t \in {"shell", "ssh"} : Asked(t, 0)) \/ (\E e \in {-1, 0} : Asked("wait", e))
  <2>1. ASSUME NEW t, NEW e, Asked(t, e) PROVE CallChanges
    <3>1. PICK at : at = IF t = "shell" THEN "start" ELSE "dial"
      OBVIOUS
    <3>2. toolCall' = [tool |-> t, at |-> at, expected |-> e, attempt |-> 1, matching |-> 0,
                       polls |-> 0, faults |-> 0, pending |-> FALSE, reply |-> "none"]
      BY <2>1, <3>1, Zenon DEF Asked
    <3> QED
      BY <3>2, Zenon DEF CallChanges
  <2> QED
    BY <1>6, <2>1, Zenon
<1>7. CASE Refused
  BY <1>1, <1>7, Zenon DEF Refused, StepsByFault, CallChanges
<1>8. CASE \/ (\E how \in {"expired", "canceled"} : CallEnds(how)) \/ CheckExpires \/ Begins \/ ExitArrives
           \/ \E code \in 0..1 : Exits(code) \/ ShellExits(code)
  BY <1>8, Zenon DEF CallEnds, CheckExpires, Begins, ExitArrives, Exits, ShellExits, CallChanges
<1>9. CASE LinkChanges
  BY <1>9, Zenon DEF LinkChanges, CallChanges
<1>10. CASE Connects
  BY <1>1, <1>10, Zenon DEF Connects, Steps, CallChanges
<1>11. CASE ConnectFails
  BY <1>1, <1>4, <1>11, Zenon DEF ConnectFails, Rejected, CallChanges
<1>12. CASE BacksOff
  BY <1>1, <1>4, <1>12, Zenon DEF BacksOff, Steps, CallChanges
<1>13. CASE OpensSession
  BY <1>1, <1>3, <1>13, Zenon DEF OpensSession, Steps, CallChanges
<1>14. CASE RemoteDone \/ RemoteEnded \/ ConnectionLost
  BY <1>1, <1>3, <1>14, Zenon DEF RemoteDone, RemoteEnded, ConnectionLost
<1>15. CASE PollsAgain
  BY <1>2, <1>15, Zenon DEF PollsAgain, CallChanges
<1>16. CASE ShellStarts
  BY <1>1, <1>2, <1>16, Zenon DEF ShellStarts, Steps, CallChanges
<1>17. CASE ShellDone
  BY <1>2, <1>17, Zenon DEF ShellDone
<1>18. CASE ShellKilled
  BY <1>1, <1>18, Zenon DEF ShellKilled, Steps, StepsByFault, CallChanges
<1>19. CASE ShellReaped
  BY <1>19, Zenon DEF ShellReaped, CallChanges
<1> QED
  BY <1>5, <1>6, <1>7, <1>8, <1>9, <1>10, <1>11, <1>12, <1>13, <1>14, <1>15, <1>16, <1>17, <1>18,
     <1>19, Zenon DEF CommandNext, CommandStep

LEMMA CallCountsKept ==
    ASSUME toolCall \in CallRecords, CallCounts, CallChanges
    PROVE  CallCounts'
<1>1. /\ MaxAttempts \in Nat /\ MaxAttempts >= 1 /\ StableChecks \in Nat /\ MaxPolls \in Nat
      /\ MaxCommandFaults \in Nat
  BY CommandAssumption
<1>2. PICK a, m, f, n : a = toolCall.attempt /\ m = toolCall.matching /\ f = toolCall.faults
                        /\ n = toolCall.polls
  OBVIOUS
<1>3. /\ a \in 0..MaxAttempts /\ m \in 0..StableChecks /\ f \in 0..MaxCommandFaults
      /\ n \in 0..MaxPolls + 1 /\ (toolCall.at \in Looking => n <= MaxPolls)
  BY <1>2 DEF CallCounts
<1>4. CASE toolCall' = toolCall
  BY <1>4 DEF CallCounts
<1>5. ASSUME toolCall.at \in Looking, NEW at, toolCall' = [toolCall EXCEPT !.at = at]
      PROVE  CallCounts'
  BY <1>2, <1>3, <1>5 DEF CallCounts, CallRecords
<1>6. ASSUME Fault, NEW at, toolCall' = [toolCall EXCEPT !.at = at, !.faults = @ + 1],
             toolCall.at \in Looking
      PROVE  CallCounts'
  <2>1. toolCall' = [toolCall EXCEPT !.at = at, !.faults = f + 1] /\ f < MaxCommandFaults
    BY <1>2, <1>6 DEF Fault
  <2>2. f + 1 \in 0..MaxCommandFaults
    BY <1>1, <1>3, <2>1
  <2> QED
    BY <1>2, <1>3, <1>6, <2>1, <2>2 DEF CallCounts, CallRecords
<1>7. ASSUME NEW r, toolCall' = [toolCall EXCEPT !.at = "idle", !.reply = r]
      PROVE  CallCounts'
  BY <1>2, <1>3, <1>7 DEF CallCounts, CallRecords, Looking
<1>8. ASSUME NEW late, NEW r, toolCall' = [toolCall EXCEPT !.at = "idle", !.pending = late, !.reply = r]
      PROVE  CallCounts'
  BY <1>2, <1>3, <1>8 DEF CallCounts, CallRecords, Looking
<1>9. ASSUME NEW t, NEW at, NEW e,
             toolCall' = [tool |-> t, at |-> at, expected |-> e, attempt |-> 1, matching |-> 0,
                          polls |-> 0, faults |-> 0, pending |-> FALSE, reply |-> "none"]
      PROVE  CallCounts'
  <2>1. /\ toolCall'.attempt = 1 /\ toolCall'.matching = 0 /\ toolCall'.faults = 0
        /\ toolCall'.polls = 0
    BY <1>9
  <2> QED
    BY <1>1, <2>1 DEF CallCounts
<1>10. ASSUME toolCall.at \in Looking, toolCall.attempt # MaxAttempts, Fault \/ Ctx # "live",
              toolCall' = [toolCall EXCEPT !.at = "backoff", !.attempt = @ + 1,
                                           !.faults = IF Ctx = "live" THEN @ + 1 ELSE @]
       PROVE  CallCounts'
  <2>1. PICK g : g = IF Ctx = "live" THEN f + 1 ELSE f
    OBVIOUS
  <2>2. toolCall' = [toolCall EXCEPT !.at = "backoff", !.attempt = a + 1, !.faults = g]
    BY <1>2, <1>10, <2>1
  <2>3. g \in 0..MaxCommandFaults
    BY <1>1, <1>2, <1>3, <1>10, <2>1 DEF Fault
  <2>4. a + 1 \in 0..MaxAttempts
    BY <1>1, <1>2, <1>3, <1>10
  <2> QED
    BY <1>2, <1>3, <1>10, <2>2, <2>3, <2>4 DEF CallCounts, CallRecords
<1>11. ASSUME toolCall.at \in Looking, NEW err, NEW code, ~(Counted(err, code) >= StableChecks),
              toolCall' = [toolCall EXCEPT !.at = "interval", !.polls = @ + 1,
                                           !.matching = Counted(err, code)]
       PROVE  CallCounts'
  <2>1. PICK k : k = Counted(err, code)
    OBVIOUS
  <2>2. k = m + 1 \/ k = 0
    BY <1>2, <2>1 DEF Counted
  <2>3. k \in 0..StableChecks
    BY <1>1, <1>3, <1>11, <2>1, <2>2
  <2>4. toolCall' = [toolCall EXCEPT !.at = "interval", !.polls = n + 1, !.matching = k]
    BY <1>2, <1>11, <2>1
  <2>5. n + 1 \in 0..MaxPolls + 1
    BY <1>1, <1>3, <1>11
  <2> QED
    BY <1>2, <1>3, <2>3, <2>4, <2>5 DEF CallCounts, CallRecords, Looking
<1>12. ASSUME toolCall.polls < MaxPolls, toolCall' = [toolCall EXCEPT !.at = "dial", !.attempt = 1]
       PROVE  CallCounts'
  <2>1. 1 \in 0..MaxAttempts /\ n <= MaxPolls
    BY <1>1, <1>2, <1>3, <1>12
  <2> QED
    BY <1>2, <1>3, <1>12, <2>1 DEF CallCounts, CallRecords
<1>13. ASSUME Fault, toolCall' = [toolCall EXCEPT !.faults = @ + 1]
       PROVE  CallCounts'
  <2>1. toolCall' = [toolCall EXCEPT !.faults = f + 1] /\ f < MaxCommandFaults
    BY <1>2, <1>13 DEF Fault
  <2>2. f + 1 \in 0..MaxCommandFaults
    BY <1>1, <1>3, <2>1
  <2> QED
    BY <1>2, <1>3, <2>1, <2>2 DEF CallCounts, CallRecords
<1> QED
  BY <1>4, <1>5, <1>6, <1>7, <1>8, <1>9, <1>10, <1>11, <1>12, <1>13, Zenon DEF CallChanges

\* The contexts and the connection.
LEMMA CommandPlacesKept ==
    ASSUME CommandPlaces, [CommandNext]_commandVars
    PROVE  CommandPlaces'
<1>1. /\ runCtx' = runCtx \/ runCtx' \in {"live", "expired", "canceled"}
      /\ checkCtx' = checkCtx \/ checkCtx' \in {"live", "expired", "canceled"}
      /\ connection' = connection \/ connection' \in {"none", "up", "silent", "down"}
  <2>1. /\ "live" \in {"live", "expired", "canceled"} /\ "expired" \in {"live", "expired", "canceled"}
        /\ \A how \in {"expired", "canceled"} : how \in {"live", "expired", "canceled"}
    OBVIOUS
  <2>2. /\ "none" \in {"none", "up", "silent", "down"} /\ "up" \in {"none", "up", "silent", "down"}
        /\ \A c \in {"silent", "down"} : c \in {"none", "up", "silent", "down"}
        /\ \A c \in {"up", "down"} : c \in {"none", "up", "silent", "down"}
    OBVIOUS
  <2>3. runCtx' = runCtx \/ runCtx' = "live" \/ \E how \in {"expired", "canceled"} : runCtx' = how
    BY Zenon DEF CommandNext, CommandStep, commandVars, Asked, Refused, CallEnds, CheckExpires, Connects,
       ConnectFails, BacksOff, OpensSession, RemoteDone, RemoteEnded, ConnectionLost, PollsAgain,
       ShellStarts, ShellDone, ShellKilled, ShellReaped, Begins, ExitArrives, LinkChanges, Exits,
       ShellExits, NotConnected, Result, CallReplies
  <2>4. checkCtx' = checkCtx \/ checkCtx' = "live" \/ checkCtx' = "expired"
        \/ \E how \in {"expired", "canceled"} : checkCtx' = IF checkCtx = "live" THEN how ELSE checkCtx
    BY Zenon DEF CommandNext, CommandStep, commandVars, Asked, Refused, CallEnds, CheckExpires, Connects,
       ConnectFails, BacksOff, OpensSession, RemoteDone, RemoteEnded, ConnectionLost, PollsAgain,
       ShellStarts, ShellDone, ShellKilled, ShellReaped, Begins, ExitArrives, LinkChanges, Exits,
       ShellExits, NotConnected, Result, CallReplies
  <2>5. connection' = connection \/ connection' = "none" \/ connection' = "up"
        \/ connection' \in {"silent", "down"} \/ connection' \in {"up", "down"}
    BY Zenon DEF CommandNext, CommandStep, commandVars, Asked, Refused, CallEnds, CheckExpires, Connects,
       ConnectFails, BacksOff, OpensSession, RemoteDone, RemoteEnded, ConnectionLost, PollsAgain,
       ShellStarts, ShellDone, ShellKilled, ShellReaped, Begins, ExitArrives, LinkChanges, Exits,
       ShellExits, NotConnected, Result, CallReplies
  <2> QED
    BY <2>1, <2>2, <2>3, <2>4, <2>5, Zenon
<1> QED
  BY <1>1 DEF CommandPlaces

LEMMA CommandTypesKept ==
    ASSUME CommandInv, CommandLimits, [CommandNext]_commandVars
    PROVE  CommandLimits'
<1>1. toolCall \in CallRecords /\ CallCounts /\ CommandPlaces
  BY CommandInvFields DEF CommandLimits
<1> QED
  BY <1>1, CallSteps, CallCountsKept, CommandPlacesKept DEF CommandLimits

LEMMA CommandTyped == CommandInv /\ CommandLimits => CommandTypeOK
<1> SUFFICES ASSUME CommandInv, CommandLimits PROVE CommandTypeOK
  OBVIOUS
<1>1. toolCall \in CallRecords /\ process \in ProcessRecords /\ CallCounts /\ CommandPlaces
  BY CommandInvFields DEF CommandLimits
<1>2. /\ toolCall.at \in {"idle", "dial", "backoff", "session", "run", "interval", "start", "reap"}
      /\ toolCall.reply \in {"none", "ok", "failure", "timeout", "canceled"}
  BY <1>1 DEF CallRecords
<1>3. /\ process.at \in {"none", "sending", "running", "exited"} /\ process.code \in -1..1
      /\ process.job \in {"none", "piped", "quiet", "escaped"}
  BY <1>1 DEF ProcessRecords
<1> QED
  BY <1>1, <1>2, <1>3, Zenon DEF CommandTypeOK, CallCounts, CommandPlaces

\* How often a call has gone out, and was run, by where it is.
CallBounds(r, n) ==
    /\ r.tried \in 0..Attempts /\ n \in 0..Attempts
    /\ r.at \in Unsents \/ (r.at = "disconnect" /\ r.again) => r.tried < Attempts
    /\ r.at # "done" => n <= r.tried
    /\ r.at = "flight" /\ ~r.ran => n < r.tried

\* A lock is taken by somebody who works under it.
HoldersFit ==
    \A g \in DOMAIN connectMu : connectMu[g] # Free =>
        user[connectMu[g]].state = g /\ user[connectMu[g]].at \in InLock

UsersFit ==
    /\ \A u \in Users : user[u].found <= offered
    /\ \A c \in ToolCalls : CallBounds(user[c], executed[c])

LinkLimits ==
    /\ Newest <= MaxSettings /\ toClose \subseteq States /\ notices \subseteq States
    /\ alive \subseteq 1..sessions
    /\ \A g \in States : server[g].session <= sessions /\ server[g].tool <= offered

McpLimits == HoldersFit /\ UsersFit /\ LinkLimits

LEMMA McpTypesStart == McpInit => McpLimits
<1> SUFFICES ASSUME McpInit PROVE McpLimits
  OBVIOUS
<1>1. /\ server = <<NoSession>> /\ connectMu = <<Free>> /\ toClose = {} /\ sessions = 0
      /\ alive = {} /\ offered = 1 /\ notices = {}
      /\ user = [u \in Users |-> Asleep] /\ executed = [c \in ToolCalls |-> 0]
  BY DEF McpInit
<1>2. NoSession.session = 0 /\ NoSession.tool = 0
  BY DEF NoSession
<1>3. Asleep.at = "rest" /\ Asleep.tried = 0 /\ Asleep.found = 0
  BY DEF Asleep
<1>4. HoldersFit
  <2>1. \A g \in DOMAIN connectMu : connectMu[g] = Free
    BY <1>1
  <2> QED
    BY <2>1, Zenon DEF HoldersFit
<1>5. UsersFit
  <2>1. ASSUME NEW c \in ToolCalls PROVE CallBounds(user[c], executed[c])
    <3>1. user[c] = Asleep /\ executed[c] = 0
      BY <1>1 DEF Users
    <3> QED
      BY <1>3, <3>1 DEF CallBounds, Attempts
  <2> QED
    BY <1>1, <1>3, <2>1 DEF UsersFit
<1>6. LinkLimits
  <2>1. Len(server) = 1 /\ server[1] = NoSession /\ MaxSettings \in Nat \ {0}
    BY <1>1, McpAssumption
  <2> QED
    BY <1>1, <1>2, <2>1 DEF LinkLimits, States, Newest
<1> QED
  BY <1>4, <1>5, <1>6 DEF McpLimits

-----------------------------------------------------------------------------
\* The lock, as the user moves to r.
LockGoes(u, r) ==
    \/ connectMu' = connectMu /\ user[u].at \notin InLock
    \/ connectMu' = connectMu /\ r.at \in InLock /\ r.state = user[u].state
    \/ Unlocks(u) /\ user[u].at \in InLock
    \/ /\ connectMu' = [connectMu EXCEPT ![r.state] = u] /\ r.at \in InLock
       /\ user[u].at \notin InLock

LEMMA HoldersKeep ==
    ASSUME McpInv, HoldersFit, NEW u, NEW r, Becomes(u, r), LockGoes(u, r)
    PROVE  HoldersFit'
<1>1. /\ connectMu \in Seq(Users \cup {Free}) /\ user \in [Users -> UserRecords]
      /\ u \in Users
  BY McpInvFields DEF Becomes
<1>2. /\ user'[u] = r /\ \A v \in Users : v # u => user'[v] = user[v]
  BY <1>1 DEF Becomes
<1>3. PICK d : d = DOMAIN connectMu
  OBVIOUS
<1>4. \A g \in d : connectMu[g] \in Users \cup {Free}
  BY <1>1, <1>3
<1>5. \A g \in d : connectMu[g] # Free =>
        /\ connectMu[g] \in Users /\ user[connectMu[g]].state = g
        /\ user[connectMu[g]].at \in InLock
  BY <1>3, <1>4 DEF HoldersFit
<1>6. CASE connectMu' = connectMu /\ user[u].at \notin InLock
  <2>1. \A g \in d : connectMu[g] # Free => connectMu[g] # u
    BY <1>5, <1>6
  <2> QED
    BY <1>2, <1>3, <1>5, <1>6, <2>1 DEF HoldersFit
<1>7. CASE connectMu' = connectMu /\ r.at \in InLock /\ r.state = user[u].state
  BY <1>2, <1>3, <1>5, <1>7 DEF HoldersFit
<1>8. CASE Unlocks(u) /\ user[u].at \in InLock
  <2>1. connectMu' = [connectMu EXCEPT ![user[u].state] = Free]
    BY <1>8 DEF Unlocks
  <2>2. DOMAIN connectMu' = d /\ \A g \in d : connectMu'[g] = IF g = user[u].state THEN Free ELSE connectMu[g]
    BY <1>1, <1>3, <2>1
  <2>3. \A g \in d : connectMu'[g] # Free => connectMu'[g] = connectMu[g] /\ connectMu[g] # u
    BY <1>5, <2>2
  <2> QED
    BY <1>2, <1>5, <2>2, <2>3 DEF HoldersFit
<1>9. CASE /\ connectMu' = [connectMu EXCEPT ![r.state] = u] /\ r.at \in InLock
           /\ user[u].at \notin InLock
  <2>1. DOMAIN connectMu' = d /\ \A g \in d : connectMu'[g] = IF g = r.state THEN u ELSE connectMu[g]
    BY <1>1, <1>3, <1>9
  <2>2. \A g \in d : connectMu[g] # Free => connectMu[g] # u
    BY <1>5, <1>9
  <2> QED
    BY <1>2, <1>5, <1>9, <2>1, <2>2 DEF HoldersFit
<1> QED
  BY <1>6, <1>7, <1>8, <1>9 DEF LockGoes

\* One user moves.
LEMMA OneMovesKeeps ==
    ASSUME McpInv, HoldersFit, UsersFit, NEW u, NEW r, Becomes(u, r), LockGoes(u, r),
           executed' = executed, offered' = offered, r.found <= offered,
           u \in ToolCalls => CallBounds(r, executed[u])
    PROVE  HoldersFit' /\ UsersFit'
<1>1. user \in [Users -> UserRecords] /\ u \in Users
  BY McpInvFields DEF Becomes
<1>2. user'[u] = r /\ \A v \in Users : v # u => user'[v] = user[v]
  BY <1>1 DEF Becomes
<1>3. HoldersFit'
  BY HoldersKeep
<1>4. \A v \in Users : user'[v].found <= offered'
  BY <1>2 DEF UsersFit
<1>5. ASSUME NEW c \in ToolCalls PROVE CallBounds(user[c], executed[c])'
  <2>1. c \in Users /\ CallBounds(user[c], executed[c])
    BY DEF Users, UsersFit
  <2>2. CallBounds(user'[c], executed[c])
    BY <1>2, <2>1
  <2> QED
    BY <2>2 DEF CallBounds
<1> QED
  BY <1>3, <1>4, <1>5 DEF UsersFit

\* A call is over: it may have been run as often as it went out.
LEMMA OverKeeps ==
    ASSUME McpInv, HoldersFit, UsersFit, NEW u \in Users, NEW how \in Reports, Returns(u, how),
           executed' = executed, offered' = offered,
           \/ connectMu' = connectMu /\ user[u].at \notin InLock
           \/ Unlocks(u) /\ user[u].at \in InLock
    PROVE  HoldersFit' /\ UsersFit'
<1>1. PICK r : r = [Asleep EXCEPT !.at = "done", !.result = how, !.want = user[u].want]
  OBVIOUS
<1>2. user[u] \in UserRecords /\ offered \in Nat
  BY McpInvFields
<1>3. /\ r \in UserRecords /\ r.at = "done" /\ r.tried = 0 /\ r.found = 0
  BY <1>1, <1>2 DEF Asleep, UserRecords, Reports, Unsents
<1>4. Becomes(u, r)
  BY <1>1, <1>3 DEF Returns, Becomes
<1>5. LockGoes(u, r)
  BY DEF LockGoes
<1>6. u \in ToolCalls => CallBounds(r, executed[u])
  <2>1. u \in ToolCalls => executed[u] \in 0..Attempts
    BY DEF UsersFit, CallBounds
  <2> QED
    BY <1>3, <2>1 DEF CallBounds, Attempts, Unsents, InLock
<1> QED
  BY <1>2, <1>3, <1>4, <1>5, <1>6, OneMovesKeeps

LEMMA NotSentKeeps ==
    ASSUME McpInv, HoldersFit, UsersFit, NEW u \in Users, Unsent(u),
           executed' = executed, offered' = offered,
           \/ connectMu' = connectMu /\ user[u].at \notin InLock
           \/ Unlocks(u) /\ user[u].at \in InLock
    PROVE  HoldersFit' /\ UsersFit'
<1>1. PICK how \in Reports : Returns(u, how)
  <2>1. "none" \in Reports /\ "not dispatched" \in Reports /\ "unknown" \in Reports
    BY DEF Reports
  <2> QED
    BY <2>1 DEF Unsent
<1> QED
  BY <1>1, OverKeeps

\* A step of a call that neither goes out nor comes back.
LEMMA OnItsWayKeeps ==
    ASSUME McpInv, HoldersFit, UsersFit, NEW u \in Users, NEW r \in UserRecords,
           user' = [user EXCEPT ![u] = r], LockGoes(u, r),
           executed' = executed, offered' = offered,
           r.tried = user[u].tried, r.found \in {user[u].found, offered},
           u \in ToolCalls => user[u].at \in Unsents /\ r.at \in Unsents
    PROVE  HoldersFit' /\ UsersFit'
<1>1. Becomes(u, r)
  BY DEF Becomes
<1>2. r.found <= offered
  <2>1. user[u].found <= offered /\ offered \in Nat
    BY McpInvFields DEF UsersFit
  <2> QED
    BY <2>1
<1>3. ASSUME u \in ToolCalls PROVE CallBounds(r, executed[u])
  <2>1. CallBounds(user[u], executed[u]) /\ user[u].at \in Unsents /\ r.at \in Unsents
    BY <1>3 DEF UsersFit
  <2> QED
    BY <2>1 DEF CallBounds, Unsents, InLock
<1> QED
  BY <1>1, <1>2, <1>3, OneMovesKeeps

LEMMA MovesOnKeeps ==
    ASSUME McpInv, HoldersFit, UsersFit, NEW u \in Users, NEW at \in Unsents, Moves(u, at),
           executed' = executed, offered' = offered,
           u \in ToolCalls => user[u].at \in Unsents,
           \/ connectMu' = connectMu /\ user[u].at \notin InLock
           \/ connectMu' = connectMu /\ at \in InLock
           \/ Unlocks(u) /\ user[u].at \in InLock
           \/ /\ connectMu' = [connectMu EXCEPT ![user[u].state] = u] /\ at \in InLock
              /\ user[u].at \notin InLock
    PROVE  HoldersFit' /\ UsersFit'
<1>1. user[u] \in UserRecords
  BY McpInvFields
<1>2. PICK r : r = [user[u] EXCEPT !.at = at]
  OBVIOUS
<1>3. /\ r \in UserRecords /\ r.at = at /\ r.state = user[u].state /\ r.tried = user[u].tried
      /\ r.found = user[u].found
  BY <1>1, <1>2 DEF UserRecords
<1>4. user' = [user EXCEPT ![u] = r]
  BY <1>2 DEF Moves
<1>5. LockGoes(u, r)
  BY <1>3 DEF LockGoes
<1> QED
  BY <1>3, <1>4, <1>5, OnItsWayKeeps

-----------------------------------------------------------------------------
\* A user under the lock, or on its way to it.
LEMMA ConnectUsers ==
    ASSUME McpInv, HoldersFit, UsersFit, NEW u \in Users, ConnectStep(u)
    PROVE  HoldersFit' /\ UsersFit'
<1>1. executed' = executed /\ offered' = offered
  BY DEF ConnectStep, Lock, Check, Join, ListTools, InstallTools
<1>2. user[u] \in UserRecords /\ offered \in Nat
  BY McpInvFields
<1>3. {"take"} \cup InLock \subseteq Unsents /\ "lock" \in Unsents \ InLock
  BY DEF Unsents, InLock
<1>4. ASSUME Unlocks(u), Ready(u), user[u].at \in InLock PROVE HoldersFit' /\ UsersFit'
  <2>1. CASE u = Catalog
    <3>1. Returns(u, "none") /\ "none" \in Reports
      BY <1>4, <2>1 DEF Ready, Reports
    <3> QED
      BY <1>1, <1>4, <3>1, OverKeeps
  <2>2. CASE u # Catalog
    <3>1. Moves(u, "take")
      BY <1>4, <2>2 DEF Ready
    <3> QED
      BY <1>1, <1>3, <1>4, <3>1, MovesOnKeeps
  <2> QED
    BY <2>1, <2>2
<1>5. CASE Lock(u)
  <2>1. user[u].at = "lock" /\ Moves(u, "check")
        /\ connectMu' = [connectMu EXCEPT ![user[u].state] = u]
    BY <1>5 DEF Lock
  <2>2. "check" \in InLock
    BY DEF InLock
  <2> QED
    BY <1>1, <1>3, <2>1, <2>2, MovesOnKeeps
<1>6. ASSUME NEW at \in {"list", "connect"}, Moves(u, at), connectMu' = connectMu,
             user[u].at \in InLock
      PROVE  HoldersFit' /\ UsersFit'
  <2>1. at \in InLock
    BY DEF InLock
  <2> QED
    BY <1>1, <1>3, <1>6, <2>1, MovesOnKeeps
<1>7. ASSUME Unlocks(u), Unsent(u), user[u].at \in InLock PROVE HoldersFit' /\ UsersFit'
  BY <1>1, <1>7, NotSentKeeps
<1>8. CASE Check(u)
  <2>1. user[u].at \in InLock
    BY <1>8 DEF Check, InLock
  <2>2. \/ Unlocks(u) /\ Unsent(u)
        \/ Unlocks(u) /\ Ready(u)
        \/ \E at \in {"list", "connect"} : Moves(u, at) /\ connectMu' = connectMu
    BY <1>8 DEF Check, Consider
  <2> QED
    BY <1>4, <1>6, <1>7, <2>1, <2>2
<1>9. CASE Join(u)
  <2>1. user[u].at \in InLock
    BY <1>9 DEF Join, InLock
  <2>2. \/ Unlocks(u) /\ Unsent(u)
        \/ Moves(u, "list") /\ connectMu' = connectMu
    BY <1>9 DEF Join
  <2> QED
    BY <1>6, <1>7, <2>1, <2>2
<1>10. CASE ListTools(u)
  <2>1. user[u].at \in InLock
    BY <1>10 DEF ListTools, InLock
  <2>2. \/ Unlocks(u) /\ Unsent(u)
        \/ user' = [user EXCEPT ![u].at = "install", ![u].found = offered] /\ connectMu' = connectMu
    BY <1>10 DEF ListTools
  <2>3. CASE user' = [user EXCEPT ![u].at = "install", ![u].found = offered] /\ connectMu' = connectMu
    <3>1. PICK r : r = [user[u] EXCEPT !.at = "install", !.found = offered]
      OBVIOUS
    <3>2. "install" \in InLock /\ "install" \in Unsents
      BY DEF Unsents, InLock
    <3>3. /\ r \in UserRecords /\ r.at = "install" /\ r.state = user[u].state
          /\ r.tried = user[u].tried /\ r.found = offered
      BY <1>2, <3>1, <3>2 DEF UserRecords
    <3>4. user' = [user EXCEPT ![u] = r]
      BY <2>3, <3>1
    <3>5. LockGoes(u, r)
      BY <2>3, <3>2, <3>3 DEF LockGoes
    <3> QED
      BY <1>1, <1>3, <2>1, <3>2, <3>3, <3>4, <3>5, OnItsWayKeeps
  <2> QED
    BY <1>7, <2>1, <2>2, <2>3
<1>11. CASE InstallTools(u)
  <2>1. user[u].at \in InLock /\ Unlocks(u) /\ Ready(u)
    BY <1>11 DEF InstallTools, InLock
  <2> QED
    BY <1>4, <2>1
<1> QED
  BY <1>5, <1>8, <1>9, <1>10, <1>11 DEF ConnectStep

\* A call begins, and what the catalog asks for.
LEMMA BeginUsers ==
    ASSUME McpInv, HoldersFit, UsersFit,
           \/ \E c \in ToolCalls : Route(c) \/ Take(c)
           \/ \E refresh \in BOOLEAN : Consult(refresh)
           \/ CloseFirst
    PROVE  HoldersFit' /\ UsersFit'
<1>1. executed' = executed /\ offered' = offered /\ connectMu' = connectMu
  BY DEF Route, Take, Consult, CloseFirst, link
<1>2. /\ server \in Seq(ServerRecords) /\ Newest \in States /\ Newest \in Nat
      /\ server[Newest] \in ServerRecords
  BY McpInvFields DEF Newest, States
<1>3. /\ "rest" \in Unsents \ InLock /\ "lock" \in Unsents \ InLock
      /\ "take" \in Unsents \ InLock /\ "send" \in Unsents \ InLock /\ "close" \notin InLock
  BY DEF Unsents, InLock
<1>4. /\ \A c \in ToolCalls : c \in Users
      /\ Catalog \in Users /\ Catalog \notin ToolCalls
  BY McpAssumption DEF Users
<1>5. ASSUME NEW c \in ToolCalls, Unsent(c), user[c].at \notin InLock
      PROVE  HoldersFit' /\ UsersFit'
  BY <1>1, <1>4, <1>5, NotSentKeeps, SMTT(30)
<1>6. ASSUME NEW c \in ToolCalls, Route(c) PROVE HoldersFit' /\ UsersFit'
  <2>1. user[c].at = "rest" /\ c \in Users /\ user[c] \in UserRecords
    BY <1>4, <1>6, McpInvFields DEF Route
  <2>2. CASE user' = [user EXCEPT ![c].at = "lock", ![c].state = Newest,
                                  ![c].want = server[Newest].tool]
    <3>1. PICK n \in Nat : n = server[Newest].tool
      BY <1>2 DEF ServerRecords
    <3>2. PICK r : r = [user[c] EXCEPT !.at = "lock", !.state = Newest, !.want = n]
      OBVIOUS
    <3>3. /\ r \in UserRecords /\ r.at = "lock" /\ r.tried = user[c].tried
          /\ r.found = user[c].found
      BY <1>2, <1>3, <2>1, <3>2 DEF UserRecords
    <3>4. user' = [user EXCEPT ![c] = r]
      BY <2>2, <3>1, <3>2
    <3>5. LockGoes(c, r)
      BY <1>1, <1>3, <2>1 DEF LockGoes
    <3> QED
      BY <1>1, <1>3, <2>1, <3>3, <3>4, <3>5, OnItsWayKeeps
  <2> QED
    BY <1>3, <1>5, <1>6, <2>1, <2>2 DEF Route
<1>7. ASSUME NEW c \in ToolCalls, Take(c) PROVE HoldersFit' /\ UsersFit'
  <2>1. /\ user[c].at = "take" /\ c \in Users /\ user[c] \in UserRecords
        /\ user[c].state \in States
    BY <1>4, <1>7, McpInvFields DEF Take
  <2>2. CASE user' = [user EXCEPT ![c].at = "send", ![c].session = server[user[c].state].session]
    <3>1. PICK n \in Nat : n = server[user[c].state].session
      <4>1. server[user[c].state] \in ServerRecords
        BY <1>2, <2>1 DEF States
      <4> QED
        BY <4>1 DEF ServerRecords
    <3>2. PICK r : r = [user[c] EXCEPT !.at = "send", !.session = n]
      OBVIOUS
    <3>3. /\ r \in UserRecords /\ r.at = "send" /\ r.tried = user[c].tried
          /\ r.found = user[c].found
      BY <1>3, <2>1, <3>2 DEF UserRecords
    <3>4. user' = [user EXCEPT ![c] = r]
      BY <2>2, <3>1, <3>2
    <3>5. LockGoes(c, r)
      BY <1>1, <1>3, <2>1 DEF LockGoes
    <3> QED
      BY <1>1, <1>3, <2>1, <3>3, <3>4, <3>5, OnItsWayKeeps
  <2> QED
    BY <1>3, <1>5, <1>7, <2>1, <2>2 DEF Take
<1>8. ASSUME NEW refresh \in BOOLEAN, Consult(refresh) PROVE HoldersFit' /\ UsersFit'
  <2>1. user[Catalog].at = "rest" /\ user[Catalog] \in UserRecords
    BY <1>4, <1>8, McpInvFields DEF Consult
  <2>2. PICK at \in {"close", "lock"} : at = IF refresh THEN "close" ELSE "lock"
    OBVIOUS
  <2>3. PICK r : r = [user[Catalog] EXCEPT !.at = at, !.state = Newest, !.force = refresh]
    OBVIOUS
  <2>4. at \in Unsents \cup {"close", "flight", "disconnect", "done"}
    BY <1>3
  <2>5. r \in UserRecords /\ r.tried = user[Catalog].tried /\ r.found = user[Catalog].found
    BY <1>2, <1>8, <2>1, <2>3, <2>4 DEF UserRecords
  <2>6. user' = [user EXCEPT ![Catalog] = r]
    <3>1. user' = [user EXCEPT ![Catalog].at = at, ![Catalog].state = Newest,
                               ![Catalog].force = refresh]
      BY <1>8, <2>2 DEF Consult
    <3> QED
      BY <2>3, <3>1
  <2>7. LockGoes(Catalog, r)
    BY <1>1, <1>3, <2>1 DEF LockGoes
  <2> QED
    BY <1>1, <1>4, <2>5, <2>6, <2>7, OnItsWayKeeps
<1>9. CASE CloseFirst
  <2>1. user[Catalog].at = "close" /\ Moves(Catalog, "lock")
    BY <1>9 DEF CloseFirst
  <2> QED
    BY <1>1, <1>3, <1>4, <2>1, MovesOnKeeps
<1> QED
  BY <1>6, <1>7, <1>8, <1>9, SMTT(30)

\* The call goes out, comes back, and may go out again.
LEMMA CallUsers ==
    ASSUME McpInv, HoldersFit, UsersFit, NEW c \in ToolCalls,
           \/ SendCall(c) \/ ServerAnswers(c) \/ ServerReports(c) \/ Cancels(c) \/ Inactive(c)
           \/ Exceeded(c) \/ Disconnects(c) \/ \E rejected \in BOOLEAN : Errs(c, rejected)
    PROVE  HoldersFit' /\ UsersFit'
<1>1. executed' = executed /\ offered' = offered /\ connectMu' = connectMu
  BY DEF SendCall, ServerAnswers, ServerReports, Cancels, Inactive, Exceeded, Disconnects, Errs, link
<1>2. /\ c \in Users /\ user[c] \in UserRecords /\ offered \in Nat /\ executed[c] \in Nat
      /\ user[c].found <= offered /\ CallBounds(user[c], executed[c])
  BY McpInvFields DEF Users, UsersFit
<1>3. user[c].at \in {"send", "flight", "disconnect"} /\ user[c].at \notin InLock
  BY DEF SendCall, ServerAnswers, ServerReports, Cancels, Inactive, Exceeded, Disconnects, Errs, InLock
<1>4. ASSUME NEW r \in UserRecords, user' = [user EXCEPT ![c] = r], r.found = user[c].found,
             CallBounds(r, executed[c])
      PROVE  HoldersFit' /\ UsersFit'
  <2>1. Becomes(c, r) /\ LockGoes(c, r)
    BY <1>1, <1>2, <1>3, <1>4 DEF Becomes, LockGoes
  <2> QED
    BY <1>1, <1>2, <1>4, <2>1, OneMovesKeeps
<1>5. ASSUME NEW how \in Reports, Returns(c, how) PROVE HoldersFit' /\ UsersFit'
  BY <1>1, <1>2, <1>3, <1>5, OverKeeps
<1>6. "ok" \in Reports /\ "unknown" \in Reports
  BY DEF Reports
<1>7. CASE SendCall(c)
  <2>1. CASE Unsent(c)
    BY <1>1, <1>2, <1>3, <2>1, NotSentKeeps
  <2>2. CASE user' = [user EXCEPT ![c].at = "flight", ![c].tried = @ + 1,
                                  ![c].ran = FALSE, ![c].fresh = FALSE]
    <3>1. user[c].tried \in Nat
      BY <1>2 DEF UserRecords
    <3>2. PICK n \in Nat : n = user[c].tried + 1
      BY <3>1
    <3>3. PICK r : r = [user[c] EXCEPT !.at = "flight", !.tried = n, !.ran = FALSE, !.fresh = FALSE]
      OBVIOUS
    <3>4. r \in UserRecords /\ r.at = "flight" /\ r.tried = n /\ r.found = user[c].found
      BY <1>2, <3>3 DEF UserRecords
    <3>5. user' = [user EXCEPT ![c] = r]
      BY <2>2, <3>2, <3>3
    <3>6. user[c].tried < Attempts /\ executed[c] <= user[c].tried
      <4>1. user[c].at = "send"
        BY <1>7 DEF SendCall
      <4> QED
        BY <1>2, <4>1 DEF CallBounds, Unsents
    <3>7. n \in 0..Attempts /\ executed[c] < n /\ executed[c] \in 0..Attempts
      BY <1>2, <3>1, <3>2, <3>6 DEF Attempts
    <3>8. CallBounds(r, executed[c])
      BY <1>2, <3>4, <3>7 DEF CallBounds, Unsents, InLock
    <3> QED
      BY <1>4, <3>4, <3>5, <3>8
  <2> QED
    BY <1>7, <2>1, <2>2 DEF SendCall
<1>8. CASE ServerAnswers(c) \/ Cancels(c)
  BY <1>5, <1>6, <1>8 DEF ServerAnswers, Cancels
<1>9. ASSUME NEW fresh \in BOOLEAN, user' = [user EXCEPT ![c].fresh = fresh], user[c].at = "flight"
      PROVE  HoldersFit' /\ UsersFit'
  <2>1. PICK r : r = [user[c] EXCEPT !.fresh = fresh]
    OBVIOUS
  <2>2. /\ r \in UserRecords /\ r.at = "flight" /\ r.found = user[c].found
        /\ r.tried = user[c].tried /\ r.ran = user[c].ran
    BY <1>2, <1>9, <2>1 DEF UserRecords
  <2>3. user' = [user EXCEPT ![c] = r]
    BY <1>9, <2>1
  <2>4. CallBounds(r, executed[c])
    BY <1>2, <1>9, <2>2 DEF CallBounds, Unsents, InLock
  <2> QED
    BY <1>4, <2>2, <2>3, <2>4
<1>10. ASSUME NEW again \in BOOLEAN, user[c].at = "flight",
              user' = [user EXCEPT ![c].at = "disconnect", ![c].again = again],
              again => user[c].tried < Attempts
       PROVE  HoldersFit' /\ UsersFit'
  <2>1. PICK r : r = [user[c] EXCEPT !.at = "disconnect", !.again = again]
    OBVIOUS
  <2>2. /\ r \in UserRecords /\ r.at = "disconnect" /\ r.found = user[c].found
        /\ r.tried = user[c].tried /\ r.again = again
    BY <1>2, <2>1 DEF UserRecords
  <2>3. user' = [user EXCEPT ![c] = r]
    BY <1>10, <2>1
  <2>4. CallBounds(r, executed[c])
    BY <1>2, <1>10, <2>2 DEF CallBounds, Unsents, InLock
  <2> QED
    BY <1>4, <2>2, <2>3, <2>4
<1>11. CASE ServerReports(c) \/ Inactive(c) \/ Exceeded(c)
  BY <1>9, <1>10, <1>11 DEF ServerReports, Inactive, Exceeded
<1>12. ASSUME NEW rejected \in BOOLEAN, Errs(c, rejected) PROVE HoldersFit' /\ UsersFit'
  <2>1. PICK again \in BOOLEAN : again = Retries(c, rejected)
    BY DEF Retries
  <2>2. again => user[c].tried < Attempts
    BY <2>1 DEF Retries
  <2>3. user' = [user EXCEPT ![c].at = "disconnect", ![c].again = again] /\ user[c].at = "flight"
    BY <1>12, <2>1 DEF Errs
  <2> QED
    BY <1>10, <2>2, <2>3
<1>13. CASE Disconnects(c)
  <2>1. CASE user[c].again
    <3>1. PICK r : r = [user[c] EXCEPT !.at = "lock", !.force = TRUE]
      OBVIOUS
    <3>2. "lock" \in Unsents
      BY DEF Unsents
    <3>3. /\ r \in UserRecords /\ r.at = "lock" /\ r.found = user[c].found
          /\ r.tried = user[c].tried
      BY <1>2, <3>1, <3>2 DEF UserRecords
    <3>4. user' = [user EXCEPT ![c] = r] /\ user[c].at = "disconnect"
      BY <1>13, <2>1, <3>1 DEF Disconnects
    <3>5. CallBounds(r, executed[c])
      BY <1>2, <2>1, <3>3, <3>4 DEF CallBounds
    <3> QED
      BY <1>4, <3>3, <3>4, <3>5
  <2>2. CASE ~user[c].again
    <3>1. Returns(c, "unknown")
      BY <1>13, <2>2 DEF Disconnects
    <3> QED
      BY <1>5, <1>6, <3>1
  <2> QED
    BY <2>1, <2>2
<1> QED
  BY <1>7, <1>8, <1>11, <1>12, <1>13

\* The server runs a call.
LEMMA RunUsers ==
    ASSUME McpInv, HoldersFit, UsersFit, NEW c \in ToolCalls, ServerRuns(c)
    PROVE  HoldersFit' /\ UsersFit'
<1>1. /\ user \in [Users -> UserRecords] /\ executed \in [ToolCalls -> Nat]
      /\ c \in Users /\ user[c] \in UserRecords /\ CallBounds(user[c], executed[c])
  BY McpInvFields DEF Users, UsersFit
<1>2. /\ user[c].at = "flight" /\ ~user[c].ran
      /\ user' = [user EXCEPT ![c].ran = TRUE] /\ executed' = [executed EXCEPT ![c] = @ + 1]
      /\ UNCHANGED <<connectMu, offered>>
  BY DEF ServerRuns, link
<1>3. PICK r : r = [user[c] EXCEPT !.ran = TRUE]
  OBVIOUS
<1>4. /\ r \in UserRecords /\ r.at = "flight" /\ r.ran = TRUE /\ r.tried = user[c].tried
      /\ r.found = user[c].found
  BY <1>1, <1>2, <1>3 DEF UserRecords
<1>5. user' = [user EXCEPT ![c] = r] /\ Becomes(c, r)
  BY <1>1, <1>2, <1>3, <1>4 DEF Becomes
<1>6. user'[c] = r /\ \A v \in Users : v # c => user'[v] = user[v]
  BY <1>1, <1>5
<1>7. PICK n \in Nat : n = executed[c] + 1
  BY <1>1
<1>8. executed'[c] = n /\ \A d \in ToolCalls : d # c => executed'[d] = executed[d]
  BY <1>1, <1>2, <1>7
<1>9. CallBounds(r, n)
  <2>1. executed[c] < user[c].tried /\ user[c].tried \in 0..Attempts
    BY <1>1, <1>2 DEF CallBounds
  <2>2. n \in 0..Attempts /\ n <= r.tried /\ r.tried \in 0..Attempts
    BY <1>1, <1>4, <1>7, <2>1 DEF Attempts
  <2> QED
    BY <1>4, <2>2 DEF CallBounds, Unsents, InLock
<1>10. HoldersFit'
  <2>1. user[c].at \notin InLock
    BY <1>2 DEF InLock
  <2>2. LockGoes(c, r)
    BY <1>2, <2>1 DEF LockGoes
  <2> QED
    BY <1>5, <2>2, HoldersKeep
<1>11. ASSUME NEW d \in ToolCalls PROVE CallBounds(user[d], executed[d])'
  <2>1. d \in Users /\ CallBounds(user[d], executed[d])
    BY DEF Users, UsersFit
  <2>2. CallBounds(user'[d], executed'[d])
    BY <1>6, <1>8, <1>9, <2>1
  <2> QED
    BY <2>2 DEF CallBounds
<1>12. \A v \in Users : user'[v].found <= offered'
  BY <1>2, <1>4, <1>6 DEF UsersFit
<1> QED
  BY <1>10, <1>11, <1>12 DEF UsersFit

\* What happens beside the users.
LEMMA BesideUsers ==
    ASSUME McpInv, HoldersFit, UsersFit,
           \/ \E s \in 1..MaxSessions : SessionDies(s)
           \/ \E g \in States : NoticeEnd(g) \/ ToolListChanged(g) \/ CloseReplaced(g)
           \/ ToolChanges \/ ReplaceSettings \/ UNCHANGED mcpVars
    PROVE  HoldersFit' /\ UsersFit'
<1>1. UNCHANGED <<user, executed>> /\ (offered' = offered \/ offered' = offered + 1)
  BY DEF SessionDies, NoticeEnd, ToolListChanged, CloseReplaced, ToolChanges, ReplaceSettings, mcpVars
<1>2. connectMu' = connectMu \/ connectMu' = Append(connectMu, Free)
  BY DEF SessionDies, NoticeEnd, ToolListChanged, CloseReplaced, ToolChanges, ReplaceSettings, mcpVars
<1>3. /\ connectMu \in Seq(Users \cup {Free}) /\ offered \in Nat
      /\ user \in [Users -> UserRecords]
  BY McpInvFields
<1>4. HoldersFit'
  <2>1. CASE connectMu' = connectMu
    BY <1>1, <2>1 DEF HoldersFit
  <2>2. CASE connectMu' = Append(connectMu, Free)
    <3>1. ASSUME NEW g \in DOMAIN connectMu', connectMu'[g] # Free
          PROVE  g \in DOMAIN connectMu /\ connectMu'[g] = connectMu[g]
      BY <1>3, <2>2, <3>1
    <3> QED
      BY <1>1, <3>1 DEF HoldersFit
  <2> QED
    BY <1>2, <2>1, <2>2
<1>5. \A u \in Users : user'[u].found <= offered'
  <2>1. ASSUME NEW u \in Users PROVE user[u].found \in Nat /\ user[u].found <= offered
    <3>1. user[u] \in UserRecords
      BY <1>3
    <3> QED
      BY <3>1 DEF UsersFit, UserRecords
  <2> QED
    BY <1>1, <1>3, <2>1
<1>6. \A c \in ToolCalls : CallBounds(user[c], executed[c])'
  BY <1>1 DEF UsersFit, CallBounds
<1> QED
  BY <1>4, <1>5, <1>6 DEF UsersFit

LEMMA UsersKept ==
    ASSUME McpInv, HoldersFit, UsersFit, [McpNext]_mcpVars
    PROVE  HoldersFit' /\ UsersFit'
<1>1. ASSUME NEW u \in Users, ClientStep(u) PROVE HoldersFit' /\ UsersFit'
  <2>1. CASE ConnectStep(u)
    BY <2>1, ConnectUsers
  <2>2. CASE u \in ToolCalls /\ ExecuteStep(u)
    BY <2>2, BeginUsers, CallUsers DEF ExecuteStep
  <2>3. CASE CloseFirst
    BY <2>3, BeginUsers
  <2> QED
    BY <1>1, <2>1, <2>2, <2>3 DEF ClientStep
<1>2. CASE \E refresh \in BOOLEAN : Consult(refresh)
  BY <1>2, BeginUsers
<1>3. ASSUME NEW c \in ToolCalls,
             \/ ServerRuns(c) \/ ServerAnswers(c) \/ ServerReports(c) \/ Cancels(c)
             \/ \E rejected \in BOOLEAN : Errs(c, rejected)
      PROVE  HoldersFit' /\ UsersFit'
  BY <1>3, RunUsers, CallUsers
<1>4. CASE \/ \E s \in 1..MaxSessions : SessionDies(s)
           \/ \E g \in States : NoticeEnd(g) \/ ToolListChanged(g) \/ CloseReplaced(g)
           \/ ToolChanges \/ ReplaceSettings \/ UNCHANGED mcpVars
  BY <1>4, BesideUsers
<1> QED
  BY <1>1, <1>2, <1>3, <1>4 DEF McpNext

-----------------------------------------------------------------------------
\* The connection after a step that changes at most one state.
LEMMA LinkKeeps ==
    ASSUME McpInv, LinkLimits, NEW g \in States, NEW s,
           server' = server \/ server' = [server EXCEPT ![g] = s],
           server' = server \/ (s.session \in 0..sessions' /\ s.tool \in 0..offered'),
           sessions' \in {sessions, sessions + 1}, offered' \in {offered, offered + 1},
           alive' \subseteq alive \cup {sessions'}, alive' \subseteq alive \/ sessions' = sessions + 1,
           toClose' \subseteq toClose, notices' \subseteq notices \cup States
    PROVE  LinkLimits'
<1>1. /\ server \in Seq(ServerRecords) /\ sessions \in Nat /\ offered \in Nat
      /\ Len(server) \in Nat
  BY McpInvFields
<1>2. Len(server') = Len(server) /\ \A h \in States : h # g => server'[h] = server[h]
  BY <1>1 DEF States
<1>3. States' = States /\ Newest' = Newest
  BY <1>2 DEF States, Newest
<1>4. /\ Newest <= MaxSettings /\ toClose \subseteq States /\ notices \subseteq States
      /\ alive \subseteq 1..sessions
      /\ \A h \in States : server[h].session <= sessions /\ server[h].tool <= offered
  BY DEF LinkLimits
<1>5. alive' \subseteq 1..sessions'
  BY <1>1, <1>4
<1>6. ASSUME NEW h \in States PROVE server'[h].session <= sessions' /\ server'[h].tool <= offered'
  <2>1. CASE server'[h] = server[h]
    <3>1. server[h] \in ServerRecords
      BY <1>1 DEF States
    <3>2. server[h].session \in Nat /\ server[h].tool \in Nat
      BY <3>1 DEF ServerRecords
    <3> QED
      BY <1>1, <1>4, <2>1, <3>2
  <2>2. CASE server'[h] # server[h]
    <3>1. server' # server /\ h = g
      BY <1>2, <2>2
    <3>2. server'[h] = s
      BY <1>1, <3>1 DEF States
    <3> QED
      BY <1>1, <3>1, <3>2
  <2> QED
    BY <2>1, <2>2
<1> QED
  BY <1>3, <1>4, <1>5, <1>6 DEF LinkLimits

LEMMA LinkKept ==
    ASSUME McpInv, UsersFit, LinkLimits, [McpNext]_mcpVars
    PROVE  LinkLimits'
<1>1. /\ server \in Seq(ServerRecords) /\ Len(server) >= 1 /\ sessions \in Nat /\ offered \in Nat
      /\ Newest \in States /\ user \in [Users -> UserRecords]
      /\ \A u \in Users : user[u].at \notin {"rest", "done"} => user[u].state \in States
  BY McpInvFields DEF Newest, States
<1>2. \A g \in States : /\ server[g] \in ServerRecords
                        /\ server[g].session \in 0..sessions /\ server[g].tool \in 0..offered
  <2>1. ASSUME NEW g \in States PROVE server[g] \in ServerRecords
    BY <1>1 DEF States
  <2>2. ASSUME NEW g \in States PROVE server[g].session \in Nat /\ server[g].tool \in Nat
    BY <2>1 DEF ServerRecords
  <2> QED
    BY <1>1, <2>1, <2>2 DEF LinkLimits
<1>3. NoSession.session = 0 /\ NoSession.tool = 0
  BY DEF NoSession
<1>4. CASE UNCHANGED <<server, sessions, offered>> /\ alive' \subseteq alive /\ toClose' = toClose
           /\ notices' = notices
  BY <1>1, <1>4, LinkKeeps
<1>5. ASSUME NEW g \in States, NEW s, server' = [server EXCEPT ![g] = s],
             s.session \in 0..sessions, s.tool \in 0..offered,
             UNCHANGED <<sessions, offered>>, alive' \subseteq alive, toClose' \subseteq toClose,
             notices' \subseteq notices
      PROVE  LinkLimits'
  BY <1>5, LinkKeeps
<1>6. ASSUME NEW g \in States, server' = [server EXCEPT ![g] = NoSession],
             UNCHANGED <<sessions, offered>>, alive' \subseteq alive, toClose' \subseteq toClose,
             notices' = notices
      PROVE  LinkLimits'
  <2>1. NoSession.session \in 0..sessions /\ NoSession.tool \in 0..offered
    BY <1>1, <1>3
  <2> QED
    BY <1>5, <1>6, <2>1
<1>7. ASSUME NEW u \in Users, ConnectStep(u) PROVE LinkLimits'
  <2>1. user[u].at \notin {"rest", "done"} /\ user[u] \in UserRecords
    BY <1>1, <1>7 DEF ConnectStep, Lock, Check, Join, ListTools, InstallTools
  <2>2. PICK g \in States : g = user[u].state
    BY <1>1, <2>1
  <2>3. CASE Lock(u)
    BY <1>4, <2>3 DEF Lock
  <2>4. CASE Check(u)
    <3>1. /\ UNCHANGED <<toClose, sessions, alive, offered, notices>>
          /\ server' = server \/ server' = [server EXCEPT ![g] = NoSession]
      BY <2>2, <2>4 DEF Check, Consider
    <3> QED
      BY <1>4, <1>6, <3>1
  <2>5. CASE Join(u)
    <3>1. UNCHANGED <<toClose, offered, notices>>
      BY <2>5 DEF Join
    <3>2. CASE UNCHANGED <<sessions, alive, server>>
      BY <1>4, <3>1, <3>2
    <3>3. CASE /\ sessions' = sessions + 1 /\ alive' = alive \cup {sessions + 1}
               /\ server' = [server EXCEPT ![g].session = sessions + 1]
      <4>1. PICK s : s = [server[g] EXCEPT !.session = sessions + 1]
        OBVIOUS
      <4>2. s.session = sessions + 1 /\ s.tool = server[g].tool
        BY <1>2, <4>1 DEF ServerRecords
      <4>3. server' = [server EXCEPT ![g] = s]
        BY <3>3, <4>1
      <4>4. s.session \in 0..sessions' /\ s.tool \in 0..offered'
        BY <1>1, <1>2, <3>1, <3>3, <4>2
      <4> QED
        BY <3>1, <3>3, <4>3, <4>4, LinkKeeps
    <3> QED
      BY <2>2, <2>5, <3>2, <3>3 DEF Join
  <2>6. CASE ListTools(u)
    <3>1. /\ UNCHANGED <<toClose, sessions, alive, offered, notices>>
          /\ server' = server \/ server' = [server EXCEPT ![g].tool = 0, ![g].dirty = TRUE]
      BY <2>2, <2>6 DEF ListTools
    <3>2. PICK s : s = [server[g] EXCEPT !.tool = 0, !.dirty = TRUE]
      OBVIOUS
    <3>3. s.session = server[g].session /\ s.tool = 0
      BY <1>2, <3>2 DEF ServerRecords
    <3>4. s.session \in 0..sessions /\ s.tool \in 0..offered
      BY <1>1, <1>2, <3>3
    <3>5. server' = server \/ server' = [server EXCEPT ![g] = s]
      BY <3>1, <3>2
    <3> QED
      BY <1>4, <1>5, <3>1, <3>4, <3>5
  <2>7. CASE InstallTools(u)
    <3>1. /\ UNCHANGED <<toClose, sessions, alive, offered, notices>>
          /\ server' = [server EXCEPT ![g].tool = user[u].found, ![g].dirty = FALSE]
      BY <2>2, <2>7 DEF InstallTools
    <3>2. PICK s : s = [server[g] EXCEPT !.tool = user[u].found, !.dirty = FALSE]
      OBVIOUS
    <3>3. s.session = server[g].session /\ s.tool = user[u].found
      BY <1>2, <3>2 DEF ServerRecords
    <3>4. user[u].found \in Nat /\ user[u].found <= offered
      BY <2>1 DEF UserRecords, UsersFit
    <3>5. s.session \in 0..sessions /\ s.tool \in 0..offered
      BY <1>1, <1>2, <3>3, <3>4
    <3>6. server' = [server EXCEPT ![g] = s]
      BY <3>1, <3>2
    <3> QED
      BY <1>5, <3>1, <3>5, <3>6
  <2> QED
    BY <1>7, <2>3, <2>4, <2>5, <2>6, <2>7 DEF ConnectStep
<1>8. ASSUME NEW c \in ToolCalls, Disconnects(c) PROVE LinkLimits'
  <2>1. user[c].at = "disconnect" /\ c \in Users
    BY <1>8 DEF Disconnects, Users
  <2>2. PICK g \in States : g = user[c].state
    BY <1>1, <2>1
  <2>3. /\ UNCHANGED <<toClose, sessions, offered, notices>> /\ alive' \subseteq alive
        /\ server' = [server EXCEPT ![g].session = 0, ![g].dirty = TRUE]
    BY <1>8, <2>2 DEF Disconnects
  <2>4. PICK s : s = [server[g] EXCEPT !.session = 0, !.dirty = TRUE]
    OBVIOUS
  <2>5. s.session = 0 /\ s.tool = server[g].tool
    BY <1>2, <2>4 DEF ServerRecords
  <2>6. s.session \in 0..sessions /\ s.tool \in 0..offered
    BY <1>1, <1>2, <2>5
  <2>7. server' = [server EXCEPT ![g] = s]
    BY <2>3, <2>4
  <2> QED
    BY <1>5, <2>3, <2>6, <2>7
<1>9. CASE CloseFirst
  <2>1. user[Catalog].at = "close" /\ Catalog \in Users
    BY <1>9 DEF CloseFirst, Users
  <2>2. PICK g \in States : g = user[Catalog].state
    BY <1>1, <2>1
  <2>3. /\ UNCHANGED <<toClose, sessions, offered, notices>> /\ alive' \subseteq alive
        /\ server' = [server EXCEPT ![g] = NoSession]
    BY <1>9, <2>2 DEF CloseFirst, Closes
  <2> QED
    BY <1>6, <2>3
<1>10. ASSUME NEW g \in States, NoticeEnd(g) \/ CloseReplaced(g) PROVE LinkLimits'
  <2>1. /\ UNCHANGED <<sessions, offered, notices>> /\ alive' \subseteq alive
        /\ toClose' \subseteq toClose /\ server' = [server EXCEPT ![g] = NoSession]
    BY <1>10 DEF NoticeEnd, CloseReplaced, Closes
  <2> QED
    BY <1>6, <2>1
<1>11. ASSUME NEW g \in States, ToolListChanged(g) PROVE LinkLimits'
  <2>1. /\ UNCHANGED <<sessions, offered, alive, toClose>> /\ notices' \subseteq notices
        /\ server' = [server EXCEPT ![g].dirty = TRUE]
    BY <1>11 DEF ToolListChanged
  <2>2. PICK s : s = [server[g] EXCEPT !.dirty = TRUE]
    OBVIOUS
  <2>3. s.session = server[g].session /\ s.tool = server[g].tool
    BY <1>2, <2>2 DEF ServerRecords
  <2>4. server' = [server EXCEPT ![g] = s]
    BY <2>1, <2>2
  <2>5. s.session \in 0..sessions /\ s.tool \in 0..offered
    BY <1>2, <2>3
  <2> QED
    BY <1>5, <2>1, <2>4, <2>5
<1>12. CASE ToolChanges
  <2>1. /\ UNCHANGED <<server, toClose, sessions, alive>> /\ offered' = offered + 1
        /\ notices' \subseteq notices \cup States
    BY <1>12 DEF ToolChanges
  <2> QED
    BY <1>1, <2>1, LinkKeeps
<1>13. CASE ReplaceSettings
  <2>1. /\ Newest < MaxSettings /\ server' = Append(server, NoSession)
        /\ toClose' = toClose \cup {Newest} /\ UNCHANGED <<sessions, alive, offered, notices>>
    BY <1>13 DEF ReplaceSettings
  <2>2. MaxSettings \in Nat
    BY McpAssumption
  <2>3. /\ Len(server') = Len(server) + 1 /\ Len(server) \in Nat
        /\ \A h \in States : server'[h] = server[h]
        /\ server'[Len(server) + 1] = NoSession
    BY <1>1, <2>1 DEF States
  <2>4. /\ Newest' <= MaxSettings /\ States \subseteq States'
        /\ \A h \in States' : h \in States \/ h = Len(server) + 1
    BY <2>1, <2>2, <2>3 DEF States, Newest
  <2>5. ASSUME NEW h \in States' PROVE server'[h].session <= sessions' /\ server'[h].tool <= offered'
    <3>1. server'[h] = NoSession \/ (h \in States /\ server'[h] = server[h])
      BY <2>3, <2>4
    <3>2. 0 <= sessions /\ 0 <= offered /\ UNCHANGED <<sessions, offered>>
      BY <1>1, <2>1
    <3> QED
      BY <1>2, <1>3, <3>1, <3>2 DEF LinkLimits
  <2> QED
    BY <1>1, <2>1, <2>4, <2>5 DEF LinkLimits
<1>14. ASSUME \/ UNCHANGED mcpVars
              \/ \E c \in ToolCalls :
                   \/ Route(c) \/ Take(c) \/ SendCall(c) \/ Inactive(c) \/ Exceeded(c)
                   \/ ServerRuns(c) \/ ServerAnswers(c) \/ ServerReports(c) \/ Cancels(c)
                   \/ \E rejected \in BOOLEAN : Errs(c, rejected)
              \/ \E refresh \in BOOLEAN : Consult(refresh)
              \/ \E s \in 1..MaxSessions : SessionDies(s)
       PROVE  LinkLimits'
  <2>1. UNCHANGED <<server, sessions, offered, toClose, notices>> /\ alive' \subseteq alive
    BY <1>14 DEF mcpVars, Route, Take, SendCall, Inactive, Exceeded, ServerRuns, ServerAnswers,
       ServerReports, Cancels, Errs, Consult, SessionDies, link
  <2> QED
    BY <1>4, <2>1, SMTT(30)
<1> QED
  BY <1>7, <1>8, <1>9, <1>10, <1>11, <1>12, <1>13, <1>14, Zenon DEF McpNext, ClientStep, ExecuteStep

LEMMA McpTypesKept ==
    ASSUME McpInv, McpLimits, [McpNext]_mcpVars
    PROVE  McpLimits'
<1>1. HoldersFit /\ UsersFit /\ LinkLimits
  BY DEF McpLimits
<1> QED
  BY <1>1, UsersKept, LinkKept DEF McpLimits

LEMMA McpTyped == McpInv /\ McpLimits => McpTypeOK
<1> SUFFICES ASSUME McpInv, McpLimits PROVE McpTypeOK
  OBVIOUS
<1>1. /\ server \in Seq(ServerRecords) /\ Len(server) >= 1 /\ sessions \in Nat /\ offered \in Nat
      /\ connectMu \in Seq(Users \cup {Free}) /\ Len(connectMu) = Len(server)
  BY McpInvFields
<1>2. HoldersFit /\ UsersFit /\ LinkLimits
  BY DEF McpLimits
<1>3. Len(server) \in 1..MaxSettings
  BY <1>1, <1>2, McpAssumption DEF LinkLimits, Newest
<1>4. ASSUME NEW g \in States
      PROVE  /\ server[g] \in [session : 0..sessions, tool : 0..offered, dirty : BOOLEAN]
             /\ connectMu[g] \in Users \cup {Free} /\ g \in DOMAIN connectMu
  <2>1. server[g] \in ServerRecords /\ connectMu[g] \in Users \cup {Free} /\ g \in DOMAIN connectMu
    BY <1>1 DEF States
  <2>2. server[g].session <= sessions /\ server[g].tool <= offered
    BY <1>2 DEF LinkLimits
  <2> QED
    BY <1>1, <2>1, <2>2 DEF ServerRecords
<1>5. \A g \in States :
        connectMu[g] # Free => user[connectMu[g]].state = g
                               /\ user[connectMu[g]].at \in {"check", "connect", "list", "install"}
  BY <1>2, <1>4 DEF HoldersFit, InLock
<1>6. toClose \cup notices \subseteq States /\ alive \subseteq 1..sessions
  BY <1>2 DEF LinkLimits
<1>7. \A c \in ToolCalls : user[c].tried \in 0..Attempts /\ executed[c] \in 0..Attempts
  BY <1>2 DEF UsersFit, CallBounds
<1> QED
  BY <1>1, <1>3, <1>4, <1>5, <1>6, <1>7, Zenon DEF McpTypeOK

-----------------------------------------------------------------------------
(* The components of MCLive together: whichever is in focus, what its run  *)
(* checks holds for every value of the constants.                          *)

\* Each component takes its own step or rests.
LEMMA LiveSteps ==
    ASSUME [LiveNext]_liveVars
    PROVE  /\ [StreamNext]_streamVars /\ [McpNext]_mcpVars /\ [SignInNext]_signInVars
           /\ [ConsoleNext]_consoleVars /\ [ShellNext]_shellVars /\ [TunnelNext]_tunnelVars
           /\ [CommandNext]_commandVars /\ [HarnessNext]_harnessVars
<1>1. CASE UNCHANGED liveVars
  BY <1>1 DEF liveVars
<1>2. CASE LiveNext
  BY <1>2 DEF LiveNext, OthersRest
<1> QED
  BY <1>1, <1>2

(* Whatever starts, stops, crashes and ends overlap, a desktop has one     *)
(* backend, which is gone when a stop says so, and of a tunnel that is not *)
(* shown as running neither client nor key is left, but for a client that  *)
(* could not be killed and a key that could not be removed: desktop/       *)
(* internal/supervisor/supervisor.go, application/network_pass.go.         *)
THEOREM ChildrenAlwaysKnown == LiveSpec => []ChildrenKnown
<1> DEFINE Inv == ShellInv /\ TunnelInv
<1>1. LiveInit => Inv
  BY ShellInvStarts, TunnelInvStarts DEF LiveInit
<1>2. Inv /\ [LiveNext]_liveVars => Inv'
  BY LiveSteps, ShellInvKept, TunnelInvKept
<1>3. Inv => ChildrenKnown
  BY DEF ShellInv, TunnelInv, ChildrenKnown, BackendOwned
<1> QED
  BY <1>1, <1>2, <1>3, PTL DEF LiveSpec

(* However sessions die, settings change and links break, a call that may  *)
(* not be repeated and a command are run once, and what is reported of     *)
(* them is what happened: mcpclient/manager.go, tools/native/terminal,     *)
(* tools/native/sshtools.                                                  *)
THEOREM EffectsAreAlwaysTrue == LiveSpec => []EffectsAreTrue
<1> DEFINE Inv == McpInv /\ CommandInv
<1>1. LiveInit => Inv
  BY McpInvStarts, CommandInvStarts DEF LiveInit
<1>2. Inv /\ [LiveNext]_liveVars => Inv'
  BY LiveSteps, McpInvKept, CommandInvKept
<1>3. Inv => EffectsAreTrue
  BY McpInvShows, CommandInvShows DEF EffectsAreTrue
<1> QED
  BY <1>1, <1>2, <1>3, PTL DEF LiveSpec

(* Whatever is reloaded, lost or sent again, a prompt that was accepted is *)
(* started once, and stored until its run has ended: console app.js.       *)
THEOREM PromptsAreKept == LiveSpec => []PromptKept
<1>1. LiveInit => ConsoleInv
  BY ConsoleInvStarts DEF LiveInit
<1>2. ConsoleInv /\ [LiveNext]_liveVars => ConsoleInv'
  BY LiveSteps, ConsoleInvKept
<1> QED
  BY <1>1, <1>2, ConsoleInvShows, PTL DEF LiveSpec

(* However the components of a live system are used and however they fail, *)
(* each keeps its types and its bounds: no component gets into a state the *)
(* code has no name for, and no turn, call, retry, session, token or shell *)
(* is counted past its limit: harness/loop.go, infrastructure/filestore,   *)
(* mcpclient/manager.go, application/provider_auth.go, console app.js,     *)
(* desktop/internal/supervisor, application/network_pass.go, tools/native. *)
THEOREM LiveIsTyped == LiveSpec => []LiveTypeOK
<1> DEFINE Inv == /\ HarnessInv /\ StreamInv /\ McpInv /\ TokenInv
                  /\ ConsoleInv /\ ShellInv /\ TunnelInv /\ CommandInv
           Limits == /\ HarnessLimits /\ StreamLimits /\ McpLimits /\ SignInLimits
                     /\ ConsoleLimits /\ ShellLimits /\ TunnelLimits /\ CommandLimits
<1>1. LiveInit => Inv /\ Limits
  <2> SUFFICES ASSUME LiveInit PROVE Inv /\ Limits
    OBVIOUS
  <2>1. /\ HarnessInit /\ StreamInit /\ McpInit /\ SignInInit
        /\ ConsoleInit /\ ShellInit /\ TunnelInit /\ CommandInit
    BY DEF LiveInit
  <2>2. Inv
    BY <2>1, HarnessStarts, StreamInvStarts, McpInvStarts, TokenInvStarts, ConsoleInvStarts,
       ShellInvStarts, TunnelInvStarts, CommandInvStarts
  <2>3. Limits
    BY <2>1, HarnessTypesStart, StreamTypesStart, McpTypesStart, SignInTypesStart,
       ConsoleTypesStart, ShellTypesStart, TunnelTypesStart, CommandTypesStart
  <2> QED
    BY <2>2, <2>3
<1>2. Inv /\ Limits /\ [LiveNext]_liveVars => (Inv /\ Limits)'
  <2> SUFFICES ASSUME Inv, Limits, [LiveNext]_liveVars PROVE (Inv /\ Limits)'
    OBVIOUS
  <2>1. Inv'
    BY LiveSteps, HarnessKept, StreamInvKept, McpInvKept, TokenInvKept, ConsoleInvKept, ShellInvKept,
       TunnelInvKept, CommandInvKept
  <2>2. Limits'
    BY LiveSteps, HarnessTypesKept, StreamTypesKept, McpTypesKept, SignInTypesKept, ConsoleTypesKept,
       ShellTypesKept, TunnelTypesKept, CommandTypesKept
  <2> QED
    BY <2>1, <2>2
<1>3. Inv /\ Limits => LiveTypeOK
  BY HarnessTyped, StreamTyped, McpTyped, SignInTyped, ConsoleTyped, ShellTyped, TunnelTyped,
     CommandTyped DEF LiveTypeOK
<1> QED
  <2> HIDE DEF Inv, Limits
  <2> QED
    BY <1>1, <1>2, <1>3, PTL DEF LiveSpec

=============================================================================
