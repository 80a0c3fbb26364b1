------------------------------ MODULE ThinkTags ------------------------------
(***************************************************************************)
(* Thinking marked inside the text of an answer (adapters/openaicompat/    *)
(* thinking.go): splitTaggedThinking takes the finished text apart, and    *)
(* taggedThinkingStream shows the same text while it arrives in pieces,    *)
(* holding back what may still become a marker or a channel's name.        *)
(*                                                                         *)
(* Text is a sequence of atoms: parts of a word, white space, other        *)
(* characters, and the heads of markers, which Close completes; any amount *)
(* of white space may come before the Close of <think> and </think>.       *)
(***************************************************************************)
EXTENDS Integers, Sequences

CONSTANTS
    Kinds,      \* kinds of marker that arrive
    Parts,      \* parts of words that arrive
    Hidden,     \* the words that name a channel of thinking
    Answers,    \* the words that name a channel of answers
    MaxHold,    \* maxMarkerHold, in atoms
    MaxAtoms    \* bound: the length of a text

Close == ">"
Other == "."
Space == " "
AllKinds == {"open", "close", "channel", "role", "end", "other"}
Atoms == Kinds \cup Parts \cup {Close, Other, Space}

ASSUME TagBounds ==
    /\ MaxHold \in Nat \ {0} /\ MaxAtoms \in Nat /\ Kinds \subseteq AllKinds
    /\ Parts \cap (AllKinds \cup {Close, Other, Space}) = {}

VARIABLES
    text,      \* what has arrived
    stream     \* the taggedThinkingStream, and the fragments it has shown

tagVars == <<text, stream>>

Tagged(atoms, thinking) == [i \in DOMAIN atoms |-> [atom |-> atoms[i], thinking |-> thinking]]
From(atoms, n) == SubSeq(atoms, n, Len(atoms))

(* thinkTagPattern: the atoms from begin to end are a marker.              *)
IsMarker(atoms, begin, end) ==
    /\ begin < end /\ atoms[begin] \in AllKinds /\ atoms[end] = Close
    /\ \A i \in (begin + 1)..(end - 1) : atoms[begin] \in {"open", "close"} /\ atoms[i] = Space

(* FindStringIndex: where the first marker begins, and 0, and where it ends. *)
FirstMarker(atoms) ==
    LET marks == {i \in DOMAIN atoms : \E end \in DOMAIN atoms : IsMarker(atoms, i, end)} IN
    IF marks = {} THEN 0 ELSE CHOOSE i \in marks : \A j \in marks : i <= j

MarkerEnd(atoms) == CHOOSE end \in DOMAIN atoms : IsMarker(atoms, FirstMarker(atoms), end)

(* consumeLeadingWord: how many atoms the word takes.                      *)
LeadingWord(atoms) ==
    CHOOSE n \in 0..Len(atoms) :
        /\ \A i \in 1..n : atoms[i] \in Parts
        /\ n < Len(atoms) => atoms[n + 1] \notin Parts

(* channelSegment.                                                         *)
ChannelThinks(word, current) ==
    /\ word # <<>> /\ word \notin Answers
    /\ word \in Hidden \/ current

NextThinking(kind, thinking) ==
    CASE kind = "open" -> TRUE [] kind \in {"close", "end"} -> FALSE [] OTHER -> thinking
Awaits(kind) == IF kind \in {"channel", "role"} THEN kind ELSE "other"

-----------------------------------------------------------------------------
(* splitTaggedThinking.                                                    *)

(* What is left of the text, how it is read, and what came out so far.      *)
SplitStep(st) ==
    LET mark    == FirstMarker(st.left)
        segment == IF mark = 0 THEN st.left ELSE SubSeq(st.left, 1, mark - 1)
        name    == IF st.awaited = "other" THEN 0 ELSE LeadingWord(segment)
        now     == IF st.awaited = "channel"
                   THEN ChannelThinks(SubSeq(segment, 1, name), st.thinking) ELSE st.thinking
        rest    == From(segment, name + 1) IN
    IF mark = 0 THEN [st EXCEPT !.out = @ \o Tagged(rest, now), !.left = <<>>]
    ELSE [left |-> From(st.left, MarkerEnd(st.left) + 1), thinking |-> NextThinking(st.left[mark], now),
          sawMarker |-> TRUE, awaited |-> Awaits(st.left[mark]),
          out |-> st.out \o Tagged(rest, now \/ (st.left[mark] = "close" /\ ~st.sawMarker))]

Split(atoms) ==
    LET after[n \in 0..Len(atoms) + 1] ==
          IF n = 0 THEN [left |-> atoms, thinking |-> FALSE, sawMarker |-> FALSE,
                         awaited |-> "other", out |-> <<>>]
          ELSE SplitStep(after[n - 1]) IN
    after[Len(atoms) + 1].out

-----------------------------------------------------------------------------
(* taggedThinkingStream.                                                   *)

(* Bug: only the head of <think> right at the end is held back.            *)
HeldLastOnly(atoms) == IF atoms # <<>> /\ atoms[Len(atoms)] = "open" THEN 1 ELSE 0

(* thinkMarkerSuffixLength: the atoms at the end that may be a marker yet, *)
(* as long as it is no longer than MaxHold.                                *)
Held(atoms) ==
    LET heads == {i \in DOMAIN atoms : i > Len(atoms) - MaxHold /\ atoms[i] \in AllKinds}
        last  == CHOOSE i \in heads : \A j \in heads : j <= i IN
    IF heads = {} \/ \E i \in DOMAIN atoms : i >= last /\ atoms[i] = Close
    THEN 0 ELSE Len(atoms) - last + 1

(* push, one turn of its loop: a marker's name is waited for until         *)
(* something follows it.                                                   *)
PushStep(s, final) ==
    LET data == s.pending
        mark == FirstMarker(data)
        name == LeadingWord(data)
        kept == IF final THEN 0 ELSE Held(data) IN
    CASE data = <<>> \/ (s.awaited # "other" /\ name > 0 /\ name = Len(data) /\ ~final) -> s
      [] s.awaited = "other" /\ data # <<>> /\ mark = 0 ->
            [s EXCEPT !.shown = @ \o Tagged(SubSeq(data, 1, Len(data) - kept), s.thinking),
                      !.pending = From(data, Len(data) - kept + 1)]
      [] s.awaited = "other" /\ mark # 0 ->
            [s EXCEPT !.shown = @ \o Tagged(SubSeq(data, 1, mark - 1),
                              s.thinking \/ (data[mark] = "close" /\ ~s.sawMarker)),
                      !.thinking = NextThinking(data[mark], s.thinking),
                      !.awaited = Awaits(data[mark]), !.sawMarker = TRUE,
                      !.pending = From(data, MarkerEnd(data) + 1)]
      [] OTHER ->
            [s EXCEPT !.awaited = "other", !.pending = From(data, name + 1),
                      !.thinking = IF s.awaited = "channel"
                                   THEN ChannelThinks(SubSeq(data, 1, name), s.thinking)
                                   ELSE s.thinking]

Pushed(s, piece, final) ==
    LET data == s.pending \o piece
        after[n \in 0..Len(data) + 2] ==
          IF n = 0 THEN [s EXCEPT !.pending = data] ELSE PushStep(after[n - 1], final) IN
    after[Len(data) + 2]

TagsInit ==
    /\ text = <<>>
    /\ stream = [pending |-> <<>>, thinking |-> FALSE, sawMarker |-> FALSE,
                 awaited |-> "other", shown |-> <<>>]

(* A piece of the text arrives.                                            *)
Pieces == {<<a>> : a \in Atoms} \cup {<<a, b>> : a \in Atoms, b \in Atoms}

PieceArrives ==
    \E piece \in Pieces :
        /\ Len(text) + Len(piece) <= MaxAtoms
        /\ text' = text \o piece
        /\ stream' = Pushed(stream, piece, FALSE)

TagsNext == PieceArrives
TagsSpec == TagsInit /\ [][TagsNext]_tagVars

-----------------------------------------------------------------------------
TagsTypeOK ==
    /\ text \in Seq(Atoms) /\ Len(text) <= MaxAtoms
    /\ stream.pending \in Seq(Atoms) /\ stream.thinking \in BOOLEAN
    /\ stream.sawMarker \in BOOLEAN /\ stream.awaited \in {"channel", "role", "other"}

Of(fragments, thinking) == SelectSeq(fragments, LAMBDA f : f.thinking = thinking)

(* The text before a closing marker that nothing opened is thinking whose  *)
(* beginning was lost: it was shown as an answer before that was known.    *)
OrphanClose == FirstMarker(text) # 0 /\ text[FirstMarker(text)] = "close"

(* A marker that is not held until its Close has come is shown as text and *)
(* stored as a marker: white space has made it longer than MaxHold.        *)
LongMarker ==
    \E begin, end \in DOMAIN text : IsMarker(text, begin, end) /\ end - begin > MaxHold

(* However the text is cut, what the user saw, once the rest is flushed,   *)
(* is the answer and the thinking of the message that is stored, the white *)
(* space at their ends aside, which only the stored ones lose.             *)
ShownAsStored ==
    LET all == Pushed(stream, <<>>, TRUE).shown IN
    ~OrphanClose /\ ~LongMarker => \A t \in BOOLEAN : Of(all, t) = Of(Split(text), t)
=============================================================================
