------------------------------ MODULE WhatsApp ------------------------------
(* WhatsApp (datasources/whatsapp): a text file in which each message begins *)
(* with a header, and goes on until something that looks like another one.   *)
(* Who takes part is known when all of it has been read.                     *)
EXTENDS Naturals, Sequences, FiniteSets, SequencesExt

CONSTANTS
  Chats,     \* files: sequences of pieces of text, each of which may be a header
  None

VARIABLES
  chat,      \* the file
  at,        \* where the next message begins
  messages,  \* what was read
  people,    \* who wrote
  state,     \* "scan", "emit", "done", or what ended the import: "date", "panic"
  graphs     \* what was sent to the pipeline

vars == <<chat, at, messages, people, state, graphs>>

(* The date of a piece is "right", "impossible" (day 31 of a short month), or *)
(* None if it is not taken for one: a piece of a message, or a header whose  *)
(* day and month changed places.  A name is what stands before the colon, in *)
(* a notice there is none; "mark" is the character before attachments and    *)
(* notices, and columns is what such characters separate.                    *)
Columns == {"", "text", "attached", "poll", "place", "other"}

ChatsAssumption ==
  \A c \in Chats : \A i \in DOMAIN c :
    /\ c[i].date \in {"right", "impossible", None}
    /\ c[i].columns # <<>> /\ ToSet(c[i].columns) \subseteq Columns
    /\ c[i].mark \in BOOLEAN


(* A header ends with a colon, which is looked for in all that follows.      *)
IsMessageStart(i) ==
  chat[i].date # None /\ \E j \in i..Len(chat) : chat[j].name # None

(* For the mutants: a message is one piece.                                  *)
NextOfPieces(i) == i + 1

(* A message ends where the next begins, wherever the first one began.       *)
NextStart(i) ==
  LET starts == {j \in i + 1..Len(chat) : IsMessageStart(j)}
  IN  IF starts = {} THEN Len(chat) + 1 ELSE CHOOSE j \in starts : \A k \in starts : j <= k

(* The colon of a notice is the first one in what belongs to it, and its name *)
(* all before that.                                                          *)
Named(i, end) == {j \in i..end : chat[j].name # None}
HasHeader(i, end) == chat[i].date # None /\ Named(i, end) # {}
NameAt(i, end) == CHOOSE j \in Named(i, end) : \A k \in Named(i, end) : j <= k
NameOf(i, end) == IF chat[i].name # None THEN chat[i].name ELSE "notice"

(* The last column after a mark is about an attachment.                      *)
HasAttachment(mark, columns) == mark /\ Last(columns) = "attached"

Remaining(mark, columns) == IF mark THEN Front(columns) ELSE columns

(* The text before the first mark, or what a poll or a place says.           *)
Text(columns) ==
  IF Len(columns) > 1 /\ columns[2] \in {"poll", "place"} THEN columns[2] ELSE columns[1]

-----------------------------------------------------------------------------

Init ==
  /\ chat \in Chats
  /\ at = 1
  /\ messages = <<>>
  /\ people = {}
  /\ state = "scan"
  /\ graphs = <<>>

Scanning == state = "scan" /\ at <= Len(chat)
End == NextStart(at) - 1
Content == chat[NameAt(at, End)].columns
Keep(content) ==
  /\ messages' = Append(messages, [from |-> NameOf(at, End), content |-> content, lines |-> at..End])
  /\ people' = people \cup {NameOf(at, End)}

(* What stands before the first header, or is none without what follows.     *)
Ignore ==
  /\ Scanning /\ ~HasHeader(at, End)
  /\ at' = End + 1
  /\ UNCHANGED <<chat, messages, people, state, graphs>>

FailOnDate ==
  /\ Scanning /\ HasHeader(at, End) /\ chat[at].date = "impossible"
  /\ state' = "date"
  /\ UNCHANGED <<chat, at, messages, people, graphs>>

ScanAttachment ==
  /\ Scanning /\ HasHeader(at, End) /\ chat[at].date = "right"
  /\ HasAttachment(chat[at].mark, Content)
  /\ Keep("attached")
  /\ at' = End + 1
  /\ UNCHANGED <<chat, state, graphs>>

(* A mark before a header without one after it leaves no column to read.     *)
ScanText ==
  /\ Scanning /\ HasHeader(at, End) /\ chat[at].date = "right"
  /\ ~HasAttachment(chat[at].mark, Content)
  /\ LET columns == Remaining(chat[at].mark, Content)
     IN  IF columns = <<>> THEN state' = "panic" /\ UNCHANGED <<at, messages, people>>
         ELSE /\ IF Text(columns) = "" THEN UNCHANGED <<messages, people>> ELSE Keep(Text(columns))
              /\ at' = End + 1
              /\ UNCHANGED state
  /\ UNCHANGED <<chat, graphs>>

EndOfFile ==
  /\ state = "scan" /\ at = Len(chat) + 1
  /\ state' = "emit"
  /\ UNCHANGED <<chat, at, messages, people, graphs>>

(* For the mutants: as far as they are known then.                           *)
RecipientsSoFar(n) == {messages[m].from : m \in 1..n} \ {messages[n].from}

Recipients(n) == people \ {messages[n].from}

Emit ==
  /\ state = "emit"
  /\ LET n == Len(graphs) + 1
     IN  IF n > Len(messages) THEN state' = "done" /\ UNCHANGED graphs
         ELSE /\ graphs' = Append(graphs, [from |-> messages[n].from, to |-> Recipients(n),
                                           content |-> messages[n].content])
              /\ UNCHANGED state
  /\ UNCHANGED <<chat, at, messages, people>>

Next == Ignore \/ FailOnDate \/ ScanAttachment \/ ScanText \/ EndOfFile \/ Emit

Spec == Init /\ [][Next]_vars

-----------------------------------------------------------------------------
(* Properties                                                                *)

TypeOK ==
  /\ at \in 1..Len(chat) + 1
  /\ state \in {"scan", "emit", "done", "date", "panic"}

(* An export is imported whole or not at all (whatsapp.go:149).               *)
AllOrNothing == graphs # <<>> => state \in {"emit", "done"} /\ at = Len(chat) + 1

(* A piece by which somebody writes something.                               *)
Writes(i) ==
  /\ chat[i].date = "right" /\ chat[i].name # None
  /\ IF chat[i].mark THEN Last(chat[i].columns) = "attached" ELSE chat[i].columns[1] = "text"

(* Everybody who wrote something receives what the others wrote, before or   *)
(* after, and not their own (whatsapp.go:141-163).                           *)
EverybodyReceives ==
  state = "done" =>
    \A i \in DOMAIN chat : Writes(i) =>
      \A g \in DOMAIN graphs :
        chat[i].name \in graphs[g].to <=> chat[i].name # graphs[g].from

(* No piece belongs to two messages, none that a person writes is lost or    *)
(* goes to another person, and what follows it but a notice is part of it    *)
(* (splitter.go:31-68).                                                      *)
PiecesAreTheirs ==
  /\ \A m, n \in DOMAIN messages : m < n =>
       \A i \in messages[m].lines, j \in messages[n].lines : i < j
  /\ \A i \in 1..at - 1 : Writes(i) =>
       \E m \in DOMAIN messages :
         /\ messages[m].from = chat[i].name
         /\ i \in messages[m].lines /\ i - 1 \notin messages[m].lines
         /\ i + 1 < at /\ chat[i + 1].date = None => i + 1 \in messages[m].lines

ChatIsRead == AllOrNothing /\ EverybodyReceives /\ PiecesAreTheirs
=============================================================================
