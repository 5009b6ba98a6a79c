------------------------------ MODULE IMessages ------------------------------
(* iMessage (datasources/imessage): the rows of a query that joins messages  *)
(* with the people of their chats and with their attachments, so that one    *)
(* message is spread over the rows of every pair of those.                   *)
EXTENDS Naturals, Sequences, FiniteSets, SequencesExt

CONSTANTS
  Chats,      \* what the database may hold: messages by row ID
  DeviceID,   \* the number of the device, standardized
  None

VARIABLES
  chat,       \* the messages, or "error" when the query fails
  next,       \* the row that is read next
  current,    \* the message whose rows are being gathered
  graphs      \* what was sent to the pipeline

vars == <<chat, next, current, graphs>>

(* A handle is what is written in the database and what NormalizePhoneNumber *)
(* makes of it, which for an email address is the same.                      *)
EntityWithID(handle) ==
  [attribute |-> IF handle.email THEN "email" ELSE "phone_number", value |-> handle.number]

(* In the list of participants an address counts as a phone number.          *)
Entity(handle) == [attribute |-> "phone_number", value |-> handle.number]

Device == [number |-> DeviceID, email |-> FALSE]

NoMessage == [row |-> 0, participants |-> <<>>, attached |-> <<>>]

(* Rows by message; without a chat with other people in it there are none.   *)
RowsOf(messages, m) ==
  LET files == IF messages[m].files = <<>> THEN <<None>> ELSE messages[m].files
  IN  [n \in 1..Len(messages[m].to) * Len(files) |->
         [row |-> m,
          participant |-> messages[m].to[((n - 1) \div Len(files)) + 1],
          file |-> files[((n - 1) % Len(files)) + 1]]]

Rows == FlattenSeq([m \in DOMAIN chat.messages |-> RowsOf(chat.messages, m)])

Sender(message) == IF message.fromMe THEN Device ELSE message.handle

(* The time frame's second condition replaces the first, without a WHERE.    *)
QueryFails == {"since", "until"} \subseteq chat.frame

(* For the mutants: whether or not the message is there.                     *)
IsReactionToAny(message) == message.target # None

(* A reaction is told apart only if the message it is for is there.          *)
IsReaction(message) ==
  /\ message.target # None
  /\ \E m \in DOMAIN chat.messages : chat.messages[m].guid = message.target

(* For the mutants: every row has an attachment of its own.                  *)
AttachmentsOfRows(files) == SelectSeq(files, LAMBDA file : file.named)

(* One attachment is taken as it is; of several, which may be the same one in *)
(* several rows, those that can be read, once each.                          *)
Attachments(files) ==
  LET named == SelectSeq(files, LAMBDA file : file.named)
      Keep(kept, file) ==
        IF file.data = None \/ \E k \in DOMAIN kept : kept[k].data = file.data
        THEN kept ELSE Append(kept, file)
  IN  IF Len(files) = 1 THEN named ELSE FoldLeft(Keep, <<>>, named)

(* For the mutants: who has written it receives it as well.                  *)
SentToAll(message, participants) ==
  (IF message.fromMe THEN <<>> ELSE <<EntityWithID(Device)>>)
  \o [p \in DOMAIN participants |-> Entity(participants[p])]

SentTo(message, participants) ==
  LET others == SelectSeq(participants, LAMBDA p : p.number # Sender(message).number)
  IN  (IF message.fromMe THEN <<>> ELSE <<EntityWithID(Device)>>)
      \o [p \in DOMAIN others |-> Entity(others[p])]

Finalized(gathered) ==
  LET message == chat.messages[gathered.row]
      attached == Attachments(gathered.attached)
  IN  IF gathered.row = 0 \/ (~message.text /\ attached = <<>>) THEN <<>>
      ELSE <<[guid |-> message.guid, from |-> EntityWithID(Sender(message)), text |-> message.text,
              attached |-> attached, to |-> SentTo(message, gathered.participants),
              reply |-> message.reply, reaction |-> None]>>

(* A removal is sent as a reaction that says nothing.                        *)
Reaction(message) ==
  [guid |-> message.target, from |-> EntityWithID(Sender(message)), text |-> FALSE,
   attached |-> <<>>, to |-> <<>>, reply |-> None, reaction |-> message.emoji]

-----------------------------------------------------------------------------

Init ==
  /\ chat \in Chats
  /\ next = 1
  /\ current = NoMessage
  /\ graphs = <<>>

Reading == ~QueryFails /\ next <= Len(Rows)
Row == Rows[next]

(* Every row of a reaction is one.                                           *)
React ==
  /\ Reading /\ IsReaction(chat.messages[Row.row])
  /\ graphs' = Append(graphs, Reaction(chat.messages[Row.row]))
  /\ next' = next + 1
  /\ UNCHANGED <<chat, current>>

(* The row of a new message finishes the one before.                         *)
Gather ==
  /\ Reading /\ ~IsReaction(chat.messages[Row.row])
  /\ LET new == Row.row # current.row
         before == IF new THEN NoMessage ELSE current
     IN  /\ graphs' = IF new THEN graphs \o Finalized(current) ELSE graphs
         /\ current' =
              [row |-> Row.row,
               attached |-> IF Row.file = None THEN before.attached
                            ELSE Append(before.attached, Row.file),
               participants |-> Append(before.participants, Row.participant)]
  /\ next' = next + 1
  /\ UNCHANGED chat

Finish ==
  /\ ~QueryFails /\ next = Len(Rows) + 1
  /\ graphs' = graphs \o Finalized(current)
  /\ current' = NoMessage
  /\ next' = next + 1
  /\ UNCHANGED chat

Next == React \/ Gather \/ Finish

Spec == Init /\ [][Next]_vars

-----------------------------------------------------------------------------
(* Properties                                                                *)

TypeOK ==
  /\ next \in 1..Len(Rows) + 2
  /\ current.row \in 0..Len(chat.messages)

Sent == SelectSeq(graphs, LAMBDA g : g.reaction = None)
Reactions == SelectSeq(graphs, LAMBDA g : g.reaction # None)

(* What a message is on the device: its attachments with different data, of  *)
(* which one that cannot be read counts only if it is all that there is.     *)
Content(m) ==
  LET files == {f \in ToSet(m.files) : f.named}
  IN  IF Len(m.files) = 1 /\ Len(m.to) = 1 THEN files ELSE {f \in files : f.data # None}

Stored ==
  SelectSeq([m \in DOMAIN chat.messages |-> m],
    LAMBDA m : LET message == chat.messages[m]
               IN  /\ message.to # <<>> /\ ~IsReaction(message)
                   /\ message.text \/ Content(message) # {})

(* However many rows it is spread over, each message with content is stored  *)
(* once, in order, with each attachment once; reactions between its rows and *)
(* its neighbours' take nothing from it (imessage.go:330-391).               *)
MessagesAreWhole ==
  /\ Len(Sent) <= Len(Stored)
  /\ next = Len(Rows) + 2 => Len(Sent) = Len(Stored)
  /\ \A s \in DOMAIN Sent :
       LET message == chat.messages[Stored[s]]
       IN  /\ Sent[s].guid = message.guid
           /\ {f.data : f \in ToSet(Sent[s].attached)} = {f.data : f \in Content(message)}
           /\ Len(Sent[s].attached) = Cardinality({f.data : f \in Content(message)})

(* Everybody in the chat gets the message but its sender, and the owner of   *)
(* the device who did not send it; a reaction is sent by who reacted, and is *)
(* to a message of the database (imessage.go:459-490).                       *)
EverybodyGetsIt ==
  /\ \A s \in DOMAIN Sent :
       LET message == chat.messages[Stored[s]]
           others == {h.number : h \in ToSet(message.to)} \ {Sender(message).number}
       IN  {p.value : p \in ToSet(Sent[s].to)} =
             others \cup (IF message.fromMe THEN {} ELSE {DeviceID})
  /\ \A r \in DOMAIN Reactions :
       \E m, n \in DOMAIN chat.messages :
         /\ chat.messages[m].guid = Reactions[r].guid
         /\ chat.messages[n].target = Reactions[r].guid
         /\ EntityWithID(Sender(chat.messages[n])) = Reactions[r].from

ChatIsRight == MessagesAreWhole /\ EverybodyGetsIt
==============================================================================
