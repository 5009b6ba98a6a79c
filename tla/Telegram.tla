------------------------------ MODULE Telegram ------------------------------
(* Telegram (datasources/telegram): one large JSON file is read token by     *)
(* token.  Messages are attributed with what was read before them: who the   *)
(* owner is, and of the chat, its name, type and ID.                         *)
EXTENDS Naturals, Sequences, FiniteSets, SequencesExt

CONSTANTS
  Exports,   \* files: sequences of parts
  None

VARIABLES
  export,    \* the file
  at,        \* the part that is read next
  owner,     \* ID of the owner, None before it is known
  peer,      \* the other person of the chat
  type,      \* of the chat
  seenChats, \* part of a chat has been read
  state,     \* "read", "done", or "panic"
  graphs     \* what was sent to the pipeline

vars == <<export, at, owner, peer, type, seenChats, state, graphs>>

(* A part is the personal information, a contact, or the name, type, ID or   *)
(* messages of a chat.                                                       *)
Parts == {"owner", "contact", "name", "type", "id", "messages"}

ExportsAssumption == \A e \in Exports : \A i \in DOMAIN e : e[i].part \in Parts


Nobody == [name |-> None, id |-> None]

Init ==
  /\ export \in Exports
  /\ at = 1
  /\ owner = None
  /\ peer = Nobody
  /\ type = None
  /\ seenChats = FALSE
  /\ state = "read"
  /\ graphs = <<>>

Reading(part) == state = "read" /\ at <= Len(export) /\ export[at].part = part
This == export[at].says

(* When chats came first, the file is opened again, but the decoder goes on  *)
(* with the old one, and the path is emptied before its end is cut off.      *)
PersonalInformation ==
  /\ Reading("owner")
  /\ IF owner # None THEN UNCHANGED <<owner, state>>
     ELSE /\ owner' = This
          /\ state' = IF seenChats THEN "panic" ELSE "read"
  /\ at' = at + 1
  /\ UNCHANGED <<export, peer, type, seenChats, graphs>>

Contact ==
  /\ Reading("contact")
  /\ graphs' = Append(graphs, [is |-> "contact", who |-> This])
  /\ at' = at + 1
  /\ UNCHANGED <<export, owner, peer, type, seenChats, state>>

(* For the mutants: a chat without a name keeps that of the one before.      *)
PeerNamed(name) == IF name = None THEN peer ELSE [name |-> name, id |-> None]

(* A new chat, of which nothing else is known.                               *)
NewPeer(name) == [name |-> name, id |-> None]

(* Before the owner is known, chats are passed over.                         *)
ChatField ==
  /\ \E field \in {"name", "type", "id"} :
       /\ Reading(field)
       /\ IF owner = None THEN UNCHANGED <<peer, type>>
          ELSE /\ peer' = CASE field = "name" -> NewPeer(This)
                            [] field = "id" -> [peer EXCEPT !.id = This]
                            [] OTHER -> peer
               /\ type' = IF field = "type" THEN This ELSE type
  /\ seenChats' = TRUE
  /\ at' = at + 1
  /\ UNCHANGED <<export, owner, state, graphs>>

Supported(messages) == SelectSeq(messages, LAMBDA m : m.type = "message")

(* The name that the peer has in a message is that of those after it.        *)
NamedBy(messages, n) ==
  LET theirs == {i \in 1..n : messages[i].from # owner}
  IN  IF theirs = {} THEN peer.name ELSE messages[CHOOSE i \in theirs : \A j \in theirs : j <= i].name

Message(messages, n) ==
  LET other == [peer EXCEPT !.name = NamedBy(messages, n)]
      me == [name |-> "owner", id |-> owner]
  IN  IF messages[n].from = owner THEN [is |-> "message", from |-> me, to |-> other, what |-> messages[n].what]
      ELSE [is |-> "message", from |-> other, to |-> me, what |-> messages[n].what]

ChatMessages ==
  /\ Reading("messages")
  /\ LET messages == Supported(This)
     IN  IF owner = None \/ type # "personal_chat" THEN UNCHANGED <<graphs, peer>>
         ELSE /\ graphs' = graphs \o [n \in DOMAIN messages |-> Message(messages, n)]
              /\ peer' = [peer EXCEPT !.name = NamedBy(messages, Len(messages))]
  /\ seenChats' = TRUE
  /\ at' = at + 1
  /\ UNCHANGED <<export, owner, type, state>>

EndOfFile ==
  /\ state = "read" /\ at > Len(export)
  /\ state' = "done"
  /\ UNCHANGED <<export, at, owner, peer, type, seenChats, graphs>>

Next == PersonalInformation \/ Contact \/ ChatField \/ ChatMessages \/ EndOfFile

Spec == Init /\ [][Next]_vars

-----------------------------------------------------------------------------
(* Properties                                                                *)

TypeOK ==
  /\ at \in 1..Len(export) + 1
  /\ state \in {"read", "done", "panic"} /\ seenChats \in BOOLEAN

(* Which fields a chat has: those since its messages of the chat before.     *)
FieldOf(field, at_) ==
  LET before == {i \in 1..at_ - 1 : export[i].part = "messages"}
      since == IF before = {} THEN 0 ELSE CHOOSE i \in before : \A j \in before : j <= i
      named == {i \in since + 1..at_ - 1 : export[i].part = field}
  IN  IF named = {} THEN None ELSE export[CHOOSE i \in named : TRUE].says

OwnerKnownAt(i) == \E j \in 1..i - 1 : export[j].part = "owner"
ChatsOfTwo == {i \in 1..at - 1 : /\ export[i].part = "messages" /\ OwnerKnownAt(i)
                                 /\ FieldOf("type", i) = "personal_chat"}
Stored == SelectSeq(graphs, LAMBDA g : g.is = "message")

(* Every message of a chat of two is between the owner and the peer of that  *)
(* chat, whose name is the chat's or one that they wrote under, whichever    *)
(* chats came before it (telegram.go:224-233).                               *)
PeersAreTheirs ==
  /\ \A s \in DOMAIN Stored : \E i \in ChatsOfTwo : \E n \in DOMAIN export[i].says :
       LET m == export[i].says[n]
           other == IF m.from = owner THEN Stored[s].to ELSE Stored[s].from
       IN  /\ m.what = Stored[s].what
           /\ other.id = FieldOf("id", i)
           /\ other.name \in {FieldOf("name", i)}
                             \cup {export[i].says[k].name : k \in DOMAIN export[i].says}
  /\ \A i \in ChatsOfTwo : \A n \in DOMAIN export[i].says :
       export[i].says[n].type = "message" =>
         \E s \in DOMAIN Stored : Stored[s].what = export[i].says[n].what

(* A file that is read to its end was read with its owner known, if it tells *)
(* who that is: no chat was passed over (telegram.go:157-163).               *)
NoChatIsPassedOver ==
  state = "done" /\ owner # None =>
    \A i \in DOMAIN export : export[i].part \in {"name", "type", "id", "messages"} => OwnerKnownAt(i)

ChatsAreRight == PeersAreTheirs /\ NoChatIsPassedOver
=============================================================================
