---------------------------- MODULE VoiceMessages ----------------------------
(* Google Voice (datasources/googlevoice): a file holds one conversation.    *)
(* Who takes part is listed in it, or told by who wrote, or by its name;     *)
(* somebody may be known by number, by name or by both.                      *)
EXTENDS Naturals, Sequences, FiniteSets, SequencesExt

CONSTANTS
  Cards,      \* what the file of the owner's phones may hold
  Files,      \* conversations
  None

VARIABLES card, file, graphs

vars == <<card, file, graphs>>

(* People are what they can be recognised by: numbers and names.            *)
Phone(number) == [attribute |-> "phone_number", value |-> number]
Name(name) == [attribute |-> "gvoice_name", value |-> name]

(* A card is a sequence of numbers, or None when it cannot be read.         *)
Owner(numbers) == IF numbers = None THEN {} ELSE {Phone(numbers[i]) : i \in DOMAIN numbers}

(* The group in the metadata is compared as any with "", so that the first  *)
(* number is returned whether it is of Google Voice or not.                 *)
OwnerGVoiceNumber(numbers) == IF numbers \in {None, <<>>} THEN None ELSE Head(numbers)

(* A name that is just the number is none.                                  *)
EntityFromSenderCiteTag(cite) ==
  (IF cite.number = None THEN {} ELSE {Phone(cite.number)})
  \cup (IF cite.name \in {None, cite.number} THEN {} ELSE {Name(cite.name)})

(* What the file name tells: a number with no name, or a name with no       *)
(* number, either of which is an attribute all the same.                    *)
EntityFromFileName(title) ==
  CASE title.is = "number" -> {Phone(title.value), Name(None)}
    [] title.is = "name" -> {Phone(None), Name(title.value)}
    [] OTHER -> {}

(* For the mutants: only who is equal counts as known.                      *)
AddIfNew(participants, entity) ==
  IF entity = {} \/ entity \in ToSet(participants) THEN participants
  ELSE Append(participants, entity)

AddUniqueParticipant(participants, entity) ==
  IF entity = {} \/ \E i \in DOMAIN participants : participants[i] \cap entity # {}
  THEN participants ELSE Append(participants, entity)

AddAll(participants, cites) ==
  FoldLeft(LAMBDA known, cite : AddUniqueParticipant(known, EntityFromSenderCiteTag(cite)),
           participants, cites)

Participants ==
  LET listed == AddAll(<<Owner(card)>>, file.participants)
      wrote == AddAll(listed, [i \in DOMAIN file.messages |-> file.messages[i].from])
  IN  IF Len(listed) > 1 THEN listed
      ELSE IF Len(wrote) > 1 THEN wrote
      ELSE AddUniqueParticipant(wrote, EntityFromFileName(file.title))

Sender(message) ==
  IF message.from.number = OwnerGVoiceNumber(card) THEN Owner(card)
  ELSE EntityFromSenderCiteTag(message.from)

(* For the mutants: the owner is the one who wrote what has no sender.      *)
RecipientsButOwner(message) ==
  SelectSeq(Participants, LAMBDA p : p # Owner(card) /\ Phone(message.from.number) \notin p)

Recipients(message) ==
  SelectSeq(Participants, LAMBDA p : Phone(message.from.number) \notin p)

(* The text, and the pictures whose file is found; without a text the first *)
(* picture is the content.                                                  *)
Pieces(message) ==
  (IF message.text = "MMS Received" THEN <<>> ELSE <<message.text>>)
  \o SelectSeq(message.pictures, LAMBDA picture : picture # None)

Graph(message) ==
  LET pieces == Pieces(message)
  IN  [from |-> Sender(message), to |-> Recipients(message),
       root |-> IF pieces = <<>> THEN None ELSE Head(pieces),
       attached |-> IF pieces = <<>> THEN <<>> ELSE Tail(pieces)]

-----------------------------------------------------------------------------

Init ==
  /\ card \in Cards
  /\ file \in Files
  /\ graphs = None

ProcessConversationFile ==
  /\ graphs = None
  /\ graphs' = [i \in DOMAIN file.messages |-> Graph(file.messages[i])]
  /\ UNCHANGED <<card, file>>

Next == ProcessConversationFile

Spec == Init /\ [][Next]_vars

-----------------------------------------------------------------------------
(* Properties                                                               *)

Messages == IF graphs = None THEN {} ELSE DOMAIN graphs
From(i) == file.messages[i].from

(* One that wrote under two numbers, or without one, may be taken for       *)
(* somebody else.                                                           *)
Cites == ToSet(file.participants) \cup {From(i) : i \in DOMAIN file.messages}
TwoNumbers ==
  \/ \E c \in Cites : c.number = None
  \/ \E c, d \in Cites : c.name = d.name /\ c.name # None /\ c.number # d.number

(* In a conversation that does not list who takes part, who wrote a message *)
(* receives those of the others, and nobody their own or one twice, though  *)
(* they are known by number here and by name there (googlevoice.go:172).    *)
VoicesAreHeard ==
  \A i \in Messages :
    LET to == graphs[i].to
    IN  /\ \A m, n \in DOMAIN to : m # n => to[m] \cap to[n] = {}
        /\ ~TwoNumbers =>
             /\ \A n \in DOMAIN to : to[n] \cap EntityFromSenderCiteTag(From(i)) = {}
             /\ file.participants = <<>> =>
                  \A j \in Messages :
                    From(j).number # From(i).number /\ ~{Phone(From(j).number), Phone(From(i).number)} \subseteq Owner(card) =>
                      \E n \in DOMAIN to : Phone(From(j).number) \in to[n]

(* Every message has the owner of the account in it, if the card could be   *)
(* read (googlevoice.go:168).                                               *)
OwnerTakesPart ==
  card \notin {None, <<>>} =>
    \A i \in Messages :
      \/ Phone(From(i).number) \in Owner(card)
      \/ Owner(card) \in ToSet(graphs[i].to)

TypeOK == card \in Cards

VoicesAreRight == VoicesAreHeard /\ OwnerTakesPart
==============================================================================
