---------------------------- MODULE TextMessages ----------------------------
(* SMS Backup & Restore (datasources/smsbackuprestore): what becomes of a   *)
(* text message or a multimedia message.  The export has no reliable list   *)
(* of who took part: roles are guessed from the type of the message and of  *)
(* its addresses, which may all be the same, repeat, or omit the owner.     *)
EXTENDS Integers, Sequences, FiniteSets, SequencesExt

CONSTANTS
  Backups,       \* messages to import
  OwnerNumber,   \* the number of the phone, standardized (smsbackuprestore.go:129)
  None

VARIABLES
  backup,        \* the message
  graphs         \* what was sent to the pipeline

vars == <<backup, graphs>>

(* Addresses: the number as it is written, what NormalizePhoneNumber makes  *)
(* of it (None of an empty one), and whether it is of type "from".          *)
Person(number, name) == [number |-> number, name |-> name]
Owner == Person(OwnerNumber, None)
Nobody == Person(None, None)

Texts == {b \in Backups : b.kind = "sms"}
Multimedia == {b \in Backups : b.kind = "mms"}

TextAssumption ==
  /\ Backups = Texts \cup Multimedia
  /\ \A sms \in Texts :
       sms.type \in {"received", "sent", "draft", "outbox", "failed", "queued"}
  /\ \A mms \in Multimedia :
       mms.box \in {"received", "sent", "draft", "outbox"}


-----------------------------------------------------------------------------
(* Who took part                                                            *)

(* Everything but a message that was sent comes from the other one.         *)
SMSPeople(sms) ==
  LET other == Person(sms.address.number, sms.contact)
  IN  IF sms.type = "sent" THEN [from |-> Owner, to |-> <<other>>]
      ELSE [from |-> other, to |-> <<Owner>>]

(* The name of the contact is trusted if there is one other participant.    *)
AddrToPerson(mms, addr) ==
  Person(addr.number,
         IF Len(mms.addrs) = 2 /\ addr.number # OwnerNumber THEN mms.contact ELSE None)

AllAddrsSame(mms) ==
  \A i \in 2..Len(mms.addrs) : mms.addrs[i].raw = mms.addrs[i - 1].raw

AppendIfUnique(persons, p) ==
  IF \E i \in DOMAIN persons : persons[i].number = p.number THEN persons ELSE Append(persons, p)

Sender(mms) ==
  LET senders == SelectSeq(mms.addrs, LAMBDA addr : addr.from)
  IN  IF AllAddrsSame(mms) /\ mms.box # "received" THEN Owner
      ELSE IF senders = <<>> THEN Nobody
      ELSE AddrToPerson(mms, Head(senders))

(* For the mutants: the sender is not looked for among the recipients.      *)
RecipientsAndSender(mms) ==
  LET others == SelectSeq(mms.addrs, LAMBDA addr : ~addr.from)
  IN  FoldLeft(LAMBDA done, addr : AppendIfUnique(done, AddrToPerson(mms, addr)), <<>>, others)

Recipients(mms) ==
  LET others == SelectSeq(mms.addrs, LAMBDA addr :
                  ~addr.from /\ addr.number # Sender(mms).number)
      known == IF AllAddrsSame(mms) /\ mms.box = "received" THEN <<Owner>> ELSE <<>>
  IN  FoldLeft(LAMBDA done, addr : AppendIfUnique(done, AddrToPerson(mms, addr)), known, others)

-----------------------------------------------------------------------------
(* What was sent                                                            *)

(* The first text changes places with the first part.                       *)
TextPartFirst(parts) ==
  LET texts == {i \in DOMAIN parts : parts[i].text}
      first == CHOOSE i \in texts : \A j \in texts : i <= j
  IN  IF texts = {} THEN parts
      ELSE [parts EXCEPT ![1] = parts[first], ![first] = parts[1]]

(* For the mutants: the first part that does not count is the last.         *)
KeptBefore(parts) ==
  LET skipped == {i \in DOMAIN parts : parts[i].seq < 0}
  IN  SubSeq(parts, 1,
        IF skipped = {} THEN Len(parts) ELSE (CHOOSE i \in skipped : \A j \in skipped : i <= j) - 1)

(* Parts of a negative number hold the layout.                              *)
Kept(parts) == SelectSeq(parts, LAMBDA part : part.seq >= 0)

Graph(people, parts) ==
  IF parts = <<>> THEN <<>>
  ELSE <<[from |-> people.from, to |-> people.to, root |-> Head(parts), attached |-> Tail(parts)]>>

-----------------------------------------------------------------------------

Init ==
  /\ backup \in Backups
  /\ graphs = None

ProcessSMS ==
  /\ backup.kind = "sms" /\ graphs = None
  /\ graphs' = IF backup.inFrame THEN Graph(SMSPeople(backup), <<backup.body>>) ELSE <<>>
  /\ UNCHANGED backup

ProcessMMS ==
  /\ backup.kind = "mms" /\ graphs = None
  /\ graphs' =
       IF backup.inFrame
       THEN Graph([from |-> Sender(backup), to |-> Recipients(backup)],
                  Kept(TextPartFirst(backup.parts)))
       ELSE <<>>
  /\ UNCHANGED backup

Next == ProcessSMS \/ ProcessMMS

Spec == Init /\ [][Next]_vars

-----------------------------------------------------------------------------
(* Properties                                                               *)

TypeOK == graphs = None \/ Len(graphs) <= 1

Numbers(people) == {people[i].number : i \in DOMAIN people}

(* The message is one to oneself as far as its addresses tell.              *)
ToOneself ==
  IF backup.kind = "sms" THEN backup.address.number = OwnerNumber
  ELSE \A i \in DOMAIN backup.addrs : backup.addrs[i].number = OwnerNumber

(* However bad the addresses are, no one who is known receives a message    *)
(* twice, or one of their own, and none of its recipients is forgotten; the *)
(* owner sent what the box says was sent, if no other address tells it      *)
(* (mms.go:117-161).                                                        *)
RolesAreRight ==
  graphs \notin {None, <<>>} =>
    LET from == graphs[1].from.number
        to == graphs[1].to
    IN  /\ Cardinality(Numbers(to)) = Len(to)
        /\ from \in Numbers(to) => ToOneself
        /\ backup.kind = "mms" =>
             /\ \A i \in DOMAIN backup.addrs :
                  ~backup.addrs[i].from => backup.addrs[i].number \in {from} \cup Numbers(to)
             /\ AllAddrsSame(backup) => OwnerNumber \in {from} \cup Numbers(to)

(* A contact's name goes to one person, and not to the owner, unless the    *)
(* export left out the owner (mms.go:90-101).                                *)
NamesAreRight ==
  graphs \notin {None, <<>>} =>
    LET named == {p \in {graphs[1].from} \cup ToSet(graphs[1].to) : p.name # None}
    IN  backup.kind = "mms" =>
          /\ OwnerNumber \notin {p.number : p \in named}
          /\ OwnerNumber \in {backup.addrs[i].number : i \in DOMAIN backup.addrs} =>
               Cardinality({p.number : p \in named}) <= 1

(* Every part that counts is stored once; a text, if the first of them      *)
(* counts, is what the others are attached to (mms.go:229-243).             *)
PartsAreKept ==
  (backup.kind = "mms" /\ graphs # None /\ backup.inFrame) =>
    LET counted == {i \in DOMAIN backup.parts : backup.parts[i].seq >= 0}
        texts == {i \in DOMAIN backup.parts : backup.parts[i].text}
        stored == IF graphs = <<>> THEN <<>> ELSE <<graphs[1].root>> \o graphs[1].attached
    IN  /\ Len(stored) = Cardinality(counted)
        /\ ToSet(stored) = {backup.parts[i] : i \in counted}
        /\ \A i \in texts : (\A j \in texts : i <= j) /\ i \in counted => stored[1] = backup.parts[i]

MessagesAreRight == RolesAreRight /\ NamesAreRight /\ PartsAreKept
=============================================================================
