------------------------------ MODULE Messages ------------------------------
(***************************************************************************)
(* Open files that travel in ancillary messages of a UNIX stream socket:   *)
(* SendMessageHeader, ReceiveMessageHeader, Socket::sendMessage(),         *)
(* Socket::receiveMessage(), UnixRightsMessage and UnixCredentialsMessage. *)
(*                                                                         *)
(* One process sends payload with lists of its files.  The other receives  *)
(* them into one header and one UnixRightsMessage, which it reuses, in     *)
(* whatever state the last message left them.                              *)
(***************************************************************************)
EXTENDS Integers, SequencesExt

CONSTANTS
    File,        \* the files of the sender
    Own,         \* any file that the receiver opens for itself
    NoFile,      \* no file
    Num,         \* the receiver's table of open files
    BufferSizes, \* sizes for setControlBufferSize(), in words
    MaxPayload,  \* bound: bytes of one message
    MaxSent,     \* bound: messages with files
    MaxAdded     \* bound: numbers added for sending, and files the receiver opens

\* The words of a control message: its header and a file number have one each,
\* credentials have two.
Header == 1
CredentialsSize == 2

ASSUME MessagesAssumption ==
    /\ Num \subseteq Nat /\ IsFiniteSet(Num)
    /\ NoFile \notin File \union {Own} /\ Own \notin File
    /\ BufferSizes \subseteq {n \in Nat : n >= Header}
    /\ MaxPayload \in Nat \ {0} /\ MaxSent \in Nat /\ MaxAdded \in Nat

VARIABLES
    iovec,       \* sender: payload that is left
    control_msg, \* sender: the files of the serialized control message
    passcred,    \* the receiver's option for implicit credentials
    queue,       \* the socket: payload, each piece with the files sent along
    m_control_buffer, \* receiver: size of the buffer for control messages
    msg_controllen,   \* receiver: size that the msghdr has for it
    msgs,        \* receiver: the received control messages not yet looked at
    table,       \* the file of each number of the receiver
    m_fds,       \* the numbers in the UnixRightsMessage
    m_unclaimed_fds,  \* ... were received and not taken
    mine,        \* what the receiver itself has to close, and thinks it is
    handed,      \* history: lists of files that were handed over for sending
    arrived      \* history: which of them recvmsg() handed out, list by list

sender == <<iovec, control_msg>>
header == <<m_control_buffer, msg_controllen, msgs>>
rights == <<m_fds, m_unclaimed_fds>>
vars == <<iovec, control_msg, passcred, queue, m_control_buffer, msg_controllen,
          msgs, table, m_fds, m_unclaimed_fds, mine, handed, arrived>>

Init ==
    /\ iovec = 0
    /\ control_msg = <<>>
    /\ passcred \in BOOLEAN
    /\ queue = <<>>
    /\ m_control_buffer = 0
    /\ msg_controllen = 0
    /\ msgs = <<>>
    /\ table = [n \in Num |-> NoFile]
    /\ m_fds = <<>>
    /\ m_unclaimed_fds = FALSE
    /\ mine = [n \in Num |-> NoFile]
    /\ handed = <<>>
    /\ arrived = <<>>

-----------------------------------------------------------------------------
(* Sender *)

\* Payload, and files if there are any, for the next calls of sendMessage().
\* A client of a stream socket never sends files without payload.
Prepare(bytes, files) ==
    /\ iovec = 0 /\ bytes > 0
    /\ files # <<>> => Len(handed) < MaxSent
    /\ iovec' = bytes
    /\ control_msg' = files
    /\ handed' = IF files = <<>> THEN handed ELSE Append(handed, files)
    /\ UNCHANGED <<passcred, queue, header, table, rights, mine, arrived>>

\* Mutant: postSend() keeps the control message while payload is left.
SendMessage_KeepsControl(bytes) ==
    /\ bytes \in 1 .. iovec /\ Len(queue) < 2
    /\ queue' = Append(queue, [bytes |-> bytes, files |-> control_msg])
    /\ iovec' = iovec - bytes
    /\ control_msg' = IF bytes < iovec THEN control_msg ELSE <<>>
    /\ UNCHANGED <<passcred, header, table, rights, mine, handed, arrived>>

\* sendMessage() sends a part of the payload, and the control message with the
\* first part.  When sendmsg() fails nothing changes and the client may retry.
SendMessage(bytes) ==
    /\ bytes \in 1 .. iovec /\ Len(queue) < 2
    /\ queue' = Append(queue, [bytes |-> bytes, files |-> control_msg])
    /\ iovec' = iovec - bytes
    /\ control_msg' = <<>>
    /\ UNCHANGED <<passcred, header, table, rights, mine, handed, arrived>>

-----------------------------------------------------------------------------
(* Receiving *)

\* A size below that of a cmsghdr is refused.
SetControlBufferSize(size) ==
    /\ msgs = <<>>
    /\ m_control_buffer' = size
    /\ UNCHANGED <<sender, passcred, queue, msg_controllen, msgs, table, rights,
                   mine, handed, arrived>>

Free == {n \in Num : table[n] = NoFile}

\* The place of a number among the free ones.
Rank(n) == Cardinality({m \in Free : m <= n})

\* The lowest free numbers, as many as there are up to count, in order.
Fresh(count) ==
    [i \in 1 .. Min({count, Cardinality(Free)}) |-> CHOOSE n \in Free : Rank(n) = i]

\* What the kernel puts into the words of the buffer: credentials first, if
\* they are wanted, cut off where the buffer ends; then the files that fit.
Credentials(words) ==
    IF passcred /\ words >= Header
    THEN <<[type |-> "CREDENTIALS", size |-> Min({words - Header, CredentialsSize})]>>
    ELSE <<>>

RoomAfter(words) ==
    IF passcred THEN Max({words - Header - CredentialsSize, 0}) ELSE words

\* The size that prepareReceive() hands to recvmsg().  Without a buffer it
\* leaves in the msghdr what the last recvmsg() put there.
Room == IF m_control_buffer > 0 THEN m_control_buffer ELSE msg_controllen

\* receiveMessage() takes payload of the first piece in the socket, and all
\* the files of that piece.  Files without room, or a number, are dropped.
ReceiveMessage(bytes) ==
    /\ msgs = <<>> /\ queue # <<>> /\ bytes \in 1 .. queue[1].bytes
    /\ LET files == queue[1].files
           fds == Fresh(Min({Len(files), Max({RoomAfter(Room) - Header, 0})}))
           received == IF fds = <<>> THEN <<>> ELSE <<[type |-> "RIGHTS", fds |-> fds]>>
       IN
       /\ table' = [n \in Num |->
             IF \E i \in DOMAIN fds : fds[i] = n
             THEN files[CHOOSE i \in DOMAIN fds : fds[i] = n] ELSE table[n]]
       /\ msgs' = Credentials(Room) \o received
       /\ msg_controllen' =
             (IF Credentials(Room) = <<>> THEN 0
              ELSE Header + Credentials(Room)[1].size)
                 + (IF fds = <<>> THEN 0 ELSE Header + Len(fds))
       /\ arrived' = IF files = <<>> THEN arrived
                     ELSE Append(arrived, SubSeq(files, 1, Len(fds)))
    /\ queue' = IF bytes = queue[1].bytes THEN Tail(queue)
                ELSE <<[bytes |-> queue[1].bytes - bytes, files |-> <<>>]>> \o Tail(queue)
    /\ UNCHANGED <<sender, passcred, m_control_buffer, rights, mine, handed>>

\* recvmsg() fails, but the msghdr was prepared for it.
ReceiveFails ==
    /\ msgs = <<>>
    /\ msg_controllen' = Room
    /\ UNCHANGED <<sender, passcred, queue, m_control_buffer, msgs, table, rights,
                   mine, handed, arrived>>

Closed(fds) == [n \in Num |-> IF n \in Range(fds) THEN NoFile ELSE table[n]]

\* What closeUnclaimed() closes.
Unclaimed == IF m_unclaimed_fds THEN m_fds ELSE <<>>

\* The client hands the next message of the header to UnixRightsMessage: what
\* the object still had, and nobody took, is closed.
Deserialize ==
    /\ msgs # <<>> /\ msgs[1].type = "RIGHTS"
    /\ table' = Closed(Unclaimed)
    /\ m_fds' = msgs[1].fds
    /\ m_unclaimed_fds' = TRUE
    /\ msgs' = Tail(msgs)
    /\ UNCHANGED <<sender, passcred, queue, m_control_buffer, msg_controllen, mine, handed, arrived>>

\* Or to UnixCredentialsMessage, which throws for one that was cut off; the
\* client goes on with the next message all the same.
DeserializeCredentials ==
    /\ msgs # <<>> /\ msgs[1].type = "CREDENTIALS"
    /\ msgs' = Tail(msgs)
    /\ UNCHANGED <<sender, passcred, queue, m_control_buffer, msg_controllen, table,
                   rights, mine, handed, arrived>>

TakeFDs ==
    /\ mine' = [n \in Num |-> IF n \in Range(Unclaimed) THEN table[n] ELSE mine[n]]
    /\ m_fds' = IF m_unclaimed_fds THEN <<>> ELSE m_fds
    /\ m_unclaimed_fds' = FALSE
    /\ UNCHANGED <<sender, passcred, queue, header, table, handed, arrived>>

\* Mutant: closeUnclaimed() closes the numbers of messages to be sent, too.
ClearFDs_All ==
    /\ table' = Closed(m_fds)
    /\ m_fds' = <<>>
    /\ m_unclaimed_fds' = FALSE
    /\ UNCHANGED <<sender, passcred, queue, header, mine, handed, arrived>>

\* clearFDs(), and the destructor before the object is constructed anew.
ClearFDs ==
    /\ table' = Closed(Unclaimed)
    /\ m_fds' = <<>>
    /\ m_unclaimed_fds' = FALSE
    /\ UNCHANGED <<sender, passcred, queue, header, mine, handed, arrived>>

\* The object is also used for sending.  A careful client does not add numbers
\* to those that were received and not taken.
AddFD(n) ==
    /\ mine[n] # NoFile /\ ~m_unclaimed_fds /\ n \notin Range(m_fds)
    /\ Len(m_fds) < MaxAdded
    /\ m_fds' = Append(m_fds, n)
    /\ UNCHANGED <<sender, passcred, queue, header, table, m_unclaimed_fds, mine, handed, arrived>>

\* The receiver opens and closes files of its own.  Those it has added for
\* sending stay open until the object has forgotten them.
OpenOwn ==
    /\ Fresh(1) # <<>> /\ Cardinality({n \in Num : mine[n] = Own}) < MaxAdded
    /\ table' = [table EXCEPT ![Fresh(1)[1]] = Own]
    /\ mine' = [mine EXCEPT ![Fresh(1)[1]] = Own]
    /\ UNCHANGED <<sender, passcred, queue, header, rights, handed, arrived>>

CloseOwn(n) ==
    /\ mine[n] # NoFile /\ n \notin Range(m_fds)
    /\ table' = [table EXCEPT ![n] = NoFile]
    /\ mine' = [mine EXCEPT ![n] = NoFile]
    /\ UNCHANGED <<sender, passcred, queue, header, rights, handed, arrived>>

-----------------------------------------------------------------------------
\* The lists of at most two files.
Lists == {<<>>} \union {<<f>> : f \in File}
             \union {pair \in File \X File : pair[1] # pair[2]}

SenderStep ==
    \/ \E bytes \in 1 .. MaxPayload, files \in Lists : Prepare(bytes, files)
    \/ \E bytes \in 1 .. MaxPayload : SendMessage(bytes)

ReceptionStep ==
    \/ \E size \in BufferSizes \union {0} : SetControlBufferSize(size)
    \/ \E bytes \in 1 .. MaxPayload : ReceiveMessage(bytes)
    \/ ReceiveFails
    \/ Deserialize \/ DeserializeCredentials
    \/ TakeFDs \/ ClearFDs
    \/ \E n \in Num : AddFD(n) \/ CloseOwn(n)
    \/ OpenOwn

Next == SenderStep \/ ReceptionStep

Spec == Init /\ [][Next]_vars

-----------------------------------------------------------------------------
(* Properties *)

Numbers == {n \in Num : table[n] # NoFile}
InHeader == UNION {Range(msgs[i].fds) : i \in {k \in DOMAIN msgs : msgs[k].type = "RIGHTS"}}

\* Every variable keeps its type.
TypeOK ==
    /\ iovec \in 0 .. MaxPayload
    /\ control_msg \in Lists
    /\ passcred \in BOOLEAN
    /\ \A i \in DOMAIN queue :
          queue[i] \in [bytes : 1 .. MaxPayload, files : Lists]
    /\ m_control_buffer \in BufferSizes \union {0}
    /\ \/ msg_controllen = 0
       \/ \E size \in BufferSizes : msg_controllen \in Header .. size
    /\ \A i \in DOMAIN msgs :
          \/ msgs[i] \in [type : {"CREDENTIALS"}, size : 0 .. CredentialsSize]
          \/ msgs[i].type = "RIGHTS" /\ msgs[i].fds # <<>> /\ Range(msgs[i].fds) \subseteq Num
    /\ table \in [Num -> File \union {Own, NoFile}]
    /\ mine \in [Num -> File \union {Own, NoFile}]
    /\ Range(m_fds) \subseteq Num
    /\ m_unclaimed_fds \in BOOLEAN
    /\ \A i \in DOMAIN handed : handed[i] \in Lists
    /\ \A i \in DOMAIN arrived : arrived[i] \in Lists

\* Received files have one owner each: a message in the header that was not
\* looked at, the UnixRightsMessage until they are taken, or the client, whose
\* files are never closed or replaced behind its back, however the object and
\* the header are reused (deserialize(), takeFDs(), clearFDs(), addFD()).
\* All variables keep their types.
ReceivedOwnedOnce ==
    LET his == {n \in Num : mine[n] # NoFile} IN
    /\ TypeOK
    /\ Numbers = his \union InHeader \union Range(Unclaimed)
    /\ his \intersect (InHeader \union Range(Unclaimed)) = {}
    /\ InHeader \intersect Range(Unclaimed) = {}
    /\ Cardinality(Range(Unclaimed)) = Len(Unclaimed)
    /\ \A n \in his : table[n] = mine[n]

\* The lists that must have been sent: all that were handed over, but the
\* one that still waits for the first of its payload.
Sent == IF control_msg = <<>> THEN handed ELSE Front(handed)

\* The pieces in the socket, up to the i-th, that files were sent along with.
CarryingUpTo(i) == {j \in DOMAIN queue : j <= i /\ queue[j].files # <<>>}

\* Each list of files that the sender asks for goes out with one piece of its
\* payload, and arrives once and in order, whole or cut off at its end, and the
\* numbers that the UnixRightsMessage offers stand for the files at the
\* beginning of the last list that brought any, even when the sender needed
\* several calls for the payload, and retried some of them, and the receiver
\* read it in other pieces (sendMessage(), postSend(), receiveMessage(),
\* deserialize()).
ArrivesInOrder ==
    /\ Len(arrived) + Cardinality(CarryingUpTo(Len(queue))) = Len(Sent)
    /\ \A i \in DOMAIN arrived : IsPrefix(arrived[i], Sent[i])
    /\ \A i \in CarryingUpTo(Len(queue)) :
          queue[i].files = Sent[Len(arrived) + Cardinality(CarryingUpTo(i))]
    /\ m_unclaimed_fds /\ InHeader = {} =>
          \E k \in DOMAIN arrived :
             /\ [i \in DOMAIN m_fds |-> table[m_fds[i]]] = arrived[k]
             /\ arrived[k] # <<>> /\ \A l \in DOMAIN arrived : l > k => arrived[l] = <<>>

\* With the buffer it asks for, a receiver gets credentials and files whole,
\* however small the last message was (prepareReceive()).
RoomIsEnough ==
    m_control_buffer > 0 /\ arrived' # arrived =>
        \/ Last(arrived') = Sent[Len(arrived')]
        \/ RoomAfter(m_control_buffer) - Header < Len(Sent[Len(arrived')])
        \/ \A n \in Num : table'[n] # NoFile

\* Both, in every step: nothing that was sent is lost but for want of room or of
\* descriptors (sendMessage(), receiveMessage(), UnixRightsMessage).
RightsArriveOnce == [][ArrivesInOrder' /\ RoomIsEnough]_vars
=============================================================================
