------------------------------- MODULE Frames -------------------------------
(***************************************************************************)
(* The binary protocol: messages written with CMessageOut and sent by      *)
(* Socket::Send, cut into pieces by TCP, put together in the receiver's    *)
(* CircularBuffer by Socket::OnRead and read with CMolMessageIn.           *)
(*                                                                         *)
(* The client is the one of benchmark.cpp, the only one that writes        *)
(* frames.  A byte is a value of Bytes, and the length in a header takes   *)
(* one of them.                                                            *)
(***************************************************************************)
EXTENDS CircularBuffer

CONSTANTS
    HeaderLen,    \* sizeof(MsgHeader) (8 in the code)
    Magic,        \* PROTO_MAGIC
    Heartbeat,    \* type 50
    Chat,         \* type 100
    HeartbeatText, \* "heartbeat"
    ChatTexts,    \* "bench_msg_" and a number
    MaxBody,      \* MSG_MAX (32767)
    MaxSend,      \* size of Send's buffer (10240)
    MaxMessages   \* bound: messages the client writes

(* MaxBlock is the size of the buffer that recv fills, less one (1023).      *)
ASSUME FrameAssumption ==
    /\ HeaderLen \in Nat /\ HeaderLen >= 2
    /\ MaxBody \in Nat /\ MaxSend \in Nat /\ MaxMessages \in Nat
    /\ 2 * HeaderLen < MaxSend
    /\ MaxBlock >= 1
    /\ {Magic, Heartbeat, Chat} \cup 0 .. MaxSend \subseteq Bytes
    /\ Bytes \subseteq Nat
    /\ {HeartbeatText} \cup ChatTexts \subseteq Seq(Bytes)

VARIABLES
    stream,       \* bytes on their way to the server
    pc,           \* "recv", or "frames" within OnRead's loop
    deleted,      \* Socket::m_deleted
    readMsgCount, \* Socket::m_readMsgCount
    \* kept to state properties
    log,          \* every byte of the frames Send has been asked to send
    sent,         \* their messages, with where they begin in log
    handled,      \* bodies OnRead has taken from the buffer, oldest first
    cut,          \* the kernel did not take a whole frame
    refused       \* Write refused a block

sessionVars == <<deleted, readMsgCount>>
clientVars  == <<log, sent, cut>>
frameVars   == <<bufferVars, stream, pc, sessionVars, clientVars, handled, refused>>

Strings      == Seq(Bytes)
SentMessages == [at : Nat, body : Strings]

FrameTypeOK ==
    /\ BufferTypeOK
    /\ stream \in Seq(Bytes) /\ log \in Seq(Bytes)
    /\ pc \in {"recv", "frames"}
    /\ deleted \in BOOLEAN /\ cut \in BOOLEAN /\ refused \in BOOLEAN
    /\ readMsgCount \in Nat
    /\ sent \in Seq(SentMessages)
    /\ handled \in Seq(Strings)

(* Nothing is read that was not written (ImplementsByteQueue), so any one    *)
(* content of the memory will do.                                           *)
FrameInit ==
    /\ mem = [o \in Offsets |-> Magic] /\ BufferInit
    /\ stream = <<>> /\ pc = "recv"
    /\ deleted = FALSE /\ readMsgCount = 0
    /\ log = <<>> /\ sent = <<>> /\ handled = <<>>
    /\ cut = FALSE /\ refused = FALSE

-----------------------------------------------------------------------------
(* The client. *)

(* write8 and writeString: what does not fit is left out. *)
Written(body, d) == IF Len(body) + Len(d) > MaxBody THEN body ELSE body \o d

Message(type, text) == Written(Written(<<>>, <<type>>), text)

(* getLength counts the header. *)
GetLength(body) == HeaderLen + Len(body)

(* MsgHeader: magic, headerLen (which nobody reads), bodyLen. *)
Header(bodyLen) ==
    [i \in 1 .. HeaderLen |->
        IF i = 1 THEN Magic ELSE IF i = HeaderLen THEN bodyLen ELSE 0]

(* What clear left behind the body. *)
Zeros == [i \in 1 .. HeaderLen |-> 0]

Padded(body) == body \o Zeros

(* Send puts getLength() into the header for bodyLen, and copies as many     *)
(* bytes of the body.                                                       *)
FrameOf(body) == Header(GetLength(body)) \o Padded(body)

(* Mutant of FrameFits: Send does not look at the length. *)
FrameAlwaysFits(body) == TRUE

FrameFits(body) == Len(FrameOf(body)) < MaxSend

(* Send: a longer message is refused, or, at one length, dropped.  The      *)
(* client's socket does not block, so send(2) may take k bytes of a frame,  *)
(* or none, and Send takes that for a success.                              *)
Send(type, text) ==
    LET body == Message(type, text) IN
    /\ Len(sent) < MaxMessages
    /\ FrameFits(body)
    /\ sent' = Append(sent, [at |-> Len(log), body |-> body])
    /\ log' = log \o FrameOf(body)
    /\ \E k \in 0 .. Len(FrameOf(body)) :
          /\ stream' = stream \o SubSeq(FrameOf(body), 1, k)
          /\ cut' = (cut \/ k < Len(FrameOf(body)))
    /\ UNCHANGED <<bufferVars, pc, sessionVars, handled, refused>>

-----------------------------------------------------------------------------
(* The server. *)

(* recv returns n bytes. *)
Recv(n) ==
    /\ pc = "recv" /\ ~deleted /\ n <= Len(stream)
    /\ stream' = SubSeq(stream, n + 1, Len(stream))
    /\ UNCHANGED <<sessionVars, clientVars, handled>>

(* OnRead begins.  Nobody looks at what Write returns. *)
Receive(n) ==
    LET d == SubSeq(stream, 1, n) IN
    /\ Recv(n)
    /\ Write(d)
    /\ refused' = (refused \/ Len(d) > Room)
    /\ pc' = "frames"

(* The header at the front of the buffer, for Peek. *)
FrontHeader == Taken(HeaderLen)
TotalLen    == HeaderLen + FrontHeader[HeaderLen]

(* Not even a header, or not the whole frame: wait for more. *)
NoHeaderYet ==
    /\ GetSize < HeaderLen
    /\ pc' = "recv"
    /\ UNCHANGED <<bufferVars, sessionVars, handled>>

NoFrameYet ==
    /\ GetSize >= HeaderLen /\ FrontHeader[1] = Magic
    /\ GetSize < TotalLen
    /\ Peek(HeaderLen)
    /\ pc' = "recv"
    /\ UNCHANGED <<sessionVars, handled>>

(* Disconnect and Delete: run_loop takes the Socket down at its next event. *)
WrongMagic ==
    /\ GetSize >= HeaderLen /\ FrontHeader[1] # Magic
    /\ Peek(HeaderLen)
    /\ deleted' = TRUE
    /\ pc' = "recv"
    /\ UNCHANGED <<readMsgCount, handled>>

(* CMolMessageIn on the body: the reader begins HeaderLen bytes behind what  *)
(* it takes for the end of a header, and may so read bytes that were never  *)
(* written; in a body that is too short for it it reads zero.               *)
TypesRead(body) ==
    IF Len(body) <= HeaderLen THEN {0}
    ELSE IF 2 * HeaderLen < Len(body) THEN {body[2 * HeaderLen + 1]}
    ELSE Bytes

(* Mutant of TakeFrame: the bytes behind the message stay in the buffer. *)
TakeShortFrame ==
    /\ GetSize >= HeaderLen /\ FrontHeader[1] = Magic
    /\ GetSize >= TotalLen
    /\ LET body == SubSeq(Taken(TotalLen), HeaderLen + 1, TotalLen) IN
       /\ handled' = Append(handled, body)
       /\ \E type \in TypesRead(body) :
             readMsgCount' = readMsgCount + (IF type = Heartbeat THEN 0 ELSE 1)
    /\ Read(FrontHeader[HeaderLen])
    /\ UNCHANGED <<pc, deleted>>

(* Mutant of TakeFrame: one frame of a block, and then back to recv. *)
TakeOneFrame ==
    /\ GetSize >= HeaderLen /\ FrontHeader[1] = Magic
    /\ GetSize >= TotalLen
    /\ LET body == SubSeq(Taken(TotalLen), HeaderLen + 1, TotalLen) IN
       /\ handled' = Append(handled, body)
       /\ \E type \in TypesRead(body) :
             readMsgCount' = readMsgCount + (IF type = Heartbeat THEN 0 ELSE 1)
    /\ Read(TotalLen)
    /\ pc' = "recv"
    /\ UNCHANGED deleted

TakeFrame ==
    /\ GetSize >= HeaderLen /\ FrontHeader[1] = Magic
    /\ GetSize >= TotalLen
    /\ LET body == SubSeq(Taken(TotalLen), HeaderLen + 1, TotalLen) IN
       /\ handled' = Append(handled, body)
       /\ \E type \in TypesRead(body) :
             readMsgCount' = readMsgCount + (IF type = Heartbeat THEN 0 ELSE 1)
    /\ Read(TotalLen)
    /\ UNCHANGED <<pc, deleted>>

(* A turn of OnRead's loop. *)
NextFrame ==
    /\ pc = "frames"
    /\ NoHeaderYet \/ NoFrameYet \/ WrongMagic \/ TakeFrame
    /\ UNCHANGED <<stream, clientVars, refused>>

OnRead == NextFrame \/ \E n \in 1 .. MaxBlock : Receive(n)

(* start_test and test_long_connection. *)
ClientSends ==
    Send(Heartbeat, HeartbeatText) \/ \E text \in ChatTexts : Send(Chat, text)

(* A reactor that hands every block to OnRead, as the README's binary mode. *)
FrameNext == ClientSends \/ OnRead

FrameSpec     == FrameInit /\ [][FrameNext]_frameVars
FairFrameSpec == FrameSpec /\ WF_frameVars(OnRead)

-----------------------------------------------------------------------------
(* The server as it is: onreads takes the first byte of a block for a        *)
(* command, and only '2' is OnRead's; the block of another is dropped, or is *)
(* taken for something else.                                                *)
OnReadByte == Heartbeat  \* both are 50

OtherCommand(n) ==
    /\ Recv(n) /\ stream[1] # OnReadByte
    /\ UNCHANGED <<bufferVars, pc, refused>>

Onreads ==
    \/ NextFrame
    \/ \E n \in 1 .. MaxBlock :
          OtherCommand(n) \/ (Receive(n) /\ stream[1] = OnReadByte)

ServerSpec     == FrameInit /\ [][ClientSends \/ Onreads]_frameVars
FairServerSpec == ServerSpec /\ WF_frameVars(Onreads)

-----------------------------------------------------------------------------
(* Properties. *)

(* The framing: as long as the kernel took whole frames and the buffer took *)
(* whole blocks, the messages OnRead has handled are the first that were    *)
(* sent, each once, whole and in order, however TCP cut the stream; and no  *)
(* byte of a message has been taken for the start of a header.              *)
FramesAsSent ==
    ~cut /\ ~refused =>
        /\ ~deleted
        /\ Len(handled) <= Len(sent)
        /\ \A i \in 1 .. Len(handled) : handled[i] = Padded(sent[i].body)

(* Room in the buffer for a block behind all of the longest frame but a      *)
(* byte, wherever in the memory its regions lie.                            *)
EnoughRoom == Cap >= 2 * (MaxSend + MaxBlock) - 7

(* A buffer that has enough room never refuses a block of whole frames,      *)
(* although it may keep less than half of its memory free for writing:      *)
(* OnRead ignores what Write returns, so a refused block is a lost one.     *)
NothingRefused == EnoughRoom /\ ~cut => ~refused

(* Every message sent is handled sooner or later, unless the kernel did not *)
(* take a whole frame: OnRead leaves no whole frame in the buffer when it   *)
(* goes back to wait for more (README.md, the two protocols).               *)
EveryFrameIsHandled ==
    \A i \in 1 .. MaxMessages :
        (EnoughRoom /\ Len(sent) >= i) ~> (cut \/ Len(handled) >= i)

-----------------------------------------------------------------------------
(* The inductive invariant of the proofs. *)

(* Where message i begins in log, or will begin. *)
At(i) == IF i <= Len(sent) THEN sent[i].at ELSE Len(log)

(* log is the frames of sent, one behind the other. *)
FrameStands(i) ==
    LET f == FrameOf(sent[i].body) IN
    /\ FrameFits(sent[i].body)
    /\ At(i) + Len(f) = At(i + 1)
    /\ At(i + 1) <= Len(log)
    /\ \A j \in 1 .. Len(f) : log[At(i) + j] = f[j]

LogIsFrames == At(1) = 0 /\ \A i \in 1 .. Len(sent) : FrameStands(i)

(* The first message that has not been handled, and where it begins. *)
Awaited == Len(handled) + 1
From    == At(Awaited)

(* What is in the buffer and in the stream is log from there on. *)
Following ==
    /\ From + GetSize + Len(stream) = Len(log)
    /\ \A i \in 1 .. GetSize : Content[i] = log[From + i]
    /\ \A i \in 1 .. Len(stream) : stream[i] = log[From + GetSize + i]

(* Region B has been opened where there was more room before A than behind. *)
OpenedInTime == bPtr # Null => 2 * aPtr + aSize > Cap

(* OnRead has gone back to recv with less than a frame in the buffer. *)
LessThanAFrame == pc = "recv" => GetSize + 1 < MaxSend

FrameInv ==
    /\ FrameTypeOK /\ RegionsApart /\ LogIsFrames /\ OpenedInTime
    /\ FramesAsSent /\ NothingRefused
    /\ ~cut /\ ~refused => Following /\ LessThanAFrame
=============================================================================
