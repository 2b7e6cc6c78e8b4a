---------------------------- MODULE FileTransfer ----------------------------
(***************************************************************************)
(* socket/bt3: senders each open a TCP connection to one receiver, write a *)
(* header with the name and the size of a file, then its bytes, and close. *)
(* The receiver serves one connection after the other.                     *)
(*                                                                         *)
(* TCP is a byte stream: the bytes of a connection arrive in order, and a  *)
(* read returns any non-empty run of those that have arrived, whatever the *)
(* writes were.  Header and data may share a read or be split anywhere.    *)
(* A byte, or a header field, is one unit of the stream.                   *)
(*                                                                         *)
(* Neither program looks at the results of fread, read and fwrite once the *)
(* transfer runs: any of them may fail, and both go on.                    *)
(***************************************************************************)
EXTENDS Naturals, Sequences

CONSTANTS
  Senders,
  Names,        \* base names of files
  Contents,     \* bound: the files that are sent, as sequences of bytes
  None,
  BUF_SIZE,     \* size of the receiver's buffer
  Window,       \* bound: units of a connection written and not yet read
  BACKLOG       \* pending connections (4 in listen)

VARIABLES
  fname, content,   \* per sender: its file, as it was opened or has grown
  spc,              \* per sender: "off", "connect", "send", "sent" or "killed"
  announced,        \* per sender: filesize, from stat
  sent,             \* per sender: units written, header first
  wire,             \* per sender: units written and not yet read
  reset,            \* per sender: the receiver has closed the connection
  backlog,          \* connections waiting for accept
  conn,             \* the connection being served, or None
  rpc,              \* "header" or "body" while one is
  buf,              \* what the receiver has read while it looks for the header
  filename, filesize, received,   \* the locals of handle_connection
  saved,            \* the receiver's directory: bytes by name
  writer,           \* history: whose bytes they are
  outcome,          \* history, per sender: what became of its connection
  failed            \* history, per sender: unchecked calls that failed on its file

senderVars == <<fname, content, spc, announced, sent>>
receiverVars == <<rpc, buf, filename, filesize, received>>
diskVars == <<saved, writer>>
vars == <<senderVars, wire, reset, backlog, conn, receiverVars, diskVars, outcome, failed>>

Calls == {"fread", "read", "fwrite"}

NL == <<"nl", 0>>
Byte == <<"x", 0>>
NameField(n) == <<"name", n>>
SizeField(k) == <<"size", k>>

Header(s) == <<NameField(fname[s]), NL, SizeField(announced[s]), NL, NL>>
HeaderLength == 5

ASSUME BufferAssumption == BUF_SIZE \in Nat /\ BUF_SIZE > HeaderLength + 1
ASSUME BoundsAssumption == Window \in Nat \ {0} /\ BACKLOG \in Nat \ {0} /\ None \notin Senders
ASSUME ContentsAssumption == Contents \subseteq Seq({NL, Byte})

Init ==
  /\ fname \in [Senders -> Names]
  /\ content \in [Senders -> Contents]
  /\ spc = [s \in Senders |-> "off"]
  /\ announced = [s \in Senders |-> 0]
  /\ sent = [s \in Senders |-> 0]
  /\ wire = [s \in Senders |-> << >>]
  /\ reset = [s \in Senders |-> FALSE]
  /\ backlog = << >>
  /\ conn = None
  /\ rpc = "header"
  /\ buf = << >>
  /\ filename = None /\ filesize = 0 /\ received = 0
  /\ saved = [n \in Names |-> << >>]
  /\ writer = [n \in Names |-> None]
  /\ outcome = [s \in Senders |-> "none"]
  /\ failed = [s \in Senders |-> {}]

-----------------------------------------------------------------------------
\* The sender.

\* fopen and stat.
Open(s) ==
  /\ spc[s] = "off"
  /\ spc' = [spc EXCEPT ![s] = "connect"]
  /\ announced' = [announced EXCEPT ![s] = Len(content[s])]
  /\ UNCHANGED <<fname, content, sent, wire, reset, backlog, conn, receiverVars, diskVars, outcome, failed>>

\* Somebody appends to the file while it is being sent.
Grow(s) ==
  /\ spc[s] \in {"connect", "send"}
  /\ Len(content[s]) = announced[s]
  /\ content' = [content EXCEPT ![s] = Append(@, Byte)]
  /\ UNCHANGED <<fname, spc, announced, sent, wire, reset, backlog, conn, receiverVars, diskVars, outcome, failed>>

Connect(s) ==
  /\ spc[s] = "connect"
  /\ Len(backlog) < BACKLOG
  /\ spc' = [spc EXCEPT ![s] = "send"]
  /\ backlog' = Append(backlog, s)
  /\ UNCHANGED <<fname, content, announced, sent, wire, reset, conn, receiverVars, diskVars, outcome, failed>>

\* What the sender writes in all, as far as it can know now.
Outgoing(s) == Header(s) \o content[s]

\* One unit of a write goes into the connection, which may have no room yet.
\* After a reset it is lost, or SIGPIPE ends the sender: write is not checked.
Put(s) ==
  /\ spc[s] = "send"
  /\ sent[s] < Len(Outgoing(s))
  /\ \/ /\ ~reset[s] /\ Len(wire[s]) < Window
        /\ wire' = [wire EXCEPT ![s] = Append(@, Outgoing(s)[sent[s] + 1])]
        /\ UNCHANGED spc
     \/ /\ reset[s]
        /\ spc' \in {spc, [spc EXCEPT ![s] = "killed"]}
        /\ UNCHANGED wire
  /\ sent' = [sent EXCEPT ![s] = @ + 1]
  /\ UNCHANGED <<fname, content, announced, reset, backlog, conn, receiverVars, diskVars, outcome, failed>>

\* fread has come to the end of the file: close.
Finish(s) ==
  /\ spc[s] = "send"
  /\ sent[s] = Len(Outgoing(s))
  /\ spc' = [spc EXCEPT ![s] = "sent"]
  /\ UNCHANGED <<fname, content, announced, sent, wire, reset, backlog, conn, receiverVars, diskVars, outcome, failed>>

\* fread gives nothing although the file was longer when stat saw it: somebody
\* has cut it off, reading fails, or it is a directory, which opens with "rb" and
\* cannot be read.  The loop ends as at the end of the file.
FinishEarly(s) ==
  /\ spc[s] = "send"
  /\ HeaderLength <= sent[s] /\ sent[s] < Len(Outgoing(s))
  /\ spc' = [spc EXCEPT ![s] = "sent"]
  /\ failed' = [failed EXCEPT ![s] = @ \cup {"fread"}]
  /\ UNCHANGED <<fname, content, announced, sent, wire, reset, backlog, conn, receiverVars, diskVars, outcome>>

\* The user ends the sender; what it wrote still arrives.
Killed(s) ==
  /\ spc[s] = "send"
  /\ spc' = [spc EXCEPT ![s] = "killed"]
  /\ UNCHANGED <<fname, content, announced, sent, wire, reset, backlog, conn, receiverVars, diskVars, outcome, failed>>

-----------------------------------------------------------------------------
\* The receiver.

Accept ==
  /\ conn = None
  /\ backlog # << >>
  /\ conn' = Head(backlog)
  /\ backlog' = Tail(backlog)
  /\ rpc' = "header"
  /\ buf' = << >>
  /\ filename' = None /\ filesize' = 0 /\ received' = 0
  /\ UNCHANGED <<senderVars, wire, reset, diskVars, outcome, failed>>

\* read returns 0: the peer is gone and nothing is left to read.
AtEnd == wire[conn] = << >> /\ spc[conn] \in {"sent", "killed"}

\* close(cli_fd) after handle_connection has returned.
CloseConnection(how) ==
  /\ outcome' = [outcome EXCEPT ![conn] = how]
  /\ reset' = [reset EXCEPT ![conn] = TRUE]
  /\ wire' = [wire EXCEPT ![conn] = << >>]
  /\ conn' = None

\* Faulty variant: the header ends one unit later.
HeaderEndTooFar(b) ==
  IF \E i \in 1..(Len(b) - 1) : b[i] = NL /\ b[i + 1] = NL
  THEN 2 + CHOOSE i \in 1..(Len(b) - 1) :
             b[i] = NL /\ b[i + 1] = NL /\ \A j \in 1..(i - 1) : b[j] # NL \/ b[j + 1] # NL
  ELSE 0

\* Where the first "\n\n" ends, 0 if there is none.
HeaderEnd(b) ==
  IF \E i \in 1..(Len(b) - 1) : b[i] = NL /\ b[i + 1] = NL
  THEN 1 + CHOOSE i \in 1..(Len(b) - 1) :
             b[i] = NL /\ b[i + 1] = NL /\ \A j \in 1..(i - 1) : b[j] # NL \/ b[j + 1] # NL
  ELSE 0

\* Faulty variant: a read may be as long as the whole buffer each time.
ReadHeaderOverrun ==
  /\ conn # None /\ rpc = "header" /\ HeaderEnd(buf) = 0
  /\ \E n \in 1..(BUF_SIZE - 1) :
       /\ n <= Len(wire[conn])
       /\ buf' = buf \o SubSeq(wire[conn], 1, n)
       /\ wire' = [wire EXCEPT ![conn] = SubSeq(@, n + 1, Len(@))]
  /\ UNCHANGED <<senderVars, reset, backlog, conn, rpc, filename, filesize, received, diskVars, outcome, failed>>

ReadHeader ==
  /\ conn # None /\ rpc = "header" /\ HeaderEnd(buf) = 0
  /\ \E n \in 1..(BUF_SIZE - 1 - Len(buf)) :
       /\ n <= Len(wire[conn])
       /\ buf' = buf \o SubSeq(wire[conn], 1, n)
       /\ wire' = [wire EXCEPT ![conn] = SubSeq(@, n + 1, Len(@))]
  /\ UNCHANGED <<senderVars, reset, backlog, conn, rpc, filename, filesize, received, diskVars, outcome, failed>>

\* Faulty variant: the loop goes on reading after the end of the stream.
NoHeaderLoops ==
  /\ conn # None /\ rpc = "header" /\ HeaderEnd(buf) = 0
  /\ AtEnd
  /\ UNCHANGED vars

\* The stream ends before the header does: parse_header returns -1.
NoHeader ==
  /\ conn # None /\ rpc = "header" /\ HeaderEnd(buf) = 0
  /\ AtEnd
  /\ CloseConnection("invalid")
  /\ UNCHANGED <<senderVars, backlog, receiverVars, diskVars, failed>>

\* parse_header: the fields of the header.
FieldOf(b, end, key) == b[CHOOSE i \in 1..end : b[i][1] = key][2]

\* fwrite of some units behind what the file has: when the disk has no room
\* only the first of them are stored, which nobody looks at.  (What stdio keeps
\* back until fclose counts as stored here.)
Store(name, old, units) ==
  \E k \in 0..Len(units) :
    /\ saved' = [saved EXCEPT ![name] = old \o SubSeq(units, 1, k)]
    /\ failed' = IF k = Len(units) THEN failed
                 ELSE [failed EXCEPT ![conn] = @ \cup {"fwrite"}]

\* The file is opened, which empties it, and gets what came with the header.
OpenFile ==
  LET end == HeaderEnd(buf)
      name == FieldOf(buf, end, "name") IN
  /\ conn # None /\ rpc = "header" /\ end > 0
  /\ filename' = name
  /\ filesize' = FieldOf(buf, end, "size")
  /\ received' = Len(buf) - end
  /\ Store(name, << >>, SubSeq(buf, end + 1, Len(buf)))
  /\ writer' = [writer EXCEPT ![name] = conn]
  /\ rpc' = "body"
  /\ buf' = << >>
  /\ UNCHANGED <<senderVars, wire, reset, backlog, conn, outcome>>

\* fopen fails.
OpenFails ==
  /\ conn # None /\ rpc = "header" /\ HeaderEnd(buf) > 0
  /\ CloseConnection("refused")
  /\ UNCHANGED <<senderVars, backlog, receiverVars, diskVars, failed>>

ReadBody ==
  /\ conn # None /\ rpc = "body" /\ received < filesize
  /\ \E n \in 1..BUF_SIZE :
       /\ n <= Len(wire[conn])
       /\ Store(filename, saved[filename], SubSeq(wire[conn], 1, n))
       /\ received' = received + n
       /\ wire' = [wire EXCEPT ![conn] = SubSeq(@, n + 1, Len(@))]
  /\ UNCHANGED <<senderVars, reset, backlog, conn, rpc, buf, filename, filesize, writer, outcome>>

\* Faulty variant: a moment without data is taken for the end of the file.
SaveTooSoon ==
  /\ conn # None /\ rpc = "body"
  /\ received >= filesize \/ wire[conn] = << >>
  /\ CloseConnection("saved")
  /\ UNCHANGED <<senderVars, backlog, receiverVars, diskVars, failed>>

\* "Lưu xong", whether all bytes have come or the stream has ended.
Save ==
  /\ conn # None /\ rpc = "body"
  /\ received >= filesize \/ AtEnd
  /\ CloseConnection("saved")
  /\ UNCHANGED <<senderVars, backlog, receiverVars, diskVars, failed>>

\* read fails, be it in the loop for the header or in the one for the file; each
\* ends as it does at the end of the stream.
ReadFails ==
  /\ conn # None
  /\ \/ rpc = "header" /\ HeaderEnd(buf) = 0 /\ CloseConnection("invalid")
     \/ rpc = "body" /\ received < filesize /\ CloseConnection("saved")
  /\ failed' = [failed EXCEPT ![conn] = @ \cup {"read"}]
  /\ UNCHANGED <<senderVars, backlog, receiverVars, diskVars>>

Receiver ==
  \/ Accept \/ ReadHeader \/ NoHeader \/ OpenFile \/ OpenFails \/ ReadBody \/ Save

-----------------------------------------------------------------------------

SenderSteps(s) == Connect(s) \/ Put(s) \/ Finish(s)

Next ==
  \/ \E s \in Senders : Open(s) \/ Grow(s) \/ FinishEarly(s) \/ Killed(s) \/ SenderSteps(s)
  \/ Receiver \/ ReadFails

\* A running program goes on; nobody has to start or to kill a sender, and no
\* call has to fail.
Fairness == WF_vars(Receiver) /\ \A s \in Senders : WF_vars(SenderSteps(s))

Spec == Init /\ [][Next]_vars /\ Fairness

-----------------------------------------------------------------------------

TypeOK ==
  /\ fname \in [Senders -> Names]
  /\ \A s \in Senders : content[s] \in Seq({NL, Byte})
  /\ spc \in [Senders -> {"off", "connect", "send", "sent", "killed"}]
  /\ announced \in [Senders -> Nat]
  /\ \A s \in Senders : sent[s] \in 0..Len(Outgoing(s))
  /\ \A s \in Senders : Len(wire[s]) <= Window
  /\ reset \in [Senders -> BOOLEAN]
  /\ backlog \in Seq(Senders) /\ Len(backlog) <= BACKLOG
  /\ conn \in Senders \cup {None}
  /\ rpc \in {"header", "body"}
  /\ Len(buf) <= BUF_SIZE - 1
  /\ filename \in Names \cup {None} /\ filesize \in Nat /\ received \in Nat
  /\ \A n \in Names : saved[n] \in Seq({NL, Byte})
  /\ writer \in [Names -> Senders \cup {None}]
  /\ outcome \in [Senders -> {"none", "invalid", "refused", "saved"}]
  /\ failed \in [Senders -> SUBSET Calls]

\* However the stream is cut into reads and wherever it ends, a saved file holds
\* the sender's bytes from the first on: none of the header, none lost, doubled
\* or out of order.  Only a failing fwrite leaves a gap, which the code does not
\* notice.
SavedIsPrefix ==
  \A n \in Names :
    writer[n] # None /\ "fwrite" \notin failed[writer[n]] =>
      /\ Len(saved[n]) <= Len(content[writer[n]])
      /\ saved[n] = SubSeq(content[writer[n]], 1, Len(saved[n]))

\* What the receiver reports as saved has at least the announced size, unless
\* the sender was killed, one of the unchecked calls failed, or a later sender
\* has written a file of that name.  In these cases it reports a short file.
SavedIsWhole ==
  \A s \in Senders :
    outcome[s] = "saved" /\ writer[fname[s]] = s /\ Len(saved[fname[s]]) < announced[s] =>
      spc[s] = "killed" \/ failed[s] # {}

\* Every connection is served in the end, behind senders that were killed or
\* refused too.
EveryConnectionServed ==
  \A s \in Senders : spc[s] = "send" ~> outcome[s] # "none"
=============================================================================
