------------------------- MODULE FileTransferProofs -------------------------
(***************************************************************************)
(* Theorems about the file transfer, for any number of senders, any files, *)
(* any size of the receiver's buffer and any way the streams are cut.      *)
(*                                                                         *)
(* The argument follows the units of a connection.  Those on the wire are  *)
(* the next ones of what the sender writes (WireInv); those the receiver   *)
(* has taken off it lie in its buffer while it looks for the header        *)
(* (HeadInv) and in the file afterwards (BodyInv).                         *)
(***************************************************************************)
EXTENDS FileTransfer, SequenceTheorems, TLAPS

Bytes == {NL, Byte}
Unit == Bytes \cup {NameField(n) : n \in Names} \cup {SizeField(k) : k \in Nat}

\* The state's types, also where TypeOK leaves them open.
TypeInv ==
  /\ fname \in [Senders -> Names]
  /\ content \in [Senders -> Seq(Bytes)]
  /\ spc \in [Senders -> {"off", "connect", "send", "sent", "killed"}]
  /\ announced \in [Senders -> Nat]
  /\ sent \in [Senders -> Nat]
  /\ wire \in [Senders -> Seq(Unit)]
  /\ reset \in [Senders -> BOOLEAN]
  /\ backlog \in Seq(Senders) /\ Len(backlog) <= BACKLOG
  /\ conn \in Senders \cup {None}
  /\ rpc \in {"header", "body"}
  /\ buf \in Seq(Unit) /\ Len(buf) <= BUF_SIZE - 1
  /\ filename \in Names \cup {None} /\ filesize \in Nat /\ received \in Nat
  /\ saved \in [Names -> Seq(Bytes)]
  /\ writer \in [Names -> Senders \cup {None}]
  /\ outcome \in [Senders -> {"none", "invalid", "refused", "saved"}]
  /\ failed \in [Senders -> SUBSET Calls]

\* A connection waits, is served or has been closed, once and in this order.
QueueInv ==
  /\ \A s \in Senders :
       spc[s] \in {"off", "connect"} =>
         /\ s # conn /\ ~reset[s] /\ sent[s] = 0
         /\ \A i \in 1..Len(backlog) : backlog[i] # s
  /\ \A i \in 1..Len(backlog) :
       /\ backlog[i] # conn /\ ~reset[backlog[i]]
       /\ \A j \in 1..Len(backlog) : backlog[i] = backlog[j] => i = j
  /\ conn # None => ~reset[conn]
  /\ \A s \in Senders : outcome[s] # "none" => reset[s]

\* Units that were taken off the connection of s, or lost after a reset.
Taken(s) == sent[s] - Len(wire[s])

\* What is on the wire are the next units of the stream.
WireInv ==
  \A s \in Senders :
    /\ Len(wire[s]) <= sent[s] /\ Len(wire[s]) <= Window
    /\ sent[s] <= Len(Outgoing(s))
    /\ ~reset[s] =>
         /\ \A k \in 1..Len(wire[s]) : wire[s][k] = Outgoing(s)[Taken(s) + k]
         /\ s # conn => Taken(s) = 0

\* What a sender has announced it has, and it ends after its last unit unless
\* reading its file failed.
SizeInv ==
  \A s \in Senders :
    /\ spc[s] # "off" => announced[s] <= Len(content[s])
    /\ spc[s] = "sent" /\ "fread" \notin failed[s] => sent[s] = Len(Outgoing(s))

\* While the receiver looks for the header it keeps all it has taken.
HeadInv ==
  conn # None /\ rpc = "header" =>
    /\ Len(buf) = Taken(conn)
    /\ \A k \in 1..Len(buf) : buf[k] = Outgoing(conn)[k]

\* Then it knows the header, and all the rest it has taken is in the file,
\* unless storing some of it failed.
BodyInv ==
  conn # None /\ rpc = "body" =>
    /\ filename = fname[conn] /\ filesize = announced[conn]
    /\ writer[filename] = conn
    /\ "fwrite" \notin failed[conn] => Len(saved[filename]) = received
    /\ Taken(conn) = HeaderLength + received

\* SavedIsPrefix, byte by byte.
PrefixInv ==
  \A n \in Names :
    writer[n] # None /\ "fwrite" \notin failed[writer[n]] =>
      /\ Len(saved[n]) <= Len(content[writer[n]])
      /\ \A k \in 1..Len(saved[n]) : saved[n][k] = content[writer[n]][k]

Inv ==
  /\ TypeInv /\ QueueInv /\ WireInv /\ SizeInv
  /\ HeadInv /\ BodyInv /\ PrefixInv /\ SavedIsWhole

-----------------------------------------------------------------------------
\* The parts of a stream: a header of five units, then the bytes of the file.
LEMMA StreamUnits ==
  ASSUME NEW n \in Names, NEW a \in Nat, NEW c \in Seq(Bytes)
  PROVE  LET h == <<NameField(n), NL, SizeField(a), NL, NL>>
             o == h \o c
         IN  /\ o \in Seq(Unit)
             /\ Len(o) = 5 + Len(c)
             /\ o[1] = NameField(n) /\ o[2] = NL /\ o[3] = SizeField(a)
             /\ o[4] = NL /\ o[5] = NL
             /\ \A k \in 1..Len(c) : o[5 + k] = c[k]
<1> DEFINE h == <<NameField(n), NL, SizeField(a), NL, NL>>
<1>1. /\ NL \in Unit /\ NameField(n) \in Unit /\ SizeField(a) \in Unit
      /\ Bytes \subseteq Unit
  BY DEF Unit, Bytes
<1>2. h \in Seq(Unit) /\ Len(h) = 5
  BY <1>1
<1>3. c \in Seq(Unit) /\ Len(c) \in Nat
  BY <1>1, SeqMonotonic, LenProperties
<1>4. /\ h[1] = NameField(n) /\ h[2] = NL /\ h[3] = SizeField(a)
      /\ h[4] = NL /\ h[5] = NL
  OBVIOUS
<1> HIDE DEF h
<1>5. /\ h \o c \in Seq(Unit)
      /\ Len(h \o c) = 5 + Len(c)
      /\ \A k \in 1..(5 + Len(c)) :
           (h \o c)[k] = IF k <= 5 THEN h[k] ELSE c[k - 5]
  <2>1. /\ h \o c \in Seq(Unit)
        /\ Len(h \o c) = Len(h) + Len(c)
        /\ \A k \in 1..(Len(h) + Len(c)) :
             (h \o c)[k] = IF k <= Len(h) THEN h[k] ELSE c[k - Len(h)]
    BY <1>2, <1>3, ConcatProperties
  <2> QED BY <1>2, <2>1
<1>6. \A k \in 1..Len(c) : (h \o c)[5 + k] = c[k]
  BY <1>3, <1>5
<1> QED BY <1>3, <1>4, <1>5, <1>6 DEF h

\* What each sender writes, now and after any step.
StreamShape ==
  \A s \in Senders :
    /\ Outgoing(s) \in Seq(Unit)
    /\ Len(Outgoing(s)) = 5 + Len(content[s])
    /\ Len(content[s]) \in Nat /\ Len(Outgoing(s)) \in Nat
    /\ Outgoing(s)[1] = NameField(fname[s])
    /\ Outgoing(s)[2] = NL
    /\ Outgoing(s)[3] = SizeField(announced[s])
    /\ Outgoing(s)[4] = NL /\ Outgoing(s)[5] = NL
    /\ \A k \in 1..Len(content[s]) : Outgoing(s)[5 + k] = content[s][k]

LEMMA OutgoingUnits == TypeInv => StreamShape
  BY StreamUnits, LenProperties, SMTT(30) DEF StreamShape, Outgoing, Header, TypeInv

LEMMA OutgoingUnitsNext == TypeInv' => StreamShape'
  BY OutgoingUnits, PTL

\* Where the receiver finds the end of the header and its fields, in any first
\* part of a stream.
LEMMA HeaderFound ==
  ASSUME NEW n \in Names, NEW a \in Nat, NEW b \in Seq(Unit),
         1 <= Len(b) => b[1] = NameField(n),
         2 <= Len(b) => b[2] = NL,
         3 <= Len(b) => b[3] = SizeField(a),
         4 <= Len(b) => b[4] = NL,
         5 <= Len(b) => b[5] = NL
  PROVE  /\ Len(b) < 5 => HeaderEnd(b) = 0
         /\ Len(b) >= 5 => /\ HeaderEnd(b) = 5
                           /\ FieldOf(b, 5, "name") = n
                           /\ FieldOf(b, 5, "size") = a
<1>1. Len(b) \in Nat
  BY LenProperties
<1>2. NameField(n) # NL /\ SizeField(a) # NL
  BY DEF NameField, SizeField, NL
<1>3. \A i \in 1..(Len(b) - 1) : b[i] = NL /\ b[i + 1] = NL => i >= 4
  BY <1>1, <1>2
<1>4. CASE Len(b) < 5
  BY <1>1, <1>3, <1>4 DEF HeaderEnd
<1>5. CASE Len(b) >= 5
  <2> DEFINE P(i) ==
        b[i] = NL /\ b[i + 1] = NL /\ \A j \in 1..(i - 1) : b[j] # NL \/ b[j + 1] # NL
             first == CHOOSE i \in 1..(Len(b) - 1) : P(i)
  <2>1. 4 \in 1..(Len(b) - 1) /\ P(4)
    BY <1>1, <1>3, <1>5
  <2>2. \A i \in 1..(Len(b) - 1) : P(i) => i = 4
    BY <1>1, <1>3, <2>1
  <2>3. first = 4
    <3> HIDE DEF P
    <3> QED BY <2>1, <2>2
  <2>4. HeaderEnd(b) = 5
    <3>1. \E i \in 1..(Len(b) - 1) : b[i] = NL /\ b[i + 1] = NL
      BY <2>1
    <3>2. HeaderEnd(b) = 1 + first
      BY <3>1, Zenon DEF HeaderEnd
    <3> HIDE DEF first
    <3> QED BY <2>3, <3>2
  <2>5. /\ b[1][1] = "name" /\ b[3][1] = "size"
        /\ b[2][1] = "nl" /\ b[4][1] = "nl" /\ b[5][1] = "nl"
        /\ b[1][2] = n /\ b[3][2] = a
    BY <1>1, <1>5 DEF NameField, SizeField, NL
  <2>6. (CHOOSE i \in 1..5 : b[i][1] = "name") = 1
    BY <2>5
  <2>7. (CHOOSE i \in 1..5 : b[i][1] = "size") = 3
    BY <2>5
  <2> QED BY <1>1, <1>5, <2>4, <2>5, <2>6, <2>7 DEF FieldOf
<1> QED BY <1>1, <1>4, <1>5

\* A read takes n units off the front of w ...
LEMMA RestUnits ==
  ASSUME NEW S, NEW w, Len(w) \in Nat, NEW n \in Nat, n <= Len(w),
         \A k \in (n + 1)..Len(w) : w[k] \in S
  PROVE  /\ SubSeq(w, n + 1, Len(w)) \in Seq(S)
         /\ Len(SubSeq(w, n + 1, Len(w))) = Len(w) - n
         /\ \A k \in 1..(Len(w) - n) : SubSeq(w, n + 1, Len(w))[k] = w[n + k]
<1> DEFINE rest == SubSeq(w, n + 1, Len(w))
<1>1. /\ rest \in Seq(S)
      /\ Len(rest) = IF n + 1 <= Len(w) THEN Len(w) - (n + 1) + 1 ELSE 0
      /\ \A k \in 1..(Len(w) - (n + 1) + 1) : rest[k] = w[n + 1 + k - 1]
  BY SubSeqProperties
<1> HIDE DEF rest
<1>2. \A k \in 1..(Len(w) - n) : rest[k] = w[n + k]
  BY <1>1
<1>3. Len(rest) = Len(w) - n
  BY <1>1
<1> QED BY <1>1, <1>2, <1>3 DEF rest

\* ... and puts them behind b.
LEMMA ReadUnits ==
  ASSUME NEW T, NEW w, NEW n \in Nat, 1 <= n, \A k \in 1..n : w[k] \in T,
         NEW b \in Seq(T)
  PROVE  /\ b \o SubSeq(w, 1, n) \in Seq(T)
         /\ Len(b \o SubSeq(w, 1, n)) = Len(b) + n
         /\ \A k \in 1..Len(b) : (b \o SubSeq(w, 1, n))[k] = b[k]
         /\ \A k \in 1..n : (b \o SubSeq(w, 1, n))[Len(b) + k] = w[k]
<1> DEFINE new == SubSeq(w, 1, n)
<1>1. Len(b) \in Nat
  BY LenProperties
<1>2. /\ new \in Seq(T)
      /\ Len(new) = n
      /\ \A k \in 1..n : new[k] = w[k]
  <2>1. /\ new \in Seq(T)
        /\ Len(new) = IF 1 <= n THEN n - 1 + 1 ELSE 0
        /\ \A k \in 1..(n - 1 + 1) : new[k] = w[1 + k - 1]
    BY SubSeqProperties
  <2> HIDE DEF new
  <2> QED BY <2>1
<1> HIDE DEF new
<1>3. /\ b \o new \in Seq(T)
      /\ Len(b \o new) = Len(b) + n
      /\ \A k \in 1..(Len(b) + n) :
           (b \o new)[k] = IF k <= Len(b) THEN b[k] ELSE new[k - Len(b)]
  BY <1>2, ConcatProperties
<1>4. /\ \A k \in 1..Len(b) : (b \o new)[k] = b[k]
      /\ \A k \in 1..n : (b \o new)[Len(b) + k] = w[k]
  BY <1>1, <1>2, <1>3
<1> QED BY <1>3, <1>4 DEF new

-----------------------------------------------------------------------------
\* As long as nobody changes a file or its header, a stream stays the same.
LEMMA SameOutgoing ==
  UNCHANGED <<fname, content, announced>> =>
    \A s \in Senders : Outgoing(s)' = Outgoing(s)
  BY DEF Outgoing, Header

\* Lengths are numbers.
LEMMA Lengths ==
  ASSUME TypeInv
  PROVE  /\ \A s \in Senders : Len(wire[s]) \in Nat /\ Len(content[s]) \in Nat
         /\ \A n \in Names : Len(saved[n]) \in Nat
         /\ Len(buf) \in Nat /\ Len(backlog) \in Nat
  BY LenProperties DEF TypeInv

LEMMA InitInv == Init => Inv
<1> SUFFICES ASSUME Init PROVE Inv
  OBVIOUS
<1>1. TypeInv
  <2>1. \A S : << >> \in Seq(S) /\ Len(<< >>) = 0
    BY EmptySeq
  <2> QED
    BY <2>1, ContentsAssumption, BufferAssumption, BoundsAssumption
    DEF Init, TypeInv, Bytes, HeaderLength
<1>2. \A s \in Senders : Len(Outgoing(s)) \in Nat
  BY <1>1, OutgoingUnits DEF StreamShape
<1>3. QueueInv
  BY BoundsAssumption DEF Init, QueueInv
<1>4. WireInv
  <2>1. \A s \in Senders : Len(wire[s]) = 0 /\ sent[s] = 0
    BY EmptySeq DEF Init
  <2>2. 0 <= Window /\ 1..0 = {} /\ 0 - 0 = 0
    BY BoundsAssumption
  <2>3. ASSUME NEW s \in Senders
        PROVE  Taken(s) = 0 /\ 0 <= Len(Outgoing(s)) /\ 1..Len(wire[s]) = {}
    BY <1>2, <2>1, <2>2 DEF Taken
  <2>4. ASSUME NEW s \in Senders
        PROVE  Len(wire[s]) <= sent[s] /\ Len(wire[s]) <= Window
    BY <2>1, <2>2
  <2>5. ASSUME NEW s \in Senders
        PROVE  /\ sent[s] <= Len(Outgoing(s))
               /\ \A k \in 1..Len(wire[s]) : wire[s][k] = Outgoing(s)[Taken(s) + k]
    BY <2>1, <2>3
  <2> QED BY <2>3, <2>4, <2>5, Zenon DEF WireInv
<1> QED
  BY <1>1, <1>3, <1>4
  DEF Init, Inv, SizeInv, HeadInv, BodyInv, PrefixInv, SavedIsWhole

\* The sender opens its file: its header is settled now, and nothing of it
\* has been written.
LEMMA OpenStep == ASSUME Inv, NEW s \in Senders, Open(s) PROVE Inv'
<1> USE DEF Inv, Open, receiverVars, diskVars
<1>1. Len(content[s]) \in Nat
  BY LenProperties DEF TypeInv
<1>2. TypeInv'
  BY <1>1 DEF TypeInv
<1>3. QueueInv'
  BY DEF TypeInv, QueueInv
<1>4. \A t \in Senders \ {s} : Outgoing(t)' = Outgoing(t)
  BY DEF TypeInv, Outgoing, Header
<1>5. Len(Outgoing(s)') \in Nat /\ Len(Outgoing(s)) \in Nat
  BY <1>2, OutgoingUnits, OutgoingUnitsNext DEF StreamShape
<1>6. sent[s] = 0 /\ Len(wire[s]) = 0 /\ s # conn
  BY Lengths DEF TypeInv, QueueInv, WireInv
<1>7. WireInv'
  <2>1. \A t \in Senders : Taken(t)' = Taken(t)
    BY DEF Taken
  <2>2. ASSUME NEW t \in Senders, t # s
        PROVE  /\ sent[t] <= Len(Outgoing(t)')
               /\ ~reset[t] => \A k \in 1..Len(wire[t]) :
                                 wire[t][k] = Outgoing(t)'[Taken(t) + k]
    BY <1>4, <2>2 DEF WireInv
  <2>3. sent[s] <= Len(Outgoing(s)') /\ 1..Len(wire[s]) = {}
    BY <1>5, <1>6
  <2> QED BY <2>1, <2>2, <2>3 DEF WireInv
<1>8. SizeInv'
  BY <1>1, <1>4, SMTT(30) DEF TypeInv, SizeInv
<1>9. HeadInv' /\ BodyInv'
  BY <1>4, <1>6 DEF TypeInv, HeadInv, BodyInv, Taken
<1>10. PrefixInv'
  BY DEF PrefixInv
<1>11. SavedIsWhole'
  BY <1>6 DEF TypeInv, QueueInv, SavedIsWhole
<1> QED BY <1>2, <1>3, <1>7, <1>8, <1>9, <1>10, <1>11

\* The file gets longer: what has been written of it is its beginning still.
LEMMA GrowStep == ASSUME Inv, NEW s \in Senders, Grow(s) PROVE Inv'
<1> USE DEF Inv, Grow, receiverVars, diskVars
<1> DEFINE c == content[s]
<1>1. c \in Seq(Bytes) /\ Byte \in Bytes /\ Len(c) \in Nat
  BY LenProperties DEF TypeInv, Bytes
<1>2. /\ content' = [content EXCEPT ![s] = Append(c, Byte)]
      /\ Append(c, Byte) \in Seq(Bytes)
      /\ Len(Append(c, Byte)) = Len(c) + 1
      /\ \A k \in 1..Len(c) : Append(c, Byte)[k] = c[k]
  BY <1>1, AppendProperties
<1> HIDE DEF c
<1>3. TypeInv'
  BY <1>2 DEF TypeInv
<1>4. \A t \in Senders :
        /\ Len(content'[t]) >= Len(content[t])
        /\ \A k \in 1..Len(content[t]) : content'[t][k] = content[t][k]
  <2>1. \A t \in Senders : content[t] \in Seq(Bytes) /\ Len(content[t]) \in Nat
    BY LenProperties DEF TypeInv
  <2> QED BY <1>1, <1>2, <2>1, SMTT(30) DEF TypeInv, c
<1>5. ASSUME NEW t \in Senders
      PROVE  /\ Len(Outgoing(t)) \in Nat
             /\ Len(Outgoing(t)') >= Len(Outgoing(t))
             /\ \A k \in 1..Len(Outgoing(t)) : Outgoing(t)'[k] = Outgoing(t)[k]
             /\ t # s => Outgoing(t)' = Outgoing(t)
  <2> DEFINE o == Outgoing(t)
             p == Outgoing(t)'
             d == content[t]
             e == content'[t]
  <2>1. /\ Len(o) = 5 + Len(d) /\ Len(d) \in Nat
        /\ o[1] = NameField(fname[t]) /\ o[2] = NL /\ o[3] = SizeField(announced[t])
        /\ o[4] = NL /\ o[5] = NL
        /\ \A k \in 1..Len(d) : o[5 + k] = d[k]
    BY OutgoingUnits DEF StreamShape
  <2>2. /\ Len(p) = 5 + Len(e) /\ Len(e) \in Nat
        /\ p[1] = NameField(fname[t]) /\ p[2] = NL /\ p[3] = SizeField(announced[t])
        /\ p[4] = NL /\ p[5] = NL
        /\ \A k \in 1..Len(e) : p[5 + k] = e[k]
    BY <1>3, OutgoingUnitsNext DEF StreamShape
  <2>3. t # s => p = o
    BY DEF TypeInv, Outgoing, Header
  <2>4. Len(e) >= Len(d) /\ \A k \in 1..Len(d) : e[k] = d[k]
    BY <1>4
  <2> HIDE DEF o, p, d, e
  <2>5. \A k \in 1..Len(o) : p[k] = o[k]
    <3> SUFFICES ASSUME NEW k \in 1..Len(o) PROVE p[k] = o[k]
      OBVIOUS
    <3>1. CASE k \in {1, 2, 3, 4, 5}
      BY <2>1, <2>2, <3>1
    <3>2. CASE k > 5
      <4>1. k - 5 \in 1..Len(d) /\ k - 5 \in 1..Len(e) /\ k = 5 + (k - 5)
        BY <2>1, <2>2, <2>4, <3>2
      <4> QED BY <2>1, <2>2, <2>4, <4>1
    <3> QED BY <2>1, <3>1, <3>2
  <2> QED BY <2>1, <2>2, <2>3, <2>4, <2>5 DEF o, p
<1>6. QueueInv'
  BY DEF TypeInv, QueueInv
<1>7. WireInv'
  <2>1. \A t \in Senders : Taken(t)' = Taken(t)
    BY DEF Taken
  <2>2. ASSUME NEW t \in Senders, ~reset[t], NEW k \in 1..Len(wire[t])
        PROVE  wire[t][k] = Outgoing(t)'[Taken(t) + k]
    <3>1. Taken(t) + k \in 1..Len(Outgoing(t))
      <4>1. /\ sent[t] \in Nat /\ Len(wire[t]) \in Nat /\ Len(Outgoing(t)) \in Nat
            /\ Len(wire[t]) <= sent[t] /\ sent[t] <= Len(Outgoing(t))
        BY <1>5, Lengths DEF TypeInv, WireInv
      <4> QED BY <4>1 DEF Taken
    <3> QED BY <1>5, <2>2, <3>1 DEF WireInv
  <2>3. ASSUME NEW t \in Senders PROVE sent[t] <= Len(Outgoing(t)')
    <3>1. Len(Outgoing(t)') \in Nat
      BY <1>3, OutgoingUnitsNext DEF StreamShape
    <3>2. sent[t] \in Nat /\ sent[t] <= Len(Outgoing(t))
      BY DEF TypeInv, WireInv
    <3> QED BY <1>5, <3>1, <3>2
  <2> QED BY <2>1, <2>2, <2>3 DEF WireInv
<1>8. SizeInv'
  <2> SUFFICES ASSUME NEW t \in Senders
               PROVE  /\ spc[t] # "off" => announced[t] <= Len(content'[t])
                      /\ spc[t] = "sent" /\ "fread" \notin failed[t] =>
                           sent[t] = Len(Outgoing(t)')
    BY DEF SizeInv
  <2>1. /\ announced[t] \in Nat /\ Len(content[t]) \in Nat /\ Len(content'[t]) \in Nat
        /\ Len(content'[t]) >= Len(content[t])
    BY <1>3, <1>4, Lengths, LenProperties DEF TypeInv
  <2>2. spc[t] = "sent" => t # s
    OBVIOUS
  <2> QED BY <1>5, <2>1, <2>2 DEF SizeInv
<1>9. HeadInv'
  <2> SUFFICES ASSUME conn # None, rpc = "header"
               PROVE  /\ Len(buf) = Taken(conn)'
                      /\ \A k \in 1..Len(buf) : buf[k] = Outgoing(conn)'[k]
    BY DEF HeadInv
  <2>1. conn \in Senders /\ conn' = conn
    BY DEF TypeInv
  <2>2. Len(buf) = Taken(conn) /\ Taken(conn) <= Len(Outgoing(conn))
    BY <1>5, <2>1, LenProperties, SMTT(30) DEF HeadInv, TypeInv, WireInv, Taken
  <2> QED BY <1>5, <2>1, <2>2 DEF HeadInv, Taken
<1>10. BodyInv'
  BY DEF BodyInv, Taken
<1>11. PrefixInv'
  <2> SUFFICES ASSUME NEW n \in Names, writer[n] # None, "fwrite" \notin failed[writer[n]]
               PROVE  /\ Len(saved[n]) <= Len(content'[writer[n]])
                      /\ \A k \in 1..Len(saved[n]) : saved[n][k] = content'[writer[n]][k]
    BY DEF PrefixInv
  <2>1. writer[n] \in Senders
    BY DEF TypeInv
  <2>2. /\ Len(saved[n]) \in Nat /\ Len(content[writer[n]]) \in Nat
        /\ Len(content'[writer[n]]) \in Nat
    BY <1>3, <2>1, LenProperties DEF TypeInv
  <2> QED BY <1>4, <2>1, <2>2 DEF PrefixInv
<1>12. SavedIsWhole'
  BY DEF SavedIsWhole
<1> QED BY <1>3, <1>6, <1>7, <1>8, <1>9, <1>10, <1>11, <1>12

\* The connection is made and waits behind the others.
LEMMA ConnectStep == ASSUME Inv, NEW s \in Senders, Connect(s) PROVE Inv'
<1> USE DEF Inv, Connect, receiverVars, diskVars
<1>1. /\ backlog' \in Seq(Senders)
      /\ Len(backlog') = Len(backlog) + 1
      /\ \A i \in 1..Len(backlog) : backlog'[i] = backlog[i]
      /\ backlog'[Len(backlog) + 1] = s
  BY AppendProperties DEF TypeInv
<1>2. Len(backlog) \in Nat
  BY Lengths
<1>3. TypeInv'
  BY <1>1, <1>2, BoundsAssumption, SMTT(30) DEF TypeInv
<1>4. QueueInv'
  <2>1. /\ s # conn /\ ~reset[s]
        /\ \A i \in 1..Len(backlog) : backlog[i] # s
    BY DEF QueueInv
  <2>2. \A i \in 1..Len(backlog') : i \in 1..Len(backlog) \/ i = Len(backlog) + 1
    BY <1>1, <1>2
  <2>3. \A t \in Senders : spc'[t] \in {"off", "connect"} =>
          spc[t] \in {"off", "connect"} /\ t # s
    BY DEF TypeInv
  <2> QED BY <1>1, <1>2, <2>1, <2>2, <2>3 DEF QueueInv
<1>5. \A t \in Senders : Outgoing(t)' = Outgoing(t) /\ Taken(t)' = Taken(t)
  BY SameOutgoing DEF Taken
<1>6. WireInv'
  BY <1>5 DEF WireInv
<1>7. SizeInv'
  BY <1>5 DEF TypeInv, SizeInv
<1>8. HeadInv' /\ BodyInv'
  BY <1>5 DEF TypeInv, HeadInv, BodyInv
<1>9. PrefixInv' /\ SavedIsWhole'
  BY DEF TypeInv, PrefixInv, SavedIsWhole
<1> QED BY <1>3, <1>4, <1>6, <1>7, <1>8, <1>9

\* A unit goes onto the wire, or is lost behind a reset.
LEMMA PutStep == ASSUME Inv, NEW s \in Senders, Put(s) PROVE Inv'
<1> USE DEF Inv, Put, receiverVars, diskVars
<1> DEFINE w == wire[s]
           x == Outgoing(s)[sent[s] + 1]
<1>1. /\ sent[s] \in Nat /\ Len(w) \in Nat /\ Len(Outgoing(s)) \in Nat
      /\ Len(w) <= sent[s] /\ sent[s] < Len(Outgoing(s)) /\ Len(w) <= Window
      /\ Window \in Nat
  BY Lengths, OutgoingUnits, BoundsAssumption DEF StreamShape, TypeInv, WireInv
<1>2. w \in Seq(Unit) /\ x \in Unit
  <2>1. Outgoing(s) \in Seq(Unit) /\ sent[s] + 1 \in 1..Len(Outgoing(s))
    BY <1>1, OutgoingUnits DEF StreamShape
  <2> QED BY <2>1, ElementOfSeq DEF TypeInv
<1>3. /\ Append(w, x) \in Seq(Unit)
      /\ Len(Append(w, x)) = Len(w) + 1
      /\ \A k \in 1..Len(w) : Append(w, x)[k] = w[k]
      /\ Append(w, x)[Len(w) + 1] = x
  BY <1>2, AppendProperties
<1>4. \A t \in Senders : Outgoing(t)' = Outgoing(t)
  BY SameOutgoing
<1>5. /\ sent' = [sent EXCEPT ![s] = sent[s] + 1]
      /\ spc[s] = "send"
      /\ \A t \in Senders : spc'[t] = spc[t] \/ (t = s /\ spc'[t] = "killed")
      /\ spc' \in [Senders -> {"off", "connect", "send", "sent", "killed"}]
  BY DEF TypeInv
<1>6. \/ ~reset[s] /\ wire' = [wire EXCEPT ![s] = Append(w, x)] /\ Len(w) < Window
      \/ reset[s] /\ wire' = wire
  OBVIOUS
<1>7. TypeInv'
  <2>1. sent' \in [Senders -> Nat]
    BY <1>1, <1>5, SMTT(30) DEF TypeInv
  <2>2. wire' \in [Senders -> Seq(Unit)]
    BY <1>3, <1>6 DEF TypeInv
  <2> QED BY <1>5, <2>1, <2>2 DEF TypeInv
<1>8. QueueInv'
  <2>1. \A t \in Senders : spc'[t] \in {"off", "connect"} =>
          spc[t] \in {"off", "connect"} /\ t # s
    BY <1>5
  <2>2. \A t \in Senders \ {s} : sent'[t] = sent[t]
    BY <1>5 DEF TypeInv
  <2> QED BY <2>1, <2>2 DEF QueueInv
<1>9. \A t \in Senders \ {s} : wire'[t] = wire[t] /\ sent'[t] = sent[t] /\ Taken(t)' = Taken(t)
  BY <1>5, <1>6 DEF TypeInv, Taken
<1>10. /\ sent'[s] = sent[s] + 1
       /\ ~reset[s] => wire'[s] = Append(w, x)
       /\ reset[s] => wire'[s] = w
  BY <1>5, <1>6 DEF TypeInv
<1> HIDE DEF w, x
<1>11. /\ Len(wire'[s]) <= sent'[s] /\ Len(wire'[s]) <= Window
       /\ sent'[s] <= Len(Outgoing(s))
  BY <1>1, <1>3, <1>6, <1>10
<1>12. ~reset[s] => /\ Taken(s)' = Taken(s)
                    /\ \A k \in 1..Len(wire'[s]) : wire'[s][k] = Outgoing(s)[Taken(s) + k]
  <2> SUFFICES ASSUME ~reset[s]
               PROVE  /\ Taken(s)' = Taken(s)
                      /\ \A k \in 1..Len(wire'[s]) : wire'[s][k] = Outgoing(s)[Taken(s) + k]
    OBVIOUS
  <2>1. Taken(s)' = Taken(s) /\ Taken(s) + (Len(w) + 1) = sent[s] + 1
    BY <1>1, <1>3, <1>10 DEF Taken, w
  <2>2. \A k \in 1..Len(w) : w[k] = Outgoing(s)[Taken(s) + k]
    BY DEF WireInv, w
  <2>3. x = Outgoing(s)[Taken(s) + (Len(w) + 1)]
    BY <2>1 DEF x
  <2>4. \A k \in 1..Len(wire'[s]) : k \in 1..Len(w) \/ k = Len(w) + 1
    BY <1>1, <1>3, <1>10
  <2> QED BY <1>3, <1>10, <2>1, <2>2, <2>3, <2>4
<1>13. WireInv'
  <2>1. ASSUME NEW t \in Senders, t # s
        PROVE  /\ Len(wire'[t]) <= sent'[t] /\ Len(wire'[t]) <= Window
               /\ sent'[t] <= Len(Outgoing(t))
               /\ ~reset[t] =>
                    /\ \A k \in 1..Len(wire'[t]) : wire'[t][k] = Outgoing(t)[Taken(t)' + k]
                    /\ t # conn => Taken(t)' = 0
    BY <1>9, <2>1 DEF WireInv
  <2>2. ~reset[s] /\ s # conn => Taken(s)' = 0
    BY <1>12 DEF WireInv
  <2> QED BY <1>4, <1>11, <1>12, <2>1, <2>2 DEF WireInv
<1>14. SizeInv'
  BY <1>4, <1>5, <1>9 DEF SizeInv
<1>15. HeadInv' /\ BodyInv'
  <2>1. conn # None => ~reset[conn] /\ conn \in Senders
    BY DEF QueueInv, TypeInv
  <2>2. conn # None => Taken(conn)' = Taken(conn)
    BY <1>9, <1>12, <2>1 DEF Taken
  <2> QED BY <1>4, <2>1, <2>2 DEF HeadInv, BodyInv, Taken
<1>16. PrefixInv' /\ SavedIsWhole'
  BY <1>5 DEF TypeInv, PrefixInv, SavedIsWhole
<1> QED BY <1>7, <1>8, <1>13, <1>14, <1>15, <1>16

\* The sender ends, with all written or cut off, by a kill or by its file.
LEMMA EndStep ==
  ASSUME Inv, NEW s \in Senders, Finish(s) \/ FinishEarly(s) \/ Killed(s)
  PROVE  Inv'
<1> USE DEF Inv, receiverVars, diskVars
<1>1. /\ spc[s] = "send"
      /\ spc' = [spc EXCEPT ![s] = spc'[s]]
      /\ \/ spc'[s] = "killed"
         \/ spc'[s] = "sent" /\ (sent[s] = Len(Outgoing(s)) \/ "fread" \in failed'[s])
      /\ UNCHANGED <<fname, content, announced, sent, wire, reset, backlog, conn,
                     rpc, buf, filename, filesize, received, saved, writer, outcome>>
  BY DEF Finish, FinishEarly, Killed, TypeInv
<1>2. /\ failed' \in [Senders -> SUBSET Calls]
      /\ \A t \in Senders : failed[t] \subseteq failed'[t]
      /\ \A t \in Senders \ {s} : failed'[t] = failed[t]
      /\ \A t \in Senders : "fwrite" \in failed'[t] => "fwrite" \in failed[t]
  <2>1. failed \in [Senders -> SUBSET Calls]
    BY DEF TypeInv
  <2>2. CASE failed' = failed
    BY <2>1, <2>2
  <2>3. CASE failed' = [failed EXCEPT ![s] = @ \cup {"fread"}]
    BY <2>1, <2>3 DEF Calls
  <2> QED BY <2>2, <2>3 DEF Finish, FinishEarly, Killed
<1>3. TypeInv'
  BY <1>1, <1>2 DEF TypeInv
<1>4. QueueInv'
  <2>1. \A t \in Senders : spc'[t] \in {"off", "connect"} => spc[t] \in {"off", "connect"}
    BY <1>1 DEF TypeInv
  <2> QED BY <1>1, <2>1 DEF QueueInv
<1>5. \A t \in Senders : Outgoing(t)' = Outgoing(t) /\ Taken(t)' = Taken(t)
  BY <1>1, SameOutgoing DEF Taken
<1>6. WireInv'
  BY <1>1, <1>5 DEF WireInv
<1>7. SizeInv'
  BY <1>1, <1>2, <1>5 DEF TypeInv, SizeInv
<1>8. HeadInv' /\ BodyInv'
  BY <1>1, <1>2, <1>5 DEF TypeInv, HeadInv, BodyInv
<1>9. PrefixInv'
  BY <1>1, <1>2 DEF TypeInv, PrefixInv
<1>10. SavedIsWhole'
  <2>1. \A t \in Senders : spc[t] = "killed" => spc'[t] = "killed"
    BY <1>1 DEF TypeInv
  <2>2. \A t \in Senders : failed'[t] = {} => failed[t] = {}
    BY <1>2
  <2> QED BY <1>1, <2>1, <2>2 DEF SavedIsWhole
<1> QED BY <1>3, <1>4, <1>6, <1>7, <1>8, <1>9, <1>10

-----------------------------------------------------------------------------
\* The receiver takes the connection that has waited longest.
LEMMA AcceptStep == ASSUME Inv, Accept PROVE Inv'
<1> USE DEF Inv, Accept, senderVars, diskVars
<1> DEFINE s == Head(backlog)
<1>1. /\ Len(backlog) \in Nat /\ Len(backlog) # 0
      /\ s \in Senders /\ s = backlog[1]
      /\ Tail(backlog) \in Seq(Senders)
      /\ Len(Tail(backlog)) = Len(backlog) - 1
      /\ \A i \in 1..Len(Tail(backlog)) : Tail(backlog)[i] = backlog[i + 1]
  BY HeadTailProperties, EmptySeq, Lengths DEF TypeInv
<1>2. conn' = s /\ s # conn /\ s # None /\ backlog' = Tail(backlog)
  BY <1>1, BoundsAssumption
<1> HIDE DEF s
<1>3. 1 \in 1..Len(backlog)
      /\ \A i \in 1..Len(backlog') : i + 1 \in 1..Len(backlog)
  BY <1>1, <1>2
<1>4. TypeInv'
  <2>1. << >> \in Seq(Unit) /\ Len(<< >>) = 0 /\ 0 <= BUF_SIZE - 1
    BY EmptySeq, BufferAssumption DEF HeaderLength
  <2>2. Len(backlog') <= BACKLOG
    BY <1>1, <1>2, BoundsAssumption DEF TypeInv
  <2> QED BY <1>1, <1>2, <2>1, <2>2 DEF TypeInv
<1>5. QueueInv'
  <2>1. ~reset[s] /\ spc[s] \notin {"off", "connect"}
    BY <1>1, <1>3 DEF QueueInv
  <2>2. \A i \in 1..Len(backlog') : backlog'[i] # s
    <3> SUFFICES ASSUME NEW i \in 1..Len(backlog') PROVE backlog'[i] # s
      OBVIOUS
    <3>1. backlog'[i] = backlog[i + 1] /\ i + 1 # 1
      BY <1>1, <1>2
    <3> QED BY <1>1, <1>3, <3>1 DEF QueueInv
  <2>3. \A i \in 1..Len(backlog') :
          /\ ~reset[backlog'[i]]
          /\ \A j \in 1..Len(backlog') : backlog'[i] = backlog'[j] => i = j
    <3> SUFFICES ASSUME NEW i \in 1..Len(backlog')
                 PROVE  /\ ~reset[backlog'[i]]
                        /\ \A j \in 1..Len(backlog') :
                             backlog'[i] = backlog'[j] => i = j
      OBVIOUS
    <3>1. backlog'[i] = backlog[i + 1] /\ ~reset[backlog[i + 1]]
      BY <1>1, <1>2, <1>3 DEF QueueInv
    <3>2. ASSUME NEW j \in 1..Len(backlog'), backlog'[i] = backlog'[j] PROVE i = j
      <4>1. backlog'[j] = backlog[j + 1]
        BY <1>1, <1>2
      <4>2. i + 1 = j + 1
        BY <1>3, <3>1, <3>2, <4>1 DEF QueueInv
      <4> QED BY <4>2
    <3> QED BY <3>1, <3>2
  <2>4. \A t \in Senders : spc[t] \in {"off", "connect"} =>
          \A i \in 1..Len(backlog') : backlog'[i] # t
    BY <1>1, <1>2, <1>3 DEF QueueInv
  <2> QED BY <1>2, <2>1, <2>2, <2>3, <2>4 DEF QueueInv
<1>6. \A t \in Senders : Outgoing(t)' = Outgoing(t) /\ Taken(t)' = Taken(t)
  BY SameOutgoing DEF Taken
<1>7. Taken(s) = 0
  BY <1>1, <1>2, <1>3 DEF WireInv, QueueInv
<1>8. WireInv'
  <2>1. \A t \in Senders : t # conn
    BY BoundsAssumption
  <2> QED BY <1>6, <2>1 DEF WireInv
<1>9. SizeInv'
  BY <1>6 DEF SizeInv
<1>10. HeadInv' /\ BodyInv'
  <2>1. buf' = << >> /\ Len(<< >>) = 0 /\ 1..0 = {}
    BY EmptySeq
  <2>2. Taken(conn)' = 0
    BY <1>1, <1>2, <1>6, <1>7 DEF Taken
  <2> QED BY <2>1, <2>2 DEF HeadInv, BodyInv
<1>11. PrefixInv' /\ SavedIsWhole'
  BY DEF PrefixInv, SavedIsWhole
<1> QED BY <1>4, <1>5, <1>8, <1>9, <1>10, <1>11

\* A read takes the next units of the stream.
LEMMA TakeUnits ==
  ASSUME Inv, conn # None, NEW n \in Nat, 1 <= n, n <= Len(wire[conn]),
         wire' = [wire EXCEPT ![conn] = SubSeq(@, n + 1, Len(@))],
         UNCHANGED <<fname, content, announced, sent, reset, conn>>
  PROVE  /\ WireInv' /\ wire' \in [Senders -> Seq(Unit)]
         /\ \A t \in Senders : Outgoing(t)' = Outgoing(t)
         /\ Taken(conn)' = Taken(conn) + n
         /\ Taken(conn) \in Nat
         /\ Taken(conn) + n <= Len(Outgoing(conn))
         /\ \A k \in 1..n : wire[conn][k] = Outgoing(conn)[Taken(conn) + k]
<1> USE DEF Inv
<1> DEFINE w == wire[conn]
           rest == SubSeq(w, n + 1, Len(w))
<1>1. /\ conn \in Senders /\ ~reset[conn]
      /\ w \in Seq(Unit) /\ Len(w) \in Nat /\ sent[conn] \in Nat
      /\ Len(w) <= sent[conn] /\ Len(w) <= Window /\ Window \in Nat
      /\ sent[conn] <= Len(Outgoing(conn)) /\ Len(Outgoing(conn)) \in Nat
  BY Lengths, OutgoingUnits, BoundsAssumption
  DEF StreamShape, TypeInv, QueueInv, WireInv
<1>2. /\ rest \in Seq(Unit) /\ Len(rest) = Len(w) - n
      /\ \A k \in 1..(Len(w) - n) : rest[k] = w[n + k]
  <2>1. n <= Len(w)
    OBVIOUS
  <2>2. \A k \in (n + 1)..Len(w) : w[k] \in Unit
    BY <1>1, ElementOfSeq
  <2> HIDE DEF w
  <2> QED BY <1>1, <2>1, <2>2, RestUnits
<1>3. /\ wire' = [wire EXCEPT ![conn] = rest]
      /\ wire'[conn] = rest
      /\ \A t \in Senders \ {conn} : wire'[t] = wire[t]
      /\ wire' \in [Senders -> Seq(Unit)]
  <2>1. wire' = [wire EXCEPT ![conn] = rest]
    OBVIOUS
  <2> HIDE DEF rest
  <2> QED BY <1>1, <1>2, <2>1, ZenonT(60) DEF TypeInv
<1>4. \A t \in Senders : Outgoing(t)' = Outgoing(t)
  BY SameOutgoing
<1>5. \A k \in 1..Len(w) : w[k] = Outgoing(conn)[Taken(conn) + k]
  BY <1>1 DEF WireInv
<1>6. Taken(conn) = sent[conn] - Len(w) /\ Taken(conn)' = sent[conn] - Len(rest)
  BY <1>3 DEF Taken
<1>7. n <= Len(w) /\ wire[conn] = w
  OBVIOUS
<1> HIDE DEF w, rest
<1>8. /\ Taken(conn)' = Taken(conn) + n
      /\ Taken(conn) \in Nat
      /\ Taken(conn) + n <= Len(Outgoing(conn))
  <2>1. \A p, m, o \in Nat : m <= p /\ n <= m /\ p <= o =>
          p - (m - n) = (p - m) + n /\ p - m \in Nat /\ (p - m) + n <= o
    OBVIOUS
  <2> QED BY <1>1, <1>2, <1>6, <1>7, <2>1
<1>9. \A k \in 1..n : wire[conn][k] = Outgoing(conn)[Taken(conn) + k]
  BY <1>1, <1>5, <1>7
<1>10. WireInv'
  <2>1. ASSUME NEW t \in Senders, t # conn
        PROVE  /\ Len(wire'[t]) <= sent[t] /\ Len(wire'[t]) <= Window
               /\ sent[t] <= Len(Outgoing(t))
               /\ ~reset[t] =>
                    /\ \A k \in 1..Len(wire'[t]) : wire'[t][k] = Outgoing(t)[Taken(t)' + k]
                    /\ Taken(t)' = 0
    <3>1. wire'[t] = wire[t] /\ Taken(t)' = Taken(t)
      BY <1>3, <2>1 DEF Taken
    <3> QED BY <2>1, <3>1 DEF WireInv
  <2>2. Len(wire'[conn]) <= sent[conn] /\ Len(wire'[conn]) <= Window
    BY <1>1, <1>2, <1>3, <1>7
  <2>3. ASSUME NEW k \in 1..Len(wire'[conn])
        PROVE  wire'[conn][k] = Outgoing(conn)[Taken(conn)' + k]
    <3>1. rest[k] = w[n + k] /\ n + k \in 1..Len(w)
      BY <1>1, <1>2, <1>3, <1>7
    <3>2. Taken(conn) + (n + k) = Taken(conn)' + k
      BY <1>1, <1>8
    <3> QED BY <1>3, <1>5, <3>1, <3>2
  <2> QED BY <1>1, <1>4, <2>1, <2>2, <2>3, SMTT(30) DEF WireInv
<1> QED BY <1>3, <1>4, <1>8, <1>9, <1>10

\* What a read of the header phase gets goes behind the rest of the buffer.
LEMMA ReadHeaderStep == ASSUME Inv, ReadHeader PROVE Inv'
<1> USE DEF Inv, senderVars, diskVars
<1>1. PICK n \in 1..(BUF_SIZE - 1 - Len(buf)) :
        /\ n <= Len(wire[conn])
        /\ buf' = buf \o SubSeq(wire[conn], 1, n)
        /\ wire' = [wire EXCEPT ![conn] = SubSeq(@, n + 1, Len(@))]
  BY DEF ReadHeader
<1>2. /\ conn # None /\ rpc = "header" /\ conn \in Senders
      /\ UNCHANGED <<fname, content, spc, announced, sent, reset, backlog, conn, rpc,
                     filename, filesize, received, saved, writer, outcome, failed>>
  BY DEF ReadHeader, TypeInv
<1>3. /\ Len(buf) \in Nat /\ BUF_SIZE \in Nat /\ n \in Nat /\ 1 <= n
      /\ Len(buf) + n <= BUF_SIZE - 1
  BY Lengths, BufferAssumption
<1>4. /\ WireInv' /\ wire' \in [Senders -> Seq(Unit)]
      /\ \A t \in Senders : Outgoing(t)' = Outgoing(t)
      /\ Taken(conn)' = Taken(conn) + n
      /\ \A k \in 1..n : wire[conn][k] = Outgoing(conn)[Taken(conn) + k]
  BY <1>1, <1>2, <1>3, TakeUnits
<1>5. /\ buf' \in Seq(Unit) /\ Len(buf') = Len(buf) + n
      /\ \A k \in 1..Len(buf) : buf'[k] = buf[k]
      /\ \A k \in 1..n : buf'[Len(buf) + k] = wire[conn][k]
  <2>1. \A k \in 1..n : wire[conn][k] \in Unit
    BY <1>1, <1>2, <1>3, Lengths, ElementOfSeq DEF TypeInv
  <2>2. buf \in Seq(Unit)
    BY DEF TypeInv
  <2> QED BY <1>1, <1>3, <2>1, <2>2, ReadUnits
<1>6. TypeInv'
  BY <1>2, <1>3, <1>4, <1>5 DEF TypeInv
<1>7. QueueInv'
  BY <1>2 DEF QueueInv
<1>8. SizeInv'
  BY <1>2, <1>4 DEF SizeInv
<1>9. HeadInv'
  <2>1. Len(buf) = Taken(conn) /\ \A k \in 1..Len(buf) : buf[k] = Outgoing(conn)[k]
    BY <1>2 DEF HeadInv
  <2>2. ASSUME NEW k \in 1..Len(buf') PROVE buf'[k] = Outgoing(conn)[k]
    <3>1. CASE k \in 1..Len(buf)
      BY <1>5, <2>1, <3>1
    <3>2. CASE k > Len(buf)
      <4>1. k - Len(buf) \in 1..n /\ Len(buf) + (k - Len(buf)) = k
        BY <1>3, <1>5, <3>2
      <4> QED BY <1>4, <1>5, <2>1, <4>1, ZenonT(60)
    <3> QED BY <1>3, <1>5, <3>1, <3>2
  <2> QED BY <1>2, <1>4, <1>5, <2>1, <2>2 DEF HeadInv
<1>10. BodyInv'
  BY <1>2 DEF BodyInv
<1>11. PrefixInv' /\ SavedIsWhole'
  BY <1>2 DEF PrefixInv, SavedIsWhole
<1> QED BY <1>4, <1>6, <1>7, <1>8, <1>9, <1>10, <1>11

\* A connection is closed; what it reports as saved must be whole.
LEMMA CloseStep ==
  ASSUME Inv, conn # None, NEW how \in {"invalid", "refused", "saved"},
         CloseConnection(how), UNCHANGED <<senderVars, backlog, receiverVars, diskVars>>,
         failed' \in [Senders -> SUBSET Calls],
         \A s \in Senders : failed[s] \subseteq failed'[s],
         \A s \in Senders \ {conn} : failed'[s] = failed[s],
         how = "saved" /\ spc[conn] # "killed" /\ failed'[conn] = {} =>
           Len(saved[fname[conn]]) >= announced[conn]
  PROVE  Inv'
<1> USE DEF Inv, senderVars, receiverVars, diskVars, CloseConnection
<1>1. conn \in Senders /\ conn' = None /\ \A s \in Senders : s # None
  BY BoundsAssumption DEF TypeInv
<1>2. << >> \in Seq(Unit) /\ Len(<< >>) = 0 /\ 1..0 = {}
  BY EmptySeq
<1>3. TypeInv'
  BY <1>1, <1>2 DEF TypeInv
<1>4. \A i \in 1..Len(backlog) : backlog[i] \in Senders
  BY ElementOfSeq DEF TypeInv
<1>5. QueueInv'
  <2>1. /\ reset'[conn] = TRUE
        /\ \A s \in Senders \ {conn} : reset'[s] = reset[s] /\ outcome'[s] = outcome[s]
    BY <1>1 DEF TypeInv
  <2>2. /\ spc[conn] \notin {"off", "connect"}
        /\ \A i \in 1..Len(backlog) : backlog[i] # conn
    BY <1>1 DEF QueueInv
  <2> QED BY <1>1, <1>4, <2>1, <2>2 DEF QueueInv
<1>6. \A s \in Senders : Outgoing(s)' = Outgoing(s)
  BY SameOutgoing
<1>7. WireInv'
  <2>1. ASSUME NEW s \in Senders, s # conn
        PROVE  /\ wire'[s] = wire[s] /\ reset'[s] = reset[s]
               /\ Taken(s)' = Taken(s)
    BY <2>1 DEF TypeInv, Taken
  <2>2. wire'[conn] = << >> /\ reset'[conn] = TRUE
    BY <1>1 DEF TypeInv
  <2>3. /\ Len(wire'[conn]) <= sent[conn] /\ Len(wire'[conn]) <= Window
        /\ sent[conn] <= Len(Outgoing(conn))
    BY <1>1, <1>2, <2>2, BoundsAssumption DEF TypeInv, WireInv
  <2>4. ASSUME NEW s \in Senders, s # conn
        PROVE  /\ Len(wire'[s]) <= sent[s] /\ Len(wire'[s]) <= Window
               /\ sent[s] <= Len(Outgoing(s))
               /\ ~reset'[s] =>
                    /\ \A k \in 1..Len(wire'[s]) : wire'[s][k] = Outgoing(s)[Taken(s)' + k]
                    /\ Taken(s)' = 0
    BY <2>1, <2>4 DEF WireInv
  <2> QED BY <1>6, <2>2, <2>3, <2>4 DEF WireInv
<1>8. SizeInv'
  BY <1>6 DEF SizeInv
<1>9. HeadInv' /\ BodyInv'
  BY <1>1 DEF HeadInv, BodyInv
<1>10. PrefixInv'
  BY DEF TypeInv, PrefixInv
<1>11. SavedIsWhole'
  <2>1. ASSUME NEW s \in Senders, s # conn, outcome'[s] = "saved", writer[fname[s]] = s,
               Len(saved[fname[s]]) < announced[s]
        PROVE  spc[s] = "killed" \/ failed'[s] # {}
    BY <2>1 DEF TypeInv, SavedIsWhole
  <2>2. ASSUME outcome'[conn] = "saved", Len(saved[fname[conn]]) < announced[conn]
        PROVE  spc[conn] = "killed" \/ failed'[conn] # {}
    <3>1. how = "saved"
      BY <1>1, <2>2 DEF TypeInv
    <3>2. /\ fname[conn] \in Names /\ announced[conn] \in Nat
          /\ Len(saved[fname[conn]]) \in Nat
      BY <1>1, Lengths DEF TypeInv
    <3> QED BY <2>2, <3>1, <3>2
  <2> QED BY <2>1, <2>2 DEF SavedIsWhole
<1> QED BY <1>3, <1>5, <1>7, <1>8, <1>9, <1>10, <1>11

\* What reaches the disk are bytes, and when no fwrite failed all of them.
LEMMA StoreUnits ==
  ASSUME TypeInv, conn \in Senders, NEW name \in Names, NEW old \in Seq(Bytes),
         NEW units \in Seq(Bytes), Store(name, old, units)
  PROVE  /\ saved' \in [Names -> Seq(Bytes)]
         /\ \A m \in Names \ {name} : saved'[m] = saved[m]
         /\ failed' \in [Senders -> SUBSET Calls]
         /\ \A s \in Senders : failed[s] \subseteq failed'[s]
         /\ \A s \in Senders \ {conn} : failed'[s] = failed[s]
         /\ "fread" \in failed'[conn] => "fread" \in failed[conn]
         /\ "fwrite" \notin failed'[conn] => saved'[name] = old \o units
<1>1. PICK k \in 0..Len(units) :
        /\ saved' = [saved EXCEPT ![name] = old \o SubSeq(units, 1, k)]
        /\ failed' = IF k = Len(units) THEN failed
                     ELSE [failed EXCEPT ![conn] = @ \cup {"fwrite"}]
  BY DEF Store
<1>2. SubSeq(units, 1, k) \in Seq(Bytes)
  <2>1. Len(units) \in Nat
    BY LenProperties
  <2>2. \A i \in 1..k : units[i] \in Bytes
    BY <2>1, ElementOfSeq
  <2> QED BY <2>1, <2>2, SubSeqProperties
<1>3. old \o SubSeq(units, 1, k) \in Seq(Bytes)
  BY <1>2, ConcatProperties
<1>4. k = Len(units) => SubSeq(units, 1, k) = units
  BY SubSeqFull
<1> DEFINE longer == old \o SubSeq(units, 1, k)
<1>5. saved' = [saved EXCEPT ![name] = longer] /\ longer \in Seq(Bytes)
  BY <1>1, <1>3
<1>6. "fwrite" \notin failed'[conn] => k = Len(units)
  BY <1>1 DEF TypeInv
<1>7. /\ failed' \in [Senders -> SUBSET Calls]
      /\ \A s \in Senders : failed[s] \subseteq failed'[s]
      /\ \A s \in Senders \ {conn} : failed'[s] = failed[s]
      /\ "fread" \in failed'[conn] => "fread" \in failed[conn]
  BY <1>1 DEF TypeInv, Calls
<1>8. k = Len(units) => longer = old \o units
  BY <1>4
<1> HIDE DEF longer
<1>9. /\ saved' \in [Names -> Seq(Bytes)] /\ saved'[name] = longer
      /\ \A m \in Names \ {name} : saved'[m] = saved[m]
  BY <1>5 DEF TypeInv
<1> QED BY <1>6, <1>7, <1>8, <1>9

\* The header is known: what came behind it is the beginning of the file.
LEMMA OpenFileStep == ASSUME Inv, OpenFile PROVE Inv'
<1> USE DEF Inv, senderVars
<1> DEFINE name == fname[conn]
           c == content[conn]
           new == SubSeq(buf, HeaderEnd(buf) + 1, Len(buf))
<1>1. /\ conn # None /\ rpc = "header" /\ conn \in Senders /\ HeaderEnd(buf) > 0
      /\ name \in Names /\ announced[conn] \in Nat /\ buf \in Seq(Unit)
      /\ Len(buf) \in Nat /\ Len(c) \in Nat /\ c \in Seq(Bytes)
  BY Lengths DEF OpenFile, TypeInv
<1>2. /\ Len(Outgoing(conn)) = 5 + Len(c)
      /\ Outgoing(conn)[1] = NameField(name) /\ Outgoing(conn)[2] = NL
      /\ Outgoing(conn)[3] = SizeField(announced[conn])
      /\ Outgoing(conn)[4] = NL /\ Outgoing(conn)[5] = NL
      /\ \A k \in 1..Len(c) : Outgoing(conn)[5 + k] = c[k]
  BY <1>1, OutgoingUnits DEF StreamShape
<1>3. /\ Len(buf) = Taken(conn) /\ Len(buf) <= Len(Outgoing(conn))
      /\ \A k \in 1..Len(buf) : buf[k] = Outgoing(conn)[k]
  <2>1. Len(buf) = Taken(conn) /\ \A k \in 1..Len(buf) : buf[k] = Outgoing(conn)[k]
    BY <1>1 DEF HeadInv
  <2>2. /\ sent[conn] \in Nat /\ sent[conn] <= Len(Outgoing(conn))
        /\ Len(wire[conn]) \in Nat
    BY <1>1, Lengths DEF TypeInv, WireInv
  <2> QED BY <1>1, <1>2, <2>1, <2>2 DEF Taken
<1> HIDE DEF name, c
<1>4. /\ Len(buf) >= 5 /\ HeaderEnd(buf) = 5
      /\ FieldOf(buf, 5, "name") = name /\ FieldOf(buf, 5, "size") = announced[conn]
  <2>1. /\ 1 <= Len(buf) => buf[1] = NameField(name)
        /\ 2 <= Len(buf) => buf[2] = NL
        /\ 3 <= Len(buf) => buf[3] = SizeField(announced[conn])
        /\ 4 <= Len(buf) => buf[4] = NL
        /\ 5 <= Len(buf) => buf[5] = NL
    BY <1>1, <1>2, <1>3
  <2>2. /\ Len(buf) < 5 => HeaderEnd(buf) = 0
        /\ Len(buf) >= 5 => /\ HeaderEnd(buf) = 5
                            /\ FieldOf(buf, 5, "name") = name
                            /\ FieldOf(buf, 5, "size") = announced[conn]
    BY <1>1, <2>1, HeaderFound
  <2> QED BY <1>1, <2>2
<1>5. /\ new \in Seq(Bytes) /\ Len(new) = Len(buf) - 5
      /\ \A k \in 1..(Len(buf) - 5) : new[k] = c[k]
  <2>1. ASSUME NEW k \in 1..(Len(buf) - 5) PROVE buf[5 + k] = c[k] /\ k \in 1..Len(c)
    BY <1>1, <1>2, <1>3
  <2>2. \A k \in (HeaderEnd(buf) + 1)..Len(buf) : buf[k] \in Bytes
    <3> SUFFICES ASSUME NEW k \in (HeaderEnd(buf) + 1)..Len(buf) PROVE buf[k] \in Bytes
      OBVIOUS
    <3>1. k - 5 \in 1..(Len(buf) - 5) /\ 5 + (k - 5) = k
      BY <1>1, <1>4
    <3> QED BY <1>1, <2>1, <3>1, ElementOfSeq
  <2>3. /\ new \in Seq(Bytes) /\ Len(new) = Len(buf) - HeaderEnd(buf)
        /\ \A k \in 1..(Len(buf) - HeaderEnd(buf)) : new[k] = buf[HeaderEnd(buf) + k]
    <3>1. HeaderEnd(buf) \in Nat /\ HeaderEnd(buf) <= Len(buf)
      BY <1>1, <1>4
    <3> QED BY <1>1, <2>2, <3>1, RestUnits
  <2> HIDE DEF new
  <2> QED BY <1>4, <2>1, <2>3
<1>6. /\ filename' = name /\ filesize' = announced[conn] /\ received' = Len(buf) - 5
      /\ Store(name, << >>, new) /\ writer' = [writer EXCEPT ![name] = conn]
      /\ rpc' = "body" /\ buf' = << >>
      /\ UNCHANGED <<fname, content, spc, announced, sent, wire, reset, backlog, conn, outcome>>
  BY <1>4, Zenon DEF OpenFile
<1> HIDE DEF new
<1>7. /\ writer'[name] = conn
      /\ \A n \in Names \ {name} : writer'[n] = writer[n]
  BY <1>1, <1>6 DEF TypeInv
<1>8. /\ saved' \in [Names -> Seq(Bytes)]
      /\ \A m \in Names \ {name} : saved'[m] = saved[m]
      /\ failed' \in [Senders -> SUBSET Calls]
      /\ \A s \in Senders : failed[s] \subseteq failed'[s]
      /\ "fwrite" \notin failed'[conn] => saved'[name] = new
  <2>1. << >> \in Seq(Bytes) /\ << >> \o new = new
    BY <1>5, EmptySeq
  <2> QED BY <1>1, <1>5, <1>6, <2>1, StoreUnits
<1>9. TypeInv'
  <2>1. << >> \in Seq(Unit) /\ Len(<< >>) <= BUF_SIZE - 1
    BY EmptySeq, BufferAssumption DEF HeaderLength
  <2>2. received' \in Nat
    BY <1>1, <1>4, <1>6
  <2> QED BY <1>1, <1>6, <1>8, <2>1, <2>2 DEF TypeInv
<1>10. QueueInv'
  BY <1>6 DEF QueueInv
<1>11. \A t \in Senders : Outgoing(t)' = Outgoing(t) /\ Taken(t)' = Taken(t)
  BY <1>6, SameOutgoing DEF Taken
<1>12. WireInv' /\ SizeInv'
  BY <1>6, <1>8, <1>11 DEF WireInv, SizeInv
<1>13. HeadInv'
  BY <1>6 DEF HeadInv
<1>14. BodyInv'
  <2>1. Taken(conn) = HeaderLength + (Len(buf) - 5)
    BY <1>1, <1>3 DEF HeaderLength
  <2>2. "fwrite" \notin failed'[conn] => Len(saved'[name]) = received'
    BY <1>5, <1>6, <1>8
  <2> QED BY <1>1, <1>6, <1>7, <1>11, <2>1, <2>2 DEF BodyInv, name
<1>15. PrefixInv'
  <2>1. Len(new) <= Len(c)
    BY <1>1, <1>2, <1>3, <1>5
  <2>2. \A k \in 1..Len(new) : new[k] = content[conn][k]
    BY <1>5 DEF c
  <2>3. ASSUME NEW n \in Names \ {name}, writer'[n] # None,
               "fwrite" \notin failed'[writer'[n]]
        PROVE  writer'[n] = writer[n] /\ "fwrite" \notin failed[writer[n]]
    BY <1>7, <1>8, <2>3 DEF TypeInv
  <2> QED BY <1>6, <1>7, <1>8, <2>1, <2>2, <2>3 DEF PrefixInv, c
<1>16. SavedIsWhole'
  <2>1. outcome[conn] # "saved"
    BY <1>1 DEF QueueInv
  <2> QED BY <1>6, <1>7, <1>8, <2>1 DEF TypeInv, SavedIsWhole
<1> QED BY <1>9, <1>10, <1>12, <1>13, <1>14, <1>15, <1>16

\* What a read of the body phase gets continues the file.
LEMMA ReadBodyStep == ASSUME Inv, ReadBody PROVE Inv'
<1> USE DEF Inv, senderVars
<1> DEFINE file == saved[filename]
           c == content[conn]
<1>1. PICK n \in 1..BUF_SIZE :
        /\ n <= Len(wire[conn])
        /\ Store(filename, saved[filename], SubSeq(wire[conn], 1, n))
        /\ received' = received + n
        /\ wire' = [wire EXCEPT ![conn] = SubSeq(@, n + 1, Len(@))]
  BY DEF ReadBody
<1>2. /\ conn # None /\ rpc = "body" /\ conn \in Senders
      /\ UNCHANGED <<fname, content, spc, announced, sent, reset, backlog, conn, rpc,
                     buf, filename, filesize, writer, outcome>>
  BY DEF ReadBody, TypeInv
<1>3. /\ filename = fname[conn] /\ filename \in Names /\ filesize = announced[conn]
      /\ writer[filename] = conn
      /\ "fwrite" \notin failed[conn] => Len(file) = received
      /\ Taken(conn) = 5 + received
  BY <1>2 DEF BodyInv, TypeInv, HeaderLength
<1>4. /\ n \in Nat /\ 1 <= n /\ received \in Nat
      /\ file \in Seq(Bytes) /\ c \in Seq(Bytes) /\ Len(c) \in Nat
  BY <1>2, <1>3, Lengths, BufferAssumption DEF TypeInv
<1>5. /\ WireInv' /\ wire' \in [Senders -> Seq(Unit)]
      /\ \A t \in Senders : Outgoing(t)' = Outgoing(t)
      /\ Taken(conn)' = Taken(conn) + n
      /\ Taken(conn) + n <= Len(Outgoing(conn))
      /\ \A k \in 1..n : wire[conn][k] = Outgoing(conn)[Taken(conn) + k]
  BY <1>1, <1>2, <1>4, TakeUnits
<1>6. /\ Len(Outgoing(conn)) = 5 + Len(c)
      /\ \A k \in 1..Len(c) : Outgoing(conn)[5 + k] = c[k]
  BY <1>2, OutgoingUnits DEF StreamShape
<1> HIDE DEF file, c
<1>7. received + n <= Len(c)
  BY <1>3, <1>4, <1>5, <1>6
<1>8. \A k \in 1..n : wire[conn][k] = c[received + k] /\ wire[conn][k] \in Bytes
  <2> SUFFICES ASSUME NEW k \in 1..n
               PROVE  wire[conn][k] = c[received + k] /\ wire[conn][k] \in Bytes
    OBVIOUS
  <2>1. received + k \in 1..Len(c) /\ Taken(conn) + k = 5 + (received + k)
    BY <1>3, <1>4, <1>7
  <2>2. wire[conn][k] = c[received + k]
    BY <1>5, <1>6, <2>1
  <2> QED BY <1>4, <2>1, <2>2, ElementOfSeq
<1> DEFINE new == SubSeq(wire[conn], 1, n)
           longer == file \o new
<1>9. /\ new \in Seq(Bytes) /\ longer \in Seq(Bytes) /\ Len(longer) = Len(file) + n
      /\ \A k \in 1..Len(file) : longer[k] = file[k]
      /\ \A k \in 1..n : longer[Len(file) + k] = c[received + k]
  <2>1. \A k \in 1..n : wire[conn][k] \in Bytes
    BY <1>8
  <2>2. new \in Seq(Bytes)
    BY <1>4, <2>1, SubSeqProperties
  <2>3. /\ longer \in Seq(Bytes) /\ Len(longer) = Len(file) + n
        /\ \A k \in 1..Len(file) : longer[k] = file[k]
        /\ \A k \in 1..n : longer[Len(file) + k] = wire[conn][k]
    BY <1>4, <2>1, ReadUnits
  <2> HIDE DEF longer, new
  <2> QED BY <1>8, <2>2, <2>3
<1>10. Store(filename, file, new)
  BY <1>1 DEF file
<1> HIDE DEF new
<1>11. /\ saved' \in [Names -> Seq(Bytes)]
       /\ \A m \in Names \ {filename} : saved'[m] = saved[m]
       /\ failed' \in [Senders -> SUBSET Calls]
       /\ \A s \in Senders : failed[s] \subseteq failed'[s]
       /\ "fwrite" \notin failed'[conn] => saved'[filename] = longer
  BY <1>2, <1>3, <1>4, <1>9, <1>10, StoreUnits
<1> HIDE DEF longer
<1>12. TypeInv'
  <2>1. received' \in Nat
    BY <1>1, <1>4
  <2> QED BY <1>2, <1>5, <1>11, <2>1 DEF TypeInv
<1>13. QueueInv'
  BY <1>2 DEF QueueInv
<1>14. SizeInv' /\ HeadInv'
  BY <1>2, <1>5, <1>11 DEF SizeInv, HeadInv
<1>15. "fwrite" \notin failed'[conn] =>
         "fwrite" \notin failed[conn] /\ Len(file) = received /\ saved'[filename] = longer
  BY <1>2, <1>3, <1>11
<1>16. BodyInv'
  <2>1. Taken(conn)' = HeaderLength + received'
    BY <1>1, <1>3, <1>4, <1>5 DEF HeaderLength
  <2>2. "fwrite" \notin failed'[conn] => Len(saved'[filename]) = received'
    BY <1>1, <1>9, <1>15
  <2> QED BY <1>2, <1>3, <2>1, <2>2 DEF BodyInv
<1>17. PrefixInv'
  <2>1. ASSUME "fwrite" \notin failed'[conn]
        PROVE  Len(longer) <= Len(c) /\ \A k \in 1..Len(longer) : longer[k] = c[k]
    <3>1. Len(file) = received /\ Len(longer) = received + n
      BY <1>9, <1>15, <2>1
    <3>2. \A k \in 1..received : file[k] = c[k]
      BY <1>2, <1>3, <1>15, <2>1, <3>1 DEF PrefixInv, file, c
    <3>3. ASSUME NEW k \in 1..Len(longer), k > received PROVE longer[k] = c[k]
      <4>1. k - received \in 1..n /\ received + (k - received) = k
        BY <1>4, <3>1, <3>3
      <4> QED BY <1>9, <3>1, <4>1
    <3> QED BY <1>4, <1>7, <1>9, <3>1, <3>2, <3>3
  <2>2. content[conn] = c
    BY DEF c
  <2> SUFFICES ASSUME NEW m \in Names, writer[m] # None, "fwrite" \notin failed'[writer[m]]
               PROVE  /\ Len(saved'[m]) <= Len(content[writer[m]])
                      /\ \A k \in 1..Len(saved'[m]) : saved'[m][k] = content[writer[m]][k]
    BY <1>2 DEF PrefixInv
  <2>3. CASE m = filename
    BY <1>3, <1>15, <2>1, <2>2, <2>3
  <2>4. CASE m # filename
    <3>1. "fwrite" \notin failed[writer[m]]
      BY <1>11 DEF TypeInv
    <3> QED BY <1>11, <2>4, <3>1 DEF PrefixInv
  <2> QED BY <2>3, <2>4
<1>18. SavedIsWhole'
  <2>1. outcome[conn] # "saved"
    BY <1>2 DEF QueueInv
  <2> QED BY <1>2, <1>3, <1>11, <2>1 DEF TypeInv, SavedIsWhole
<1> QED BY <1>5, <1>12, <1>13, <1>14, <1>16, <1>17, <1>18

\* A file is reported when all announced bytes are there, or the stream has
\* ended: then, unless its sender was killed or a call failed, they are there as
\* well.
LEMMA SaveStep == ASSUME Inv, Save PROVE Inv'
<1> USE DEF Inv
<1>1. /\ conn # None /\ rpc = "body" /\ conn \in Senders
      /\ received >= filesize \/ AtEnd
      /\ CloseConnection("saved")
      /\ UNCHANGED <<senderVars, backlog, receiverVars, diskVars, failed>>
  BY DEF Save, TypeInv
<1>2. /\ filename = fname[conn] /\ filesize = announced[conn]
      /\ "fwrite" \notin failed[conn] => Len(saved[filename]) = received
      /\ Taken(conn) = 5 + received
      /\ received \in Nat /\ announced[conn] \in Nat
  BY <1>1 DEF BodyInv, TypeInv, HeaderLength
<1>3. ASSUME AtEnd, spc[conn] # "killed", failed[conn] = {} PROVE received >= announced[conn]
  <2>1. spc[conn] = "sent" /\ Len(wire[conn]) = 0
    BY <1>3, EmptySeq DEF AtEnd
  <2>2. /\ sent[conn] = 5 + Len(content[conn]) /\ Len(content[conn]) \in Nat
        /\ announced[conn] <= Len(content[conn])
    BY <1>1, <1>3, <2>1, OutgoingUnits DEF StreamShape, SizeInv
  <2> QED BY <1>2, <2>1, <2>2 DEF Taken
<1>4. spc[conn] # "killed" /\ failed[conn] = {} =>
        Len(saved[fname[conn]]) >= announced[conn]
  BY <1>1, <1>2, <1>3
<1>5. failed' \in [Senders -> SUBSET Calls]
  BY <1>1 DEF TypeInv
<1> QED BY <1>1, <1>4, <1>5, CloseStep

\* The header cannot be found, or the file cannot be opened.
LEMMA RefuseStep == ASSUME Inv, NoHeader \/ OpenFails PROVE Inv'
<1>1. failed' \in [Senders -> SUBSET Calls] /\ failed' = failed
  BY DEF NoHeader, OpenFails, Inv, TypeInv
<1> QED BY <1>1, CloseStep DEF NoHeader, OpenFails

\* A failing read closes the connection too, and stays on record.
LEMMA ReadFailsStep == ASSUME Inv, ReadFails PROVE Inv'
<1>1. conn \in Senders /\ failed' = [failed EXCEPT ![conn] = @ \cup {"read"}]
  BY DEF ReadFails, Inv, TypeInv
<1>2. /\ failed' \in [Senders -> SUBSET Calls]
      /\ \A s \in Senders : failed[s] \subseteq failed'[s]
      /\ \A s \in Senders \ {conn} : failed'[s] = failed[s]
      /\ failed'[conn] # {}
  BY <1>1 DEF Inv, TypeInv, Calls
<1> QED BY <1>1, <1>2, CloseStep DEF ReadFails

-----------------------------------------------------------------------------
LEMMA StepInv == Inv /\ [Next]_vars => Inv'
<1> SUFFICES ASSUME Inv, [Next]_vars PROVE Inv'
  OBVIOUS
<1>1. ASSUME NEW s \in Senders,
             Open(s) \/ Grow(s) \/ FinishEarly(s) \/ Killed(s) \/ SenderSteps(s)
      PROVE  Inv'
  BY <1>1, OpenStep, GrowStep, ConnectStep, PutStep, EndStep DEF SenderSteps
<1>2. CASE Accept
  BY <1>2, AcceptStep
<1>3. CASE ReadHeader
  BY <1>3, ReadHeaderStep
<1>4. CASE NoHeader \/ OpenFails
  BY <1>4, RefuseStep
<1>5. CASE OpenFile
  BY <1>5, OpenFileStep
<1>6. CASE ReadBody
  BY <1>6, ReadBodyStep
<1>7. CASE Save
  BY <1>7, SaveStep
<1>8. CASE ReadFails
  BY <1>8, ReadFailsStep
<1>9. CASE UNCHANGED vars
  <2>1. UNCHANGED <<fname, content, spc, announced, sent, wire, reset, backlog, conn, rpc,
                    buf, filename, filesize, received, saved, writer, outcome, failed>>
    BY <1>9 DEF vars, senderVars, receiverVars, diskVars
  <2>2. \A s \in Senders : Outgoing(s)' = Outgoing(s) /\ Taken(s)' = Taken(s)
    BY <2>1, SameOutgoing DEF Taken
  <2>3. TypeInv' /\ QueueInv' /\ PrefixInv' /\ SavedIsWhole'
    BY <2>1 DEF Inv, TypeInv, QueueInv, PrefixInv, SavedIsWhole
  <2>4. WireInv' /\ SizeInv'
    BY <2>1, <2>2 DEF Inv, WireInv, SizeInv
  <2>5. HeadInv' /\ BodyInv'
    BY <2>1, <2>2 DEF Inv, TypeInv, HeadInv, BodyInv
  <2> QED BY <2>3, <2>4, <2>5 DEF Inv
<1> QED BY <1>1, <1>2, <1>3, <1>4, <1>5, <1>6, <1>7, <1>8, <1>9 DEF Next, Receiver

LEMMA Invariance == Spec => []Inv
  BY InitInv, StepInv, PTL DEF Spec

\* Every variable of the transfer keeps its type: the buffer is never overrun,
\* no more than a window is under way, and no sender writes past its file.
THEOREM TypeCorrect == Spec => []TypeOK
<1>1. Inv => TypeOK
  <2> SUFFICES ASSUME Inv PROVE TypeOK
    OBVIOUS
  <2>1. \A s \in Senders : sent[s] \in 0..Len(Outgoing(s)) /\ Len(wire[s]) <= Window
    <3> SUFFICES ASSUME NEW s \in Senders
                 PROVE  sent[s] \in 0..Len(Outgoing(s)) /\ Len(wire[s]) <= Window
      OBVIOUS
    <3>1. Len(Outgoing(s)) \in Nat
      BY OutgoingUnits DEF Inv, StreamShape
    <3> QED BY <3>1 DEF Inv, TypeInv, WireInv
  <2> QED BY <2>1 DEF Inv, TypeInv, TypeOK, Bytes
<1> QED BY <1>1, Invariance, PTL

\* However the streams are cut into reads, a file on the receiver's disk holds
\* the bytes of the sender that wrote it, from the first on, unless an fwrite
\* of the receiver failed.
THEOREM BytesInOrder == Spec => []SavedIsPrefix
<1>1. Inv => SavedIsPrefix
  <2> SUFFICES ASSUME Inv, NEW n \in Names, writer[n] # None,
                      "fwrite" \notin failed[writer[n]]
               PROVE  /\ Len(saved[n]) <= Len(content[writer[n]])
                      /\ saved[n] = SubSeq(content[writer[n]], 1, Len(saved[n]))
    BY DEF SavedIsPrefix
  <2> DEFINE f == saved[n]
             c == content[writer[n]]
  <2>1. f \in Seq(Bytes) /\ c \in Seq(Bytes) /\ Len(f) \in Nat /\ Len(c) \in Nat
    BY LenProperties DEF Inv, TypeInv
  <2>2. Len(f) <= Len(c) /\ \A k \in 1..Len(f) : f[k] = c[k]
    BY DEF Inv, PrefixInv
  <2> HIDE DEF f, c
  <2>3. \A k \in 1..Len(f) : c[k] \in Bytes
    BY <2>1, <2>2, ElementOfSeq
  <2>4. CASE Len(f) = 0
    <3>1. << >> \in Seq(Bytes) /\ << >> \o SubSeq(c, 1, 0) = SubSeq(c, 1, 0)
      BY <2>4
    <3> QED BY <2>1, <2>2, <2>4, SubSeqProperties, SeqEqual DEF f, c
  <2>5. CASE Len(f) >= 1
    <3> DEFINE d == SubSeq(c, 1, Len(f))
    <3>1. /\ d \in Seq(Bytes)
          /\ Len(d) = IF 1 <= Len(f) THEN Len(f) - 1 + 1 ELSE 0
          /\ \A k \in 1..(Len(f) - 1 + 1) : d[k] = c[1 + k - 1]
      BY <2>1, <2>3, SubSeqProperties
    <3> HIDE DEF d
    <3>2. Len(d) = Len(f) /\ \A k \in 1..Len(f) : d[k] = f[k]
      BY <2>1, <2>2, <2>5, <3>1
    <3> QED BY <2>1, <2>2, <3>1, <3>2, SeqEqual DEF d, f, c
  <2> QED BY <2>1, <2>4, <2>5
<1> QED BY <1>1, Invariance, PTL

\* When the receiver reports a file shorter than announced as saved, its sender
\* was killed, one of the unchecked calls of either side failed on it, or a later
\* sender has written a file of that name: neither the way the stream is cut nor
\* the order of the connections makes a file short.
THEOREM SavedFilesAreWhole == Spec => []SavedIsWhole
  BY Invariance, PTL DEF Inv
=============================================================================
