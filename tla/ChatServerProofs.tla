-------------------------- MODULE ChatServerProofs --------------------------
(***************************************************************************)
(* Theorems about the TCP chat server, for any number of peers, of lines   *)
(* and of places in the array of clients.                                  *)
(*                                                                         *)
(* Base is about descriptors, threads and the array: it gives the types    *)
(* and ListedAreServed.  Heard adds what each peer has received, for       *)
(* SameOrder and BroadcastIsComplete; both say nothing once main has       *)
(* copied another client's entry (mixedUp), after which little holds.      *)
(***************************************************************************)
EXTENDS ChatServer, SequenceTheorems, FiniteSetTheorems, TLAPS

\* A thread between its start and its end, and where it broadcasts.
Active == {"join", "read", "say", "leave", "remove", "close"}
Talking == {"join", "say", "leave"}

\* Whoever walks the array holds the lock, and main while it enters a client.
LockInv ==
  /\ mainPc = "enter" <=> lock = "main"
  /\ \A t \in Peers :
       idx[t] # 0 => lock = t /\ pc[t] \in Talking /\ idx[t] <= Len(clients) + 1

\* A peer connects once, waits, is accepted and gets its thread, and no two
\* descriptors are of the same peer.
PeerInv ==
  /\ \A f, g \in Fds : conn[f] # None /\ conn[f] = conn[g] => f = g
  /\ \A f \in Fds : conn[f] # None => conn[f] \notin backlog /\ peer[conn[f]] # "idle"
  /\ \A p \in backlog : peer[p] # "idle" /\ pc[p] = "none"
  /\ \A p \in Peers : pc[p] # "none" => peer[p] # "idle"
  /\ \A p \in Peers : pc[p] \in Active => me[p] \in Entry
  /\ mainPc # "accept" =>
       /\ accepted \in Entry
       /\ accepted.peer \notin backlog /\ peer[accepted.peer] # "idle"
       /\ pc[accepted.peer] = "none"

\* The descriptor of a thread is its own peer's until the thread closes it.
OwnerInv ==
  /\ \A t \in Peers : pc[t] \in Active => me[t].peer = t /\ conn[me[t].fd] = t
  /\ mainPc # "accept" => conn[accepted.fd] = accepted.peer

Base == TypeOK /\ LockInv /\ PeerInv /\ (~mixedUp => OwnerInv) /\ ListedAreServed

-----------------------------------------------------------------------------
\* A set of numbers has a least one.
LEMMA LeastOf ==
  ASSUME NEW S \in SUBSET Nat, S # {}
  PROVE  \E m \in S : \A x \in S : m <= x
<1>1. PICK m \in S : \A x \in S : ~ (<<x, m>> \in OpToRel(<, Nat))
  BY NatLessThanWellFounded, WFMin
<1>2. \A x \in S : ~ (x < m)
  BY <1>1 DEF OpToRel
<1> QED BY <1>2

\* While somebody waits to be accepted there is a free descriptor.
LEMMA FreeFd ==
  ASSUME TypeOK, PeerInv, NEW p \in backlog
  PROVE  LowestFree \in Fds /\ conn[LowestFree] = None
<1>1. \E f \in Fds : conn[f] = None
  <2> SUFFICES ASSUME \A f \in Fds : conn[f] # None PROVE FALSE
    OBVIOUS
  <2>1. p \in Peers /\ conn \in [Fds -> Peers \ {p}]
    BY DEF TypeOK, PeerInv
  <2>2. /\ Cardinality(Peers) \in Nat
        /\ IsFiniteSet(Fds) /\ Cardinality(Fds) = Cardinality(Peers)
    BY PeersAssumption, FS_CardinalityType, FS_Interval DEF Fds
  <2>3. IsFiniteSet(Peers \ {p}) /\ Cardinality(Peers \ {p}) = Cardinality(Peers) - 1
    BY <2>1, PeersAssumption, FS_RemoveElement
  <2>4. \E f, g \in Fds : f # g /\ conn[f] = conn[g]
    BY <2>1, <2>2, <2>3, FS_PigeonHole
  <2> QED BY <2>4 DEF PeerInv
<1>2. \E f \in Fds : conn[f] = None /\ \A g \in Fds : conn[g] = None => f <= g
  <2> DEFINE S == {f \in Fds : conn[f] = None}
  <2>1. S \in SUBSET Nat /\ S # {}
    BY <1>1 DEF Fds
  <2>2. \E m \in S : \A x \in S : m <= x
    <3> HIDE DEF S
    <3> QED BY <2>1, LeastOf
  <2> QED BY <2>2
<1> QED BY <1>2 DEF LowestFree

\* No two entries have the same descriptor.
Distinct(s) == \A i, j \in 1..Len(s) : s[i].fd = s[j].fd => i = j

\* Removing the entry of a descriptor leaves the other entries.
LEMMA RemovedEntries ==
  ASSUME clients \in Seq(Entry), NEW f
  PROVE  /\ WithoutFd(f) \in Seq(Entry)
         /\ Len(WithoutFd(f)) <= Len(clients)
         /\ \A k \in 1..Len(WithoutFd(f)) :
              \E j \in 1..Len(clients) : WithoutFd(f)[k] = clients[j]
         /\ Distinct(clients) =>
              /\ Distinct(WithoutFd(f))
              /\ \A k \in 1..Len(WithoutFd(f)) : WithoutFd(f)[k].fd # f
<1> DEFINE I == {i \in 1..Len(clients) : clients[i].fd = f}
           first == SelectInSeq(clients, LAMBDA e : e.fd = f)
<1>1. Len(clients) \in Nat /\ \A k \in 1..Len(clients) : clients[k] \in Entry
  BY LenProperties, ElementOfSeq
<1>2. first = IF I # {} THEN Min(I) ELSE 0
  BY DEF SelectInSeq
<1>3. I # {} => Min(I) \in I
  <2>1. I \in SUBSET Nat
    BY <1>1
  <2> HIDE DEF I
  <2> QED BY <2>1, LeastOf DEF Min
<1>4. CASE I = {}
  <2>1. WithoutFd(f) = clients
    BY <1>2, <1>4 DEF WithoutFd
  <2>2. \A k \in 1..Len(clients) : clients[k].fd # f
    BY <1>4
  <2> QED BY <1>1, <2>1, <2>2
<1>5. CASE I # {}
  <2>1. first \in 1..Len(clients) /\ clients[first].fd = f /\ first # 0
    BY <1>2, <1>3, <1>5
  <2> HIDE DEF first
  <2> DEFINE n == Len(clients)
             moved == [clients EXCEPT ![first] = clients[n]]
             r == SubSeq(moved, 1, n - 1)
  <2>2. n \in Nat /\ n >= 1 /\ clients[n] \in Entry
    BY <1>1, <2>1
  <2>3. /\ moved \in Seq(Entry) /\ Len(moved) = n
        /\ \A j \in 1..n : moved[j] = IF j = first THEN clients[n] ELSE clients[j]
    BY <2>1, <2>2, ExceptSeq
  <2>4. WithoutFd(f) = r
    BY <2>1, <2>3 DEF WithoutFd, Front, Last, first
  <2> HIDE DEF moved
  <2>5. /\ r \in Seq(Entry)
        /\ Len(r) = IF 1 <= n - 1 THEN n - 1 - 1 + 1 ELSE 0
        /\ \A k \in 1..(n - 1 - 1 + 1) : r[k] = moved[1 + k - 1]
    <3>1. \A k \in 1..(n - 1) : moved[k] \in Entry
      BY <2>2, <2>3, ElementOfSeq
    <3> HIDE DEF r, n
    <3> QED BY <2>2, <3>1, SubSeqProperties DEF r
  <2> HIDE DEF r, n
  <2>6. Len(r) = n - 1 /\ \A k \in 1..(n - 1) : r[k] = moved[k]
    BY <2>2, <2>5
  <2>7. \A k \in 1..(n - 1) : r[k] = clients[IF k = first THEN n ELSE k]
    BY <2>2, <2>3, <2>6
  <2>8. \A k \in 1..(n - 1) : (IF k = first THEN n ELSE k) \in 1..n \ {first}
    BY <2>1, <2>2 DEF n
  <2>9. Distinct(clients) =>
          Distinct(r) /\ \A k \in 1..Len(r) : r[k].fd # f
    BY <1>1, <2>1, <2>2, <2>6, <2>7, <2>8 DEF Distinct, n
  <2> QED BY <2>2, <2>4, <2>5, <2>6, <2>7, <2>8, <2>9 DEF n
<1> QED BY <1>4, <1>5

\* The place of a message is one where it lies, if it lies anywhere.
LEMMA PlaceFound ==
  ASSUME TypeOK, NEW p \in Peers, NEW m
  PROVE  /\ Place(p, m) # 0 =>
              Place(p, m) \in 1..Len(inbox[p]) /\ inbox[p][Place(p, m)] = m
         /\ Place(p, m) = 0 => \A i \in 1..Len(inbox[p]) : inbox[p][i] # m
<1> DEFINE I == {i \in 1..Len(inbox[p]) : inbox[p][i] = m}
<1>1. Place(p, m) = IF I # {} THEN Min(I) ELSE 0
  BY DEF Place, SelectInSeq
<1>2. I \in SUBSET Nat
  BY LenProperties DEF TypeOK
<1>3. I # {} => Min(I) \in I
  <2> HIDE DEF I
  <2> QED BY <1>2, LeastOf DEF Min
<1> QED BY <1>1, <1>2, <1>3

-----------------------------------------------------------------------------
\* What the array holds.
LEMMA Entries ==
  ASSUME TypeOK
  PROVE  /\ Len(clients) \in Nat
         /\ \A i \in 1..Len(clients) :
              clients[i] \in Entry /\ clients[i].fd \in Fds /\ clients[i].peer \in Peers
<1>1. clients \in Seq(Entry)
  BY DEF TypeOK
<1>2. \A i \in 1..Len(clients) : clients[i] \in Entry
  BY <1>1, ElementOfSeq
<1> QED BY <1>1, <1>2, LenProperties DEF Entry

LEMMA InitBase == Init => Base
<1> SUFFICES ASSUME Init PROVE Base
  OBVIOUS
<1>1. \A S : << >> \in Seq(S) /\ Len(<< >>) = 0
  BY EmptySeq
<1>2. TypeOK
  <2>1. 0 \in 0..MaxLines /\ 0 \in 0..(MAX_CLIENTS + 1) /\ 0 <= MAX_CLIENTS
    BY CapacityAssumption
  <2>2. Full \in Notes
    BY DEF Notes
  <2>3. /\ toServer \in [Peers -> Seq(1..MaxLines)] /\ inbox \in [Peers -> Seq(Notes)]
        /\ clients \in Seq(Entry) /\ Len(clients) <= MAX_CLIENTS
    BY <1>1, <2>1 DEF Init
  <2>4. /\ lines \in [Peers -> 0..MaxLines] /\ idx \in [Peers -> 0..(MAX_CLIENTS + 1)]
        /\ msg \in [Peers -> Notes]
    BY <2>1, <2>2 DEF Init
  <2> QED BY <2>3, <2>4 DEF Init, TypeOK
<1> QED
  BY <1>1, <1>2, PeersAssumption
  DEF Init, Base, LockInv, PeerInv, OwnerInv, ListedAreServed, Active

\* A peer connects, types or leaves.
LEMMA PeerStep ==
  ASSUME Base, NEW p \in Peers, Connect(p) \/ TypeLine(p) \/ Quit(p)
  PROVE  Base'
<1> USE DEF Base
<1>1. UNCHANGED <<inbox, reset, alive, conn, clients, lock, mainPc, accepted, mixedUp,
                  pc, me, msg, idx>>
  BY DEF Connect, TypeLine, Quit, mainVars, threadVars
<1>2. CASE Connect(p)
  <2>1. TypeOK'
    BY <1>1, <1>2 DEF TypeOK, Connect
  <2>2. PeerInv'
    <3>1. pc[p] = "none" /\ \A f \in Fds : conn[f] # p
      BY <1>2, PeersAssumption DEF Connect, PeerInv
    <3>2. mainPc # "accept" => accepted.peer # p
      BY <1>2 DEF Connect, PeerInv
    <3> QED BY <1>1, <1>2, <3>1, <3>2 DEF Connect, TypeOK, PeerInv
  <2> QED BY <1>1, <2>1, <2>2 DEF LockInv, OwnerInv, ListedAreServed
<1>3. CASE TypeLine(p)
  <2>1. TypeOK'
    <3>1. toServer[p] \in Seq(1..MaxLines) /\ lines[p] + 1 \in 1..MaxLines
      BY <1>3, CapacityAssumption, SMTT(30) DEF TypeOK, TypeLine
    <3>2. Append(toServer[p], lines[p] + 1) \in Seq(1..MaxLines)
      BY <3>1, AppendProperties
    <3>3. /\ lines' = [lines EXCEPT ![p] = lines[p] + 1]
          /\ toServer' = [toServer EXCEPT ![p] = Append(toServer[p], lines[p] + 1)]
          /\ UNCHANGED <<peer, backlog>>
      BY <1>3 DEF TypeLine
    <3>4. lines' \in [Peers -> 0..MaxLines] /\ toServer' \in [Peers -> Seq(1..MaxLines)]
      BY <3>1, <3>2, <3>3 DEF TypeOK
    <3> QED BY <1>1, <3>3, <3>4 DEF TypeOK
  <2> QED BY <1>1, <1>3, <2>1 DEF TypeLine, LockInv, PeerInv, OwnerInv, ListedAreServed
<1>4. CASE Quit(p)
  <2>1. TypeOK'
    <3>1. toServer' \in [Peers -> Seq(1..MaxLines)]
      <4>1. << >> \in Seq(1..MaxLines)
        BY EmptySeq
      <4> QED BY <1>4, <4>1 DEF TypeOK, Quit
    <3>2. peer' = [peer EXCEPT ![p] = "closed"] /\ UNCHANGED <<backlog, lines>>
      BY <1>4 DEF Quit
    <3> QED BY <1>1, <3>1, <3>2 DEF TypeOK
  <2>2. PeerInv'
    BY <1>1, <1>4 DEF Quit, TypeOK, PeerInv
  <2> QED BY <1>1, <2>1, <2>2 DEF LockInv, OwnerInv, ListedAreServed
<1> QED BY <1>2, <1>3, <1>4

\* An accepted connection gets a free descriptor, which nobody uses.
LEMMA AcceptStep == ASSUME Base, Accept PROVE Base'
<1> USE DEF Base
<1> DEFINE f == LowestFree
<1>1. PICK p \in backlog :
        /\ backlog' = backlog \ {p}
        /\ conn' = [conn EXCEPT ![f] = p]
        /\ accepted' = [fd |-> f, peer |-> p]
  BY DEF Accept
<1>2. /\ mainPc = "accept" /\ mainPc' = "lock"
      /\ UNCHANGED <<peer, lines, toServer, inbox, reset, alive, clients, lock, mixedUp,
                     pc, me, msg, idx>>
  BY DEF Accept, threadVars
<1>3. f \in Fds /\ conn[f] = None /\ p \in Peers /\ p # None
  BY FreeFd, PeersAssumption DEF TypeOK
<1> HIDE DEF f
<1>4. conn'[f] = p /\ \A g \in Fds \ {f} : conn'[g] = conn[g]
  BY <1>1, <1>3 DEF TypeOK
<1>5. accepted' \in Entry /\ accepted'.fd = f /\ accepted'.peer = p
  BY <1>1, <1>3 DEF Entry
<1>6. TypeOK'
  BY <1>1, <1>2, <1>3, <1>5 DEF TypeOK
<1>7. LockInv'
  BY <1>2 DEF LockInv
<1>8. PeerInv'
  <2>1. \A g \in Fds : conn[g] # p
    BY <1>3 DEF PeerInv
  <2>2. peer[p] # "idle" /\ pc[p] = "none"
    BY DEF PeerInv
  <2> QED BY <1>1, <1>2, <1>3, <1>4, <1>5, <2>1, <2>2 DEF PeerInv
<1>9. ~mixedUp => OwnerInv'
  <2>1. ~mixedUp => \A t \in Peers : pc[t] \in Active => me[t].fd \in Fds \ {f}
    BY <1>3, PeersAssumption DEF OwnerInv, PeerInv, Entry
  <2> QED BY <1>2, <1>4, <1>5, <2>1 DEF OwnerInv
<1>10. ListedAreServed'
  <2>1. ~mixedUp => \A i \in 1..Len(clients) : clients[i].fd \in Fds \ {f}
    <3> SUFFICES ASSUME ~mixedUp, NEW i \in 1..Len(clients)
                 PROVE  clients[i].fd \in Fds \ {f}
      OBVIOUS
    <3>1. clients[i] \in Entry
      BY ElementOfSeq DEF TypeOK
    <3> QED BY <1>3, <3>1, PeersAssumption DEF ListedAreServed, Entry
  <2> QED BY <1>2, <1>4, <2>1 DEF ListedAreServed
<1> QED BY <1>2, <1>6, <1>7, <1>8, <1>9, <1>10

\* The connection main is about to enter has no entry and no thread yet.
LEMMA AcceptedIsNew ==
  ASSUME Base, ~mixedUp, mainPc \notin {"accept", "copy"}
  PROVE  /\ \A i \in 1..Len(clients) : clients[i].fd # accepted.fd
         /\ \A t \in Peers : pc[t] \in Active => me[t].fd # accepted.fd
<1> USE DEF Base
<1>1. /\ accepted \in Entry /\ pc[accepted.peer] = "none"
      /\ conn[accepted.fd] = accepted.peer
  BY DEF PeerInv, OwnerInv
<1>2. ASSUME NEW i \in 1..Len(clients) PROVE clients[i].fd # accepted.fd
  <2>1. /\ conn[clients[i].fd] = clients[i].peer
        /\ pc[clients[i].peer] \in {"join", "read", "say", "leave", "remove"}
    BY DEF ListedAreServed
  <2> QED BY <1>1, <2>1
<1>3. ASSUME NEW t \in Peers, pc[t] \in Active PROVE me[t].fd # accepted.fd
  BY <1>1, <1>3 DEF OwnerInv, Active
<1> QED BY <1>2, <1>3

\* main takes the lock, or finds the array full.
LEMMA LockStep == ASSUME Base, AcceptLock \/ Refuse PROVE Base'
<1> USE DEF Base
<1>1. /\ mainPc \notin {"accept", "copy"} /\ mainPc' \notin {"accept", "copy"}
      /\ mainPc' \in {"accept", "lock", "enter", "turnAway", "copy"}
      /\ \/ mainPc' = "enter" /\ lock' = "main" /\ lock = None
         \/ mainPc' = "turnAway" /\ lock' = None /\ mainPc = "enter"
      /\ UNCHANGED <<peer, backlog, lines, toServer, inbox, reset, alive, conn, clients,
                     accepted, mixedUp, pc, me, msg, idx>>
  BY DEF AcceptLock, Refuse, netVars, threadVars
<1>2. TypeOK'
  BY <1>1 DEF TypeOK
<1>3. LockInv'
  BY <1>1, PeersAssumption DEF LockInv
<1> QED BY <1>1, <1>2, <1>3 DEF PeerInv, OwnerInv, ListedAreServed

\* The connection is entered in the array.
LEMMA EnterStep == ASSUME Base, Enter PROVE Base'
<1> USE DEF Base
<1>1. /\ mainPc = "enter" /\ mainPc' = "copy" /\ lock' = None
      /\ Len(clients) < MAX_CLIENTS /\ clients' = Append(clients, accepted)
      /\ UNCHANGED <<peer, backlog, lines, toServer, inbox, reset, alive, conn, accepted,
                     mixedUp, pc, me, msg, idx>>
  BY DEF Enter, netVars, threadVars
<1>2. accepted \in Entry /\ clients \in Seq(Entry) /\ Len(clients) \in Nat
  BY <1>1, LenProperties DEF PeerInv, TypeOK
<1>3. /\ clients' \in Seq(Entry) /\ Len(clients') = Len(clients) + 1
      /\ \A i \in 1..Len(clients) : clients'[i] = clients[i]
      /\ clients'[Len(clients) + 1] = accepted
  BY <1>1, <1>2, AppendProperties
<1>4. TypeOK'
  <2>1. Len(clients') <= MAX_CLIENTS
    BY <1>1, <1>2, <1>3, CapacityAssumption
  <2> QED BY <1>1, <1>3, <2>1 DEF TypeOK
<1>5. LockInv'
  <2>1. \A t \in Peers : idx[t] = 0
    BY <1>1, PeersAssumption DEF LockInv
  <2> QED BY <1>1, <2>1, PeersAssumption DEF LockInv
<1>6. PeerInv' /\ (~mixedUp => OwnerInv')
  BY <1>1 DEF PeerInv, OwnerInv
<1>7. ListedAreServed'
  <2> SUFFICES ASSUME ~mixedUp, NEW i \in 1..Len(clients')
               PROVE  /\ conn[clients'[i].fd] = clients'[i].peer
                      /\ \A j \in 1..Len(clients') : clients'[j].fd = clients'[i].fd => i = j
                      /\ \/ /\ me[clients'[i].peer] = clients'[i]
                            /\ pc[clients'[i].peer] \in {"join", "read", "say", "leave", "remove"}
                         \/ accepted = clients'[i]
    BY <1>1 DEF ListedAreServed
  <2>1. /\ \A k \in 1..Len(clients) : clients[k].fd # accepted.fd
        /\ conn[accepted.fd] = accepted.peer
    BY <1>1, AcceptedIsNew DEF OwnerInv
  <2>2. \A j \in 1..Len(clients') : j \in 1..Len(clients) \/ j = Len(clients) + 1
    BY <1>2, <1>3
  <2>3. CASE i = Len(clients) + 1
    BY <1>3, <2>1, <2>2, <2>3
  <2>4. CASE i \in 1..Len(clients)
    BY <1>1, <1>3, <2>1, <2>2, <2>4 DEF ListedAreServed
  <2> QED BY <2>2, <2>3, <2>4
<1> QED BY <1>1, <1>4, <1>5, <1>6, <1>7

\* main copies an entry and starts the thread.
LEMMA CopyStep == ASSUME Base, CopyAndSpawn PROVE Base'
<1> USE DEF Base
<1> DEFINE p == accepted.peer
<1>1. PICK entry \in LastEntries :
        /\ me' = [me EXCEPT ![p] = entry]
        /\ pc' = [pc EXCEPT ![p] = IF entry = NoEntry THEN "done" ELSE "join"]
        /\ msg' = [msg EXCEPT ![p] = Note(entry.peer, Joined)]
        /\ mixedUp' = (mixedUp \/ entry # accepted)
  BY DEF CopyAndSpawn
<1>2. /\ mainPc = "copy" /\ mainPc' = "accept"
      /\ UNCHANGED <<peer, backlog, lines, toServer, inbox, reset, alive, conn, clients,
                     lock, accepted, idx>>
  BY DEF CopyAndSpawn, netVars
<1>3. /\ accepted \in Entry /\ p \in Peers /\ pc[p] = "none" /\ peer[p] # "idle"
      /\ idx[p] = 0
  BY <1>2 DEF PeerInv, LockInv, Entry, Talking
<1>4. entry \in Entry \cup {NoEntry}
  <2>1. CASE Len(clients) = 0
    BY <1>1, <2>1 DEF LastEntries
  <2>2. CASE Len(clients) # 0
    <3>1. \A i \in 1..Len(clients) : clients[i].fd \in Fds /\ clients[i].peer \in Peers
      BY Entries
    <3>2. Len(clients) \in 1..Len(clients)
      BY <2>2, LenProperties DEF TypeOK
    <3> QED BY <1>1, <2>2, <3>1, <3>2 DEF LastEntries, Entry
  <2> QED BY <2>1, <2>2
<1> HIDE DEF p
<1>5. TypeOK'
  <2>1. Note(entry.peer, Joined) \in Notes
    BY <1>4, CapacityAssumption DEF Notes, Note, Full, NoEntry, Entry, Joined, Left
  <2> QED BY <1>1, <1>2, <1>3, <1>4, <2>1 DEF TypeOK
<1>6. /\ me'[p] = entry /\ pc'[p] = IF entry = NoEntry THEN "done" ELSE "join"
      /\ \A t \in Peers \ {p} : me'[t] = me[t] /\ pc'[t] = pc[t]
  BY <1>1, <1>3 DEF TypeOK
<1>7. LockInv'
  BY <1>2, <1>3, <1>6 DEF LockInv
<1>8. PeerInv'
  <2>1. p \notin backlog
    BY <1>2 DEF PeerInv, p
  <2>2. \A t \in Peers : pc'[t] \in Active => me'[t] \in Entry
    BY <1>4, <1>6 DEF PeerInv, Active
  <2>3. \A t \in Peers : pc'[t] # "none" => peer[t] # "idle"
    BY <1>3, <1>6 DEF PeerInv
  <2>4. \A t \in backlog : peer[t] # "idle" /\ pc'[t] = "none"
    BY <1>6, <2>1 DEF PeerInv, TypeOK
  <2> QED BY <1>2, <2>2, <2>3, <2>4 DEF PeerInv
<1>9. ASSUME ~mixedUp'
      PROVE  ~mixedUp /\ entry = accepted /\ pc'[p] = "join"
  <2>1. accepted # NoEntry
    BY <1>3 DEF Entry, NoEntry, Fds
  <2> QED BY <1>1, <1>6, <1>9, <2>1
<1>10. ~mixedUp' => OwnerInv'
  BY <1>2, <1>6, <1>9 DEF OwnerInv, p
<1>11. ListedAreServed'
  <2> SUFFICES ASSUME ~mixedUp', NEW i \in 1..Len(clients)
               PROVE  /\ conn[clients[i].fd] = clients[i].peer
                      /\ \A j \in 1..Len(clients) : clients[j].fd = clients[i].fd => i = j
                      /\ me'[clients[i].peer] = clients[i]
                      /\ pc'[clients[i].peer] \in {"join", "read", "say", "leave", "remove"}
    BY <1>2 DEF ListedAreServed
  <2>1. clients[i].peer \in Peers
    BY Entries
  <2>2. CASE accepted = clients[i]
    BY <1>6, <1>9, <2>2 DEF ListedAreServed, p
  <2>3. CASE accepted # clients[i]
    BY <1>3, <1>6, <1>9, <2>1, <2>3 DEF ListedAreServed
  <2> QED BY <2>2, <2>3
<1> QED BY <1>5, <1>7, <1>8, <1>10, <1>11

\* A write to a descriptor reaches the peer behind it if that is there.
LEMMA WriteEffect ==
  ASSUME TypeOK, NEW f \in Fds, NEW m \in Notes, Write(f, m)
  PROVE  /\ inbox' \in [Peers -> Seq(Notes)] /\ reset' \in [Peers -> BOOLEAN]
         /\ alive' \in BOOLEAN
         /\ \/ inbox' = inbox
            \/ /\ conn[f] \in Peers
               /\ inbox' = [inbox EXCEPT ![conn[f]] = Append(inbox[conn[f]], m)]
         /\ conn[f] \in Peers /\ peer[conn[f]] = "open" =>
               inbox' = [inbox EXCEPT ![conn[f]] = Append(inbox[conn[f]], m)]
<1>1. conn[f] # None => conn[f] \in Peers
  BY DEF TypeOK
<1>2. conn[f] \in Peers => Append(inbox[conn[f]], m) \in Seq(Notes)
  BY AppendProperties DEF TypeOK
<1>3. conn[f] \in Peers => conn[f] # None
  BY PeersAssumption
<1> QED BY <1>1, <1>2, <1>3, ZenonT(60) DEF Write, TypeOK

\* A connection too many is told so and closed.
LEMMA TurnAwayStep == ASSUME Base, TurnAway PROVE Base'
<1> USE DEF Base
<1>1. /\ mainPc = "turnAway" /\ mainPc' = "accept"
      /\ Write(accepted.fd, Full)
      /\ conn' = [conn EXCEPT ![accepted.fd] = None]
      /\ UNCHANGED <<peer, backlog, lines, toServer, clients, lock, accepted, mixedUp,
                     pc, me, msg, idx>>
  BY DEF TurnAway, threadVars
<1>2. accepted.fd \in Fds
  BY <1>1 DEF PeerInv, Entry
<1>3. /\ inbox' \in [Peers -> Seq(Notes)] /\ reset' \in [Peers -> BOOLEAN]
      /\ alive' \in BOOLEAN
  BY <1>1, <1>2, WriteEffect DEF Notes
<1>4. TypeOK'
  BY <1>1, <1>2, <1>3 DEF TypeOK
<1>5. conn'[accepted.fd] = None /\ \A g \in Fds \ {accepted.fd} : conn'[g] = conn[g]
  BY <1>1, <1>2 DEF TypeOK
<1>6. LockInv'
  BY <1>1 DEF LockInv
<1>7. PeerInv'
  BY <1>1, <1>2, <1>5 DEF PeerInv
<1>8. ASSUME ~mixedUp PROVE OwnerInv' /\ ListedAreServed'
  <2>1. /\ \A i \in 1..Len(clients) : clients[i].fd # accepted.fd
        /\ \A t \in Peers : pc[t] \in Active => me[t].fd # accepted.fd
    BY <1>1, <1>8, AcceptedIsNew
  <2>2. /\ \A t \in Peers : pc[t] \in Active => me[t].fd \in Fds
        /\ \A i \in 1..Len(clients) : clients[i].fd \in Fds
    BY Entries DEF PeerInv, Entry
  <2>3. OwnerInv'
    BY <1>1, <1>5, <1>8, <2>1, <2>2 DEF OwnerInv
  <2>4. ListedAreServed'
    BY <1>1, <1>5, <1>8, <2>1, <2>2 DEF ListedAreServed
  <2> QED BY <2>3, <2>4
<1> QED BY <1>1, <1>4, <1>6, <1>7, <1>8 DEF ListedAreServed

\* A thread that goes on does not disturb PeerInv.
LEMMA SamePeers ==
  ASSUME TypeOK, PeerInv, UNCHANGED <<peer, backlog, conn, mainPc, accepted, me>>,
         \A s \in Peers : /\ pc'[s] = "none" <=> pc[s] = "none"
                          /\ pc'[s] \in Active => pc[s] \in Active
  PROVE  PeerInv'
<1>1. \A s \in backlog : s \in Peers
  BY DEF TypeOK
<1>2. mainPc # "accept" => accepted.peer \in Peers
  BY DEF PeerInv, Entry
<1> QED BY <1>1, <1>2 DEF PeerInv

\* A thread takes the lock for a broadcast.
LEMMA BroadcastLockStep ==
  ASSUME Base, NEW t \in Peers, BroadcastLock(t) PROVE Base'
<1> USE DEF Base
<1>1. /\ pc[t] \in Talking /\ idx[t] = 0 /\ lock = None /\ lock' = t
      /\ idx' = [idx EXCEPT ![t] = 1]
      /\ UNCHANGED <<peer, backlog, lines, toServer, inbox, reset, alive, conn, clients,
                     mainPc, accepted, mixedUp, pc, me, msg>>
  BY DEF BroadcastLock, netVars, mainVars, Talking
<1>2. TypeOK'
  BY <1>1, CapacityAssumption DEF TypeOK
<1>3. LockInv'
  <2>1. t # "main" /\ t # None /\ mainPc # "enter"
    BY <1>1, PeersAssumption DEF LockInv
  <2>2. \A s \in Peers : s # t => idx'[s] = 0
    BY <1>1, PeersAssumption DEF LockInv, TypeOK
  <2>3. idx'[t] = 1 /\ 1 <= Len(clients) + 1
    BY <1>1, Entries DEF TypeOK
  <2> QED BY <1>1, <2>1, <2>2, <2>3 DEF LockInv
<1> QED BY <1>1, <1>2, <1>3 DEF PeerInv, OwnerInv, ListedAreServed

\* A thread writes its message to the next client.
LEMMA BroadcastWriteStep ==
  ASSUME Base, NEW t \in Peers, BroadcastWrite(t) PROVE Base'
<1> USE DEF Base
<1>1. /\ idx[t] \in 1..Len(clients)
      /\ idx' = [idx EXCEPT ![t] = idx[t] + 1]
      /\ UNCHANGED <<peer, backlog, lines, toServer, conn, clients, lock,
                     mainPc, accepted, mixedUp, pc, me, msg>>
  BY DEF BroadcastWrite, mainVars
<1>2. /\ inbox' \in [Peers -> Seq(Notes)] /\ reset' \in [Peers -> BOOLEAN]
      /\ alive' \in BOOLEAN
  <2>1. CASE Write(clients[idx[t]].fd, msg[t])
    <3>1. clients[idx[t]].fd \in Fds /\ msg[t] \in Notes
      BY <1>1, Entries DEF TypeOK
    <3> QED BY <2>1, <3>1, WriteEffect
  <2>2. CASE UNCHANGED <<inbox, reset, alive>>
    BY <2>2 DEF TypeOK
  <2> QED BY <2>1, <2>2 DEF BroadcastWrite
<1>3. idx[t] \in Nat /\ idx[t] + 1 <= Len(clients) + 1 /\ idx[t] + 1 \in 0..(MAX_CLIENTS + 1)
  <2>1. /\ Len(clients) \in Nat /\ Len(clients) <= MAX_CLIENTS /\ MAX_CLIENTS \in Nat
        /\ idx[t] \in 1..Len(clients)
    BY <1>1, Entries, CapacityAssumption DEF TypeOK
  <2> QED BY <2>1
<1>4. TypeOK'
  BY <1>1, <1>2, <1>3 DEF TypeOK
<1>5. LockInv'
  BY <1>1, <1>3, SMTT(30) DEF LockInv, TypeOK
<1> QED BY <1>1, <1>4, <1>5 DEF PeerInv, OwnerInv, ListedAreServed

\* A broadcast is over.
LEMMA BroadcastUnlockStep ==
  ASSUME Base, NEW t \in Peers, BroadcastUnlock(t) PROVE Base'
<1> USE DEF Base
<1>1. /\ idx[t] > Len(clients) /\ lock' = None
      /\ idx' = [idx EXCEPT ![t] = 0]
      /\ pc' = [pc EXCEPT ![t] = IF pc[t] = "leave" THEN "remove" ELSE "read"]
      /\ UNCHANGED <<peer, backlog, lines, toServer, inbox, reset, alive, conn, clients,
                     mainPc, accepted, mixedUp, me, msg>>
  BY DEF BroadcastUnlock, Goto, netVars, mainVars
<1>2. lock = t /\ pc[t] \in Talking
  BY <1>1, Entries DEF LockInv, TypeOK
<1>3. TypeOK'
  <2>1. 0 \in 0..(MAX_CLIENTS + 1)
    BY CapacityAssumption
  <2>2. idx' \in [Peers -> 0..(MAX_CLIENTS + 1)]
    BY <1>1, <2>1 DEF TypeOK
  <2>3. pc' \in [Peers -> {"none", "join", "read", "say", "leave", "remove", "close", "done"}]
    BY <1>1 DEF TypeOK
  <2> QED BY <1>1, <2>2, <2>3 DEF TypeOK
<1>4. LockInv'
  <2>1. mainPc # "enter"
    BY <1>2, PeersAssumption DEF LockInv
  <2>2. \A s \in Peers : idx'[s] = 0
    BY <1>1, <1>2 DEF LockInv, TypeOK
  <2> QED BY <1>1, <2>1, <2>2, PeersAssumption DEF LockInv
<1>5. /\ pc[t] \in {"join", "read", "say", "leave", "remove"}
      /\ pc'[t] \in {"join", "read", "say", "leave", "remove"}
      /\ \A s \in Peers \ {t} : pc'[s] = pc[s]
  BY <1>1, <1>2 DEF TypeOK, Talking
<1>6. \A s \in Peers : /\ pc'[s] = "none" <=> pc[s] = "none"
                       /\ pc'[s] \in Active <=> pc[s] \in Active
  BY <1>5 DEF Active
<1>7. PeerInv'
  BY <1>1, <1>6, SamePeers
<1>8. ~mixedUp => OwnerInv'
  BY <1>1, <1>6 DEF OwnerInv
<1>9. ListedAreServed'
  BY <1>1, <1>5, Entries DEF ListedAreServed
<1> QED BY <1>1, <1>3, <1>4, <1>7, <1>8, <1>9

\* read returns a line or the end of the stream.
LEMMA ReadStep ==
  ASSUME Base, NEW t \in Peers, ReadLine(t) \/ ReadEnd(t) PROVE Base'
<1> USE DEF Base
<1> DEFINE q == conn[me[t].fd]
<1>1. /\ pc[t] = "read" /\ pc' = [pc EXCEPT ![t] = pc'[t]] /\ pc'[t] \in {"say", "leave"}
      /\ msg' = [msg EXCEPT ![t] = msg'[t]]
      /\ UNCHANGED <<peer, backlog, lines, inbox, reset, alive, conn, clients, lock,
                     mainPc, accepted, mixedUp, me, idx>>
  BY DEF ReadLine, ReadEnd, Goto, netVars, mainVars, TypeOK
<1>2. me[t] \in Entry /\ q \in Peers \cup {None}
  BY <1>1 DEF PeerInv, Active, TypeOK, Entry
<1>3. toServer' \in [Peers -> Seq(1..MaxLines)] /\ msg'[t] \in Notes
  <2>1. CASE ReadLine(t)
    <3>1. /\ q \in Peers /\ toServer[q] # << >>
          /\ toServer' = [toServer EXCEPT ![q] = Tail(toServer[q])]
          /\ msg' = [msg EXCEPT ![t] = Note(me[t].peer, Head(toServer[q]))]
      BY <1>2, <2>1 DEF ReadLine
    <3> HIDE DEF q
    <3>2. /\ Head(toServer[q]) \in 1..MaxLines
          /\ Tail(toServer[q]) \in Seq(1..MaxLines)
      BY <3>1, HeadTailProperties DEF TypeOK
    <3>3. Note(me[t].peer, Head(toServer[q])) \in Notes
      BY <1>2, <3>2, CapacityAssumption DEF Note, Notes, Entry, Left
    <3> QED BY <3>1, <3>2, <3>3 DEF TypeOK
  <2>2. CASE ReadEnd(t)
    <3>1. toServer' = toServer /\ msg' = [msg EXCEPT ![t] = Note(me[t].peer, Left)]
      BY <2>2 DEF ReadEnd, netVars
    <3>2. Note(me[t].peer, Left) \in Notes
      BY <1>2, CapacityAssumption DEF Note, Notes, Entry, Left
    <3> QED BY <3>1, <3>2 DEF TypeOK
  <2> QED BY <2>1, <2>2
<1>4. TypeOK'
  BY <1>1, <1>3, ZenonT(60) DEF TypeOK
<1>5. LockInv'
  <2>1. idx[t] = 0 /\ \A s \in Peers \ {t} : pc'[s] = pc[s]
    BY <1>1 DEF LockInv, Talking, TypeOK
  <2> QED BY <1>1, <2>1 DEF LockInv
<1>6. /\ pc[t] \in {"join", "read", "say", "leave", "remove"}
      /\ pc'[t] \in {"join", "read", "say", "leave", "remove"}
      /\ \A s \in Peers \ {t} : pc'[s] = pc[s]
  BY <1>1 DEF TypeOK
<1>7. \A s \in Peers : /\ pc'[s] = "none" <=> pc[s] = "none"
                       /\ pc'[s] \in Active <=> pc[s] \in Active
  BY <1>6 DEF Active
<1>8. PeerInv'
  BY <1>1, <1>7, SamePeers
<1>9. ~mixedUp => OwnerInv'
  BY <1>1, <1>7 DEF OwnerInv
<1>10. ListedAreServed'
  BY <1>1, <1>6, Entries DEF ListedAreServed
<1> QED BY <1>1, <1>4, <1>5, <1>8, <1>9, <1>10

\* A thread takes its client out of the array: no entry is left for it, and
\* the others keep theirs.
LEMMA RemoveStep ==
  ASSUME Base, NEW t \in Peers, RemoveClient(t) PROVE Base'
<1> USE DEF Base
<1>1. /\ pc[t] = "remove" /\ lock = None
      /\ clients' = WithoutFd(me[t].fd)
      /\ pc' = [pc EXCEPT ![t] = "close"]
      /\ UNCHANGED <<peer, backlog, lines, toServer, inbox, reset, alive, conn, lock,
                     mainPc, accepted, mixedUp, me, msg, idx>>
  BY DEF RemoveClient, Goto, netVars, mainVars
<1>2. /\ clients' \in Seq(Entry) /\ Len(clients') <= Len(clients)
      /\ \A k \in 1..Len(clients') :
           \E j \in 1..Len(clients) : clients'[k] = clients[j]
      /\ Distinct(clients) =>
           /\ Distinct(clients')
           /\ \A k \in 1..Len(clients') : clients'[k].fd # me[t].fd
  BY <1>1, RemovedEntries DEF TypeOK
<1>3. TypeOK'
  <2>1. Len(clients) \in Nat /\ Len(clients') \in Nat /\ Len(clients') <= MAX_CLIENTS
    BY <1>2, Entries, LenProperties, CapacityAssumption DEF TypeOK
  <2> QED BY <1>1, <1>2, <2>1 DEF TypeOK
<1>4. LockInv'
  <2>1. \A s \in Peers : idx[s] = 0
    BY <1>1, PeersAssumption DEF LockInv
  <2> QED BY <1>1, <2>1 DEF LockInv
<1>5. pc'[t] = "close" /\ \A s \in Peers \ {t} : pc'[s] = pc[s]
  BY <1>1 DEF TypeOK
<1>6. \A s \in Peers : /\ pc'[s] = "none" <=> pc[s] = "none"
                       /\ pc'[s] \in Active <=> pc[s] \in Active
  BY <1>1, <1>5 DEF Active
<1>7. PeerInv'
  BY <1>1, <1>6, SamePeers
<1>8. ~mixedUp => OwnerInv'
  BY <1>1, <1>6 DEF OwnerInv
<1>9. ListedAreServed'
  <2> SUFFICES ASSUME ~mixedUp, NEW i \in 1..Len(clients')
               PROVE  /\ conn[clients'[i].fd] = clients'[i].peer
                      /\ \A j \in 1..Len(clients') : clients'[j].fd = clients'[i].fd => i = j
                      /\ \/ /\ me[clients'[i].peer] = clients'[i]
                            /\ pc'[clients'[i].peer] \in {"join", "read", "say", "leave", "remove"}
                         \/ mainPc = "copy" /\ accepted = clients'[i]
    BY <1>1 DEF ListedAreServed
  <2>1. Distinct(clients)
    BY DEF ListedAreServed, Distinct
  <2>2. PICK j \in 1..Len(clients) : clients'[i] = clients[j]
    BY <1>2
  <2>3. clients[j].peer = t /\ me[t] = clients[j] => FALSE
    BY <1>2, <2>1, <2>2
  <2>4. /\ conn[clients[j].fd] = clients[j].peer
        /\ \/ /\ me[clients[j].peer] = clients[j]
              /\ pc[clients[j].peer] \in {"join", "read", "say", "leave", "remove"}
           \/ mainPc = "copy" /\ accepted = clients[j]
        /\ clients[j].peer \in Peers
    BY Entries DEF ListedAreServed
  <2>5. \A k \in 1..Len(clients') : clients'[k].fd = clients'[i].fd => i = k
    BY <1>2, <2>1 DEF Distinct
  <2> QED BY <1>5, <2>2, <2>3, <2>4, <2>5
<1> QED BY <1>1, <1>3, <1>4, <1>7, <1>8, <1>9

\* A thread closes its descriptor, which no entry and no other thread has.
LEMMA CloseStep ==
  ASSUME Base, NEW t \in Peers, Close(t) PROVE Base'
<1> USE DEF Base
<1> DEFINE f == me[t].fd
<1>1. /\ pc[t] = "close" /\ conn' = [conn EXCEPT ![f] = None]
      /\ pc' = [pc EXCEPT ![t] = "done"]
      /\ UNCHANGED <<peer, backlog, lines, toServer, inbox, reset, alive, clients, lock,
                     mainPc, accepted, mixedUp, me, msg, idx>>
  BY DEF Close, Goto, netVars, mainVars
<1>2. f \in Fds
  BY <1>1 DEF PeerInv, Active, Entry
<1>3. TypeOK'
  BY <1>1 DEF TypeOK
<1>4. /\ pc'[t] = "done" /\ \A s \in Peers \ {t} : pc'[s] = pc[s]
      /\ conn'[f] = None /\ \A g \in Fds \ {f} : conn'[g] = conn[g]
  BY <1>1, <1>2 DEF TypeOK
<1>5. LockInv'
  BY <1>1, <1>4 DEF LockInv, Talking
<1>6. \A s \in Peers : /\ pc'[s] = "none" <=> pc[s] = "none"
                       /\ pc'[s] \in Active => pc[s] \in Active /\ s # t
  BY <1>1, <1>4 DEF Active
<1>7. PeerInv'
  <2>1. \A g \in Fds : conn'[g] # None => conn'[g] = conn[g] /\ conn[g] # None
    BY <1>2, <1>4
  <2>2. \A s \in Peers : pc'[s] \in Active => me[s] \in Entry
    BY <1>6 DEF PeerInv
  <2>3. backlog \subseteq Peers
    BY DEF TypeOK
  <2>4. \A g, h \in Fds : conn'[g] # None /\ conn'[g] = conn'[h] => g = h
    BY <2>1 DEF PeerInv
  <2>5. \A s \in backlog : peer[s] # "idle" /\ pc'[s] = "none"
    BY <1>6, <2>3 DEF PeerInv
  <2>6. mainPc # "accept" =>
          /\ accepted \in Entry
          /\ accepted.peer \notin backlog /\ peer[accepted.peer] # "idle"
          /\ pc'[accepted.peer] = "none"
    BY <1>6 DEF PeerInv, Entry
  <2> QED BY <1>1, <1>6, <2>1, <2>2, <2>4, <2>5, <2>6 DEF PeerInv
<1> HIDE DEF f
<1>8. ASSUME ~mixedUp PROVE OwnerInv' /\ ListedAreServed'
  <2>1. conn[f] = t /\ t # None
    BY <1>1, <1>8, PeersAssumption DEF OwnerInv, Active, f
  <2>2. \A s \in Peers : pc'[s] \in Active => me[s].peer = s /\ me[s].fd \in Fds \ {f}
    BY <1>6, <1>8, <2>1 DEF OwnerInv, PeerInv, Entry
  <2>3. mainPc # "accept" => accepted.fd \in Fds \ {f}
    BY <1>1, <1>8, <2>1 DEF OwnerInv, PeerInv, Entry
  <2>4. OwnerInv'
    BY <1>1, <1>4, <1>6, <1>8, <2>2, <2>3 DEF OwnerInv
  <2>5. ASSUME NEW i \in 1..Len(clients)
        PROVE  clients[i].fd \in Fds \ {f} /\ clients[i].peer \in Peers \ {t}
    <3>1. clients[i].fd \in Fds /\ clients[i].peer \in Peers
      BY Entries
    <3>2. clients[i].peer # t
      BY <1>1, <1>8, <3>1 DEF ListedAreServed, PeerInv
    <3> QED BY <1>8, <2>1, <3>1, <3>2 DEF ListedAreServed
  <2>6. ListedAreServed'
    BY <1>1, <1>4, <1>8, <2>5 DEF ListedAreServed
  <2> QED BY <2>4, <2>6
<1> QED BY <1>1, <1>3, <1>5, <1>7, <1>8 DEF ListedAreServed

LEMMA BaseStep == Base /\ [Next]_vars => Base'
<1> SUFFICES ASSUME Base, [Next]_vars PROVE Base'
  OBVIOUS
<1>1. CASE Main
  BY <1>1, AcceptStep, LockStep, EnterStep, CopyStep, TurnAwayStep DEF Main
<1>2. ASSUME NEW p \in Peers, Thread(p) PROVE Base'
  BY <1>2, BroadcastLockStep, BroadcastWriteStep, BroadcastUnlockStep, ReadStep,
     RemoveStep, CloseStep DEF Thread
<1>3. ASSUME NEW p \in Peers, Connect(p) \/ TypeLine(p) \/ Quit(p) PROVE Base'
  BY <1>3, PeerStep
<1>4. CASE UNCHANGED vars
  BY <1>4 DEF vars, netVars, mainVars, threadVars, Base, TypeOK, LockInv, PeerInv, OwnerInv,
     ListedAreServed
<1> QED BY <1>1, <1>2, <1>3, <1>4 DEF Next

LEMMA BaseInvariance == Spec => []Base
  BY InitBase, BaseStep, PTL DEF Spec

\* Every variable of the server keeps its type: the array never has more than
\* MAX_CLIENTS entries, and no message is one that nobody said.
THEOREM TypeCorrect == Spec => []TypeOK
  BY BaseInvariance, PTL DEF Base

\* Every entry of the array stands for an open connection of its own, which one
\* thread serves or is about to be started for, until main has copied a wrong
\* entry.
THEOREM ListedServed == Spec => []ListedAreServed
  BY BaseInvariance, PTL DEF Base

-----------------------------------------------------------------------------
\* What a thread says is of its own peer; after its last line that has left.
SaidInv ==
  \A t \in Peers :
    /\ pc[t] # "none" => msg[t].from = t
    /\ pc[t] \in {"leave", "remove", "close", "done"} =>
         peer[t] = "closed" /\ toServer[t] = << >>
    /\ pc[t] \notin {"leave", "remove", "close", "done"} => msg[t].what <= lines[t]

\* The lines under way come after the one said last, in the order typed.
LinesInv ==
  \A t \in Peers :
    \A k \in 1..Len(toServer[t]) :
      /\ msg[t].what < toServer[t][k] /\ toServer[t][k] <= lines[t]
      /\ \A j \in 1..(k - 1) : toServer[t][j] < toServer[t][k]

\* A message that has been heard is the one its thread says now, or an earlier.
Spoken(n) ==
  /\ n.from \in Peers /\ pc[n.from] # "none"
  /\ n.what <= msg[n.from].what
  /\ pc[n.from] \in Talking /\ idx[n.from] = 0 => n.what < msg[n.from].what

HeardInv ==
  \A p \in Peers : \A i \in 1..Len(inbox[p]) : inbox[p][i] # Full => Spoken(inbox[p][i])

\* The message of a broadcast is the last its receivers have, and those come
\* before the place in the array the broadcast has got to.
NewestInv ==
  \A t \in Peers :
    idx[t] # 0 =>
      \A p \in Peers : \A i \in 1..Len(inbox[p]) :
        inbox[p][i] = msg[t] =>
          i = Len(inbox[p]) /\ \E k \in 1..(idx[t] - 1) : clients[k].peer = p

\* Nobody hears anything before it is in the array.
FreshInv ==
  \A p \in Peers :
    \/ p \in backlog \/ peer[p] = "idle"
    \/ mainPc \notin {"accept", "copy"} /\ accepted.peer = p
    => inbox[p] = << >>

\* Nobody hears a message twice ...
OnceInv ==
  \A p \in Peers : \A i, j \in 1..Len(inbox[p]) :
    inbox[p][i] = inbox[p][j] /\ inbox[p][i] # Full => i = j

\* ... nor two messages in another order than somebody else.
OrderInv ==
  \A p, q \in Peers :
    \A i, j \in 1..Len(inbox[p]), a, b \in 1..Len(inbox[q]) :
      /\ i < j /\ inbox[p][i] # Full /\ inbox[p][j] # Full
      /\ inbox[q][a] = inbox[p][i] /\ inbox[q][b] = inbox[p][j]
      => a < b

\* The clients a broadcast has passed have its message.
ReachInv ==
  \A t \in Peers :
    idx[t] # 0 =>
      \A k \in 1..Len(clients) :
        k < idx[t] /\ clients[k].peer # t /\ peer[clients[k].peer] = "open" =>
          \E i \in 1..Len(inbox[clients[k].peer]) : inbox[clients[k].peer][i] = msg[t]

Msgs ==
  SaidInv /\ LinesInv /\ HeardInv /\ NewestInv /\ FreshInv /\ OnceInv /\ OrderInv /\ ReachInv

MsgInv == ~mixedUp => Msgs

-----------------------------------------------------------------------------
\* The parts of a message; only Full is of nobody.
LEMMA NoteParts ==
  \A n \in Notes : n.what \in Nat /\ n.what <= Left /\ (n = Full <=> n.from = None)
<1>1. Left \in Nat /\ 0 <= Left
  BY CapacityAssumption DEF Left
<1>2. Full.what = 0 /\ Full.from = None
  BY DEF Full, Note
<1>3. \A n \in [from : Peers, what : 0..Left] :
        n.what \in Nat /\ n.what <= Left /\ n.from # None
  BY <1>1, PeersAssumption
<1> QED BY <1>1, <1>2, <1>3 DEF Notes

\* What is in the inboxes and in the messages being said.
LEMMA NoteTypes ==
  ASSUME TypeOK
  PROVE  /\ \A p \in Peers : /\ Len(inbox[p]) \in Nat
                             /\ \A i \in 1..Len(inbox[p]) : inbox[p][i] \in Notes
         /\ \A t \in Peers : msg[t] \in Notes /\ msg[t].what \in Nat /\ msg[t].what <= Left
         /\ \A t \in Peers : /\ Len(toServer[t]) \in Nat /\ lines[t] \in Nat /\ lines[t] < Left
                             /\ \A k \in 1..Len(toServer[t]) : toServer[t][k] \in Nat
<1>1. ASSUME NEW p \in Peers
      PROVE  Len(inbox[p]) \in Nat /\ \A i \in 1..Len(inbox[p]) : inbox[p][i] \in Notes
  <2>1. inbox[p] \in Seq(Notes)
    BY DEF TypeOK
  <2> QED BY <2>1, LenProperties, ElementOfSeq
<1>2. \A t \in Peers : msg[t] \in Notes
  BY DEF TypeOK
<1>3. ASSUME NEW t \in Peers
      PROVE  /\ Len(toServer[t]) \in Nat /\ lines[t] \in Nat /\ lines[t] < Left
             /\ \A k \in 1..Len(toServer[t]) : toServer[t][k] \in Nat
  <2>1. toServer[t] \in Seq(1..MaxLines) /\ lines[t] \in 0..MaxLines
    BY DEF TypeOK
  <2>2. \A k \in 1..Len(toServer[t]) : toServer[t][k] \in 1..MaxLines
    BY <2>1, ElementOfSeq
  <2>3. Len(toServer[t]) \in Nat
    BY <2>1, LenProperties
  <2> QED BY <2>1, <2>2, <2>3, CapacityAssumption DEF Left
<1> QED BY <1>1, <1>2, <1>3, NoteParts

\* A message that goes to the end of the inbox of q.
LEMMA Delivered ==
  ASSUME TypeOK, NEW q \in Peers, NEW m \in Notes,
         inbox' = [inbox EXCEPT ![q] = Append(inbox[q], m)]
  PROVE  /\ Len(inbox'[q]) = Len(inbox[q]) + 1
         /\ inbox'[q][Len(inbox[q]) + 1] = m
         /\ \A p \in Peers \ {q} : inbox'[p] = inbox[p]
         /\ \A p \in Peers : \A i \in 1..Len(inbox[p]) :
              i \in 1..Len(inbox'[p]) /\ inbox'[p][i] = inbox[p][i]
         /\ \A p \in Peers : \A i \in 1..Len(inbox'[p]) :
              i \in 1..Len(inbox[p]) \/ (p = q /\ i = Len(inbox[q]) + 1)
<1> DEFINE s == inbox[q]
<1>1. s \in Seq(Notes) /\ Len(s) \in Nat
  BY NoteTypes DEF TypeOK
<1>2. /\ Len(Append(s, m)) = Len(s) + 1
      /\ \A i \in 1..Len(s) : Append(s, m)[i] = s[i]
      /\ Append(s, m)[Len(s) + 1] = m
  BY <1>1, AppendProperties
<1>3. inbox'[q] = Append(s, m) /\ \A p \in Peers \ {q} : inbox'[p] = inbox[p]
  BY DEF TypeOK
<1>4. inbox[q] = s
  OBVIOUS
<1> HIDE DEF s
<1> QED BY <1>1, <1>2, <1>3, <1>4

\* Nothing comes into the wrong order where nothing comes.
LEMMA NothingDelivered ==
  ASSUME OnceInv, OrderInv, inbox' = inbox PROVE OnceInv' /\ OrderInv'
<1>1. OnceInv'
  BY DEF OnceInv
<1>2. OrderInv'
  BY DEF OrderInv
<1> QED BY <1>1, <1>2

\* A message that is new to q, and last wherever it has been heard, goes to
\* the end of the inbox of q without doubling or reordering anything.
LEMMA DeliveredInOrder ==
  ASSUME TypeOK, NEW q \in Peers, NEW m \in Notes,
         inbox' = [inbox EXCEPT ![q] = Append(inbox[q], m)],
         OnceInv, OrderInv,
         m # Full =>
           /\ \A i \in 1..Len(inbox[q]) : inbox[q][i] # m
           /\ \A p \in Peers : \A i \in 1..Len(inbox[p]) : inbox[p][i] = m => i = Len(inbox[p])
  PROVE  OnceInv' /\ OrderInv'
<1>1. /\ Len(inbox'[q]) = Len(inbox[q]) + 1
      /\ inbox'[q][Len(inbox[q]) + 1] = m
      /\ \A p \in Peers : \A i \in 1..Len(inbox[p]) : inbox'[p][i] = inbox[p][i]
      /\ \A p \in Peers : \A i \in 1..Len(inbox'[p]) :
           i \in 1..Len(inbox[p]) \/ (p = q /\ i = Len(inbox[q]) + 1)
      /\ \A p \in Peers : Len(inbox[p]) \in Nat
  BY Delivered, NoteTypes, ZenonT(60)
<1>2. OnceInv'
  <2> SUFFICES ASSUME NEW p \in Peers, NEW i \in 1..Len(inbox'[p]), NEW j \in 1..Len(inbox'[p]),
                      inbox'[p][i] = inbox'[p][j], inbox'[p][i] # Full
               PROVE  i = j
    BY DEF OnceInv
  <2>1. CASE i \in 1..Len(inbox[p]) /\ j \in 1..Len(inbox[p])
    BY <1>1, <2>1 DEF OnceInv
  <2>2. CASE i \notin 1..Len(inbox[p]) \/ j \notin 1..Len(inbox[p])
    BY <1>1, <2>2
  <2> QED BY <2>1, <2>2
<1>3. OrderInv'
  <2> SUFFICES \A p, r \in Peers :
                 \A i, j \in 1..Len(inbox'[p]), a, b \in 1..Len(inbox'[r]) :
                   /\ i < j /\ inbox'[p][i] # Full /\ inbox'[p][j] # Full
                   /\ inbox'[r][a] = inbox'[p][i] /\ inbox'[r][b] = inbox'[p][j]
                   => a < b
    BY Zenon DEF OrderInv
  <2> TAKE p, r \in Peers
  <2> TAKE i, j \in 1..Len(inbox'[p]), a, b \in 1..Len(inbox'[r])
  <2> HAVE /\ i < j /\ inbox'[p][i] # Full /\ inbox'[p][j] # Full
           /\ inbox'[r][a] = inbox'[p][i] /\ inbox'[r][b] = inbox'[p][j]
  <2>1. i \in 1..Len(inbox[p])
    BY <1>1
  <2>2. CASE j \in 1..Len(inbox[p])
    <3>1. a \in 1..Len(inbox[r])
      <4> SUFFICES ASSUME a \notin 1..Len(inbox[r]) PROVE FALSE
        OBVIOUS
      <4>1. inbox[p][i] = m /\ m # Full
        BY <1>1, <2>1
      <4>2. i = Len(inbox[p])
        BY <2>1, <4>1
      <4> QED BY <1>1, <2>2, <4>2
    <3>2. CASE b \in 1..Len(inbox[r])
      BY <1>1, <2>1, <2>2, <3>1, <3>2 DEF OrderInv
    <3>3. CASE b \notin 1..Len(inbox[r])
      BY <1>1, <3>1, <3>3
    <3> QED BY <3>2, <3>3
  <2>3. CASE j \notin 1..Len(inbox[p])
    <3>1. p = q /\ inbox'[p][j] = m /\ m # Full
      BY <1>1, <2>3
    <3>2. inbox'[p][i] # m
      BY <1>1, <2>1, <3>1
    <3>3. a \in 1..Len(inbox[r])
      BY <1>1, <3>2
    <3>4. a # b
      BY <3>1, <3>2
    <3>5. CASE b \in 1..Len(inbox[r])
      <4>1. b = Len(inbox[r])
        BY <1>1, <3>1, <3>5
      <4> QED BY <1>1, <3>3, <3>4, <4>1
    <3>6. CASE b \notin 1..Len(inbox[r])
      BY <1>1, <3>3, <3>6
    <3> QED BY <3>5, <3>6
  <2> QED BY <2>2, <2>3
<1> QED BY <1>2, <1>3

LEMMA InitMsgs == Init => MsgInv
<1> SUFFICES ASSUME Init PROVE Msgs
  BY DEF MsgInv
<1>1. Len(<< >>) = 0 /\ 1..0 = {} /\ Full.what = 0 /\ 0 <= 0
  BY EmptySeq DEF Full, Note
<1>2. \A p \in Peers : /\ 1..Len(inbox[p]) = {} /\ 1..Len(toServer[p]) = {}
                       /\ msg[p].what = 0 /\ lines[p] = 0
  BY <1>1 DEF Init
<1> QED
  BY <1>1, <1>2
  DEF Init, Msgs, SaidInv, LinesInv, HeardInv, NewestInv, FreshInv, OnceInv, OrderInv, ReachInv

\* Peers come, type and go: nothing is said by that.
LEMMA PeerMsgs ==
  ASSUME Base, Msgs, NEW p \in Peers, Connect(p) \/ TypeLine(p) \/ Quit(p), ~mixedUp
  PROVE  Msgs'
<1> USE DEF Base, Msgs
<1>1. UNCHANGED <<inbox, reset, alive, conn, clients, lock, mainPc, accepted, mixedUp,
                  pc, me, msg, idx>>
  BY DEF Connect, TypeLine, Quit, mainVars, threadVars
<1>2. HeardInv' /\ NewestInv' /\ OnceInv' /\ OrderInv'
  BY <1>1, SMTT(30) DEF HeardInv, NewestInv, OnceInv, OrderInv, Spoken
<1>3. /\ peer'[p] # "idle" /\ \A q \in Peers \ {p} : peer'[q] = peer[q]
      /\ peer'[p] # peer[p] =>
           \/ peer[p] = "idle" /\ backlog' = backlog \cup {p}
           \/ peer'[p] = "closed" /\ backlog' = backlog
      /\ peer'[p] = peer[p] => backlog' = backlog
  <2>1. CASE Connect(p)
    <3>1. /\ peer[p] = "idle" /\ peer' = [peer EXCEPT ![p] = "open"]
          /\ backlog' = backlog \cup {p}
      BY <2>1 DEF Connect
    <3>2. peer'[p] = "open" /\ \A q \in Peers \ {p} : peer'[q] = peer[q]
      BY <3>1 DEF TypeOK
    <3> QED BY <3>1, <3>2
  <2>2. CASE TypeLine(p)
    BY <2>2 DEF TypeLine, TypeOK
  <2>3. CASE Quit(p)
    BY <2>3 DEF Quit, TypeOK
  <2> QED BY <2>1, <2>2, <2>3
<1>4. FreshInv'
  BY <1>1, <1>3 DEF FreshInv
<1>5. ReachInv'
  <2>1. \A k \in 1..Len(clients) :
          /\ clients[k].peer \in Peers
          /\ peer'[clients[k].peer] = "open" => peer[clients[k].peer] = "open"
    <3> SUFFICES ASSUME NEW k \in 1..Len(clients)
                 PROVE  /\ clients[k].peer \in Peers
                        /\ peer'[clients[k].peer] = "open" => peer[clients[k].peer] = "open"
      OBVIOUS
    <3>1. clients[k].fd \in Fds /\ clients[k].peer \in Peers
      BY Entries
    <3>2. peer[clients[k].peer] # "idle"
      BY <3>1, PeersAssumption DEF ListedAreServed, PeerInv
    <3> QED BY <1>3, <3>1, <3>2
  <2> QED BY <1>1, <2>1 DEF ReachInv
<1>6. CASE Connect(p)
  <2>1. pc[p] = "none"
    BY <1>6 DEF Connect, PeerInv
  <2>2. UNCHANGED <<lines, toServer>>
    BY <1>6 DEF Connect
  <2>3. SaidInv' /\ LinesInv'
    BY <1>1, <1>3, <2>1, <2>2 DEF SaidInv, LinesInv
  <2> QED BY <1>2, <1>4, <1>5, <2>3
<1>7. CASE Quit(p)
  <2>1. /\ peer' = [peer EXCEPT ![p] = "closed"] /\ UNCHANGED lines
        /\ \A t \in Peers : toServer'[t] = toServer[t] \/ toServer'[t] = << >>
    BY <1>7 DEF Quit, TypeOK
  <2>2. SaidInv'
    BY <1>1, <1>3, <2>1 DEF SaidInv, TypeOK
  <2>3. LinesInv'
    <3>1. Len(<< >>) = 0 /\ 1..0 = {}
      BY EmptySeq
    <3> SUFFICES ASSUME NEW t \in Peers
                 PROVE  \A k \in 1..Len(toServer'[t]) :
                          /\ msg[t].what < toServer'[t][k] /\ toServer'[t][k] <= lines[t]
                          /\ \A j \in 1..(k - 1) : toServer'[t][j] < toServer'[t][k]
      BY <1>1, <2>1 DEF LinesInv
    <3>2. CASE toServer'[t] = toServer[t]
      BY <3>2 DEF LinesInv
    <3>3. CASE toServer'[t] = << >>
      BY <3>1, <3>3
    <3> QED BY <2>1, <3>2, <3>3
  <2> QED BY <1>2, <1>4, <1>5, <2>2, <2>3
<1>8. CASE TypeLine(p)
  <2> DEFINE s == toServer[p]
             n == lines[p] + 1
  <2>1. /\ peer[p] = "open" /\ UNCHANGED peer
        /\ lines' = [lines EXCEPT ![p] = n]
        /\ toServer' = [toServer EXCEPT ![p] = Append(s, n)]
    BY <1>8 DEF TypeLine
  <2>2. /\ lines[p] \in Nat /\ msg[p].what \in Nat /\ Len(s) \in Nat
        /\ \A k \in 1..Len(s) : s[k] \in Nat
    BY NoteTypes
  <2>3. msg[p].what <= lines[p] /\ pc[p] \notin {"leave", "remove", "close", "done"}
    BY <2>1 DEF SaidInv
  <2>4. /\ lines'[p] = n /\ toServer'[p] = Append(s, n)
        /\ \A t \in Peers \ {p} : lines'[t] = lines[t] /\ toServer'[t] = toServer[t]
    BY <2>1 DEF TypeOK
  <2>5. /\ Len(Append(s, n)) = Len(s) + 1
        /\ \A k \in 1..Len(s) : Append(s, n)[k] = s[k]
        /\ Append(s, n)[Len(s) + 1] = n
    BY AppendProperties DEF TypeOK
  <2>6. SaidInv'
    BY <1>1, <2>1, <2>2, <2>3, <2>4 DEF SaidInv
  <2>7. LinesInv'
    <3>1. ASSUME NEW t \in Peers \ {p}
          PROVE  \A k \in 1..Len(toServer'[t]) :
                    /\ msg[t].what < toServer'[t][k] /\ toServer'[t][k] <= lines'[t]
                    /\ \A j \in 1..(k - 1) : toServer'[t][j] < toServer'[t][k]
      BY <2>4 DEF LinesInv
    <3>2. \A k \in 1..Len(s) :
            /\ msg[p].what < s[k] /\ s[k] <= lines[p]
            /\ \A j \in 1..(k - 1) : s[j] < s[k]
      BY DEF LinesInv
    <3> DEFINE u == Append(s, n)
    <3>3. ASSUME NEW k \in 1..Len(u)
          PROVE  /\ msg[p].what < u[k] /\ u[k] <= n
                 /\ \A j \in 1..(k - 1) : u[j] < u[k]
      <4> HIDE DEF s, u
      <4>1. CASE k \in 1..Len(s)
        <5>1. \A j \in 1..(k - 1) : j \in 1..Len(s)
          BY <2>2, <4>1
        <5> QED BY <2>2, <2>5, <3>2, <4>1, <5>1 DEF u
      <4>2. CASE k = Len(s) + 1
        <5>1. \A j \in 1..(k - 1) : u[j] = s[j] /\ s[j] \in Nat /\ s[j] <= lines[p]
          BY <2>2, <2>5, <3>2, <4>2 DEF u
        <5>2. u[k] = n
          BY <2>5, <4>2 DEF u
        <5> QED BY <2>2, <2>3, <5>1, <5>2
      <4> QED BY <2>2, <2>5, <4>1, <4>2 DEF u
    <3> HIDE DEF s, n, u
    <3> QED BY <1>1, <2>4, <3>1, <3>3 DEF LinesInv, u
  <2> QED BY <1>2, <1>4, <1>5, <2>6, <2>7
<1> QED BY <1>6, <1>7, <1>8

\* main accepts a connection and enters it in the array.
LEMMA AcceptMsgs ==
  ASSUME Base, Msgs, Accept \/ AcceptLock \/ Refuse \/ Enter, ~mixedUp
  PROVE  Msgs'
<1> USE DEF Base, Msgs
<1>1. UNCHANGED <<peer, lines, toServer, inbox, mixedUp, pc, me, msg, idx>>
  BY DEF Accept, AcceptLock, Refuse, Enter, netVars, threadVars
<1>2. SaidInv' /\ LinesInv' /\ HeardInv' /\ OnceInv' /\ OrderInv'
  BY <1>1 DEF SaidInv, LinesInv, HeardInv, OnceInv, OrderInv, Spoken
<1>3. clients' = clients \/ \A t \in Peers : idx[t] = 0
  <2>1. ASSUME Enter PROVE \A t \in Peers : idx[t] = 0
    BY <2>1, PeersAssumption DEF Enter, LockInv
  <2> QED BY <2>1 DEF Accept, AcceptLock, Refuse
<1>4. NewestInv' /\ ReachInv'
  BY <1>1, <1>3 DEF NewestInv, ReachInv
<1>5. FreshInv'
  <2>1. CASE Accept
    <3>1. PICK p \in backlog : backlog' = backlog \ {p} /\ accepted'.peer = p
      BY <2>1 DEF Accept
    <3> QED BY <1>1, <3>1 DEF FreshInv
  <2>2. CASE AcceptLock \/ Refuse \/ Enter
    BY <1>1, <2>2 DEF AcceptLock, Refuse, Enter, netVars, FreshInv
  <2> QED BY <2>1, <2>2
<1> QED BY <1>2, <1>4, <1>5

\* A refused peer is told that the room is full, which is all it ever hears.
LEMMA TurnAwayMsgs == ASSUME Base, Msgs, TurnAway, ~mixedUp PROVE Msgs'
<1> USE DEF Base, Msgs
<1>1. /\ mainPc = "turnAway" /\ mainPc' = "accept"
      /\ Write(accepted.fd, Full)
      /\ UNCHANGED <<peer, backlog, lines, toServer, clients, mixedUp, accepted, pc, me, msg, idx>>
  BY DEF TurnAway, threadVars
<1>2. /\ accepted \in Entry /\ accepted.fd \in Fds /\ accepted.peer \in Peers
      /\ conn[accepted.fd] = accepted.peer /\ Full \in Notes
  BY <1>1 DEF PeerInv, OwnerInv, Entry, Notes
<1>3. SaidInv' /\ LinesInv'
  BY <1>1 DEF SaidInv, LinesInv
<1>4. CASE inbox' = inbox
  BY <1>1, <1>3, <1>4
  DEF HeardInv, NewestInv, FreshInv, OnceInv, OrderInv, ReachInv, Spoken
<1>5. CASE inbox' = [inbox EXCEPT ![accepted.peer] = Append(inbox[accepted.peer], Full)]
  <2> DEFINE q == accepted.peer
  <2>1. inbox[q] = << >>
    BY <1>1, <1>2 DEF FreshInv
  <2>2. OnceInv' /\ OrderInv'
    BY <1>2, <1>5, DeliveredInOrder
  <2>3. /\ \A p \in Peers \ {q} : inbox'[p] = inbox[p]
        /\ \A i \in 1..Len(inbox'[q]) : inbox'[q][i] = Full
    <3>1. Len(inbox[q]) = 0 /\ 1..0 = {}
      BY <2>1, EmptySeq
    <3> QED BY <1>2, <1>5, <3>1, Delivered
  <2>4. HeardInv'
    BY <1>1, <2>3 DEF HeardInv, Spoken
  <2>5. \A t \in Peers : idx[t] # 0 => msg[t] # Full
    <3> SUFFICES ASSUME NEW t \in Peers, idx[t] # 0 PROVE msg[t] # Full
      OBVIOUS
    <3>1. msg[t].from = t /\ t # None /\ msg[t] \in Notes
      BY NoteTypes, PeersAssumption DEF SaidInv, LockInv, Talking
    <3> QED BY <3>1, NoteParts
  <2>6. NewestInv'
    BY <1>1, <2>3, <2>5 DEF NewestInv
  <2>7. FreshInv'
    <3>1. q \notin backlog /\ peer[q] # "idle"
      BY <1>1 DEF PeerInv
    <3> QED BY <1>1, <2>3, <3>1 DEF FreshInv, TypeOK
  <2>8. ReachInv'
    <3>1. \A k \in 1..Len(clients) : clients[k].peer \in Peers \ {q}
      <4> SUFFICES ASSUME NEW k \in 1..Len(clients) PROVE clients[k].peer \in Peers \ {q}
        OBVIOUS
      <4>1. clients[k].fd \in Fds /\ clients[k].peer \in Peers
        BY Entries
      <4>2. conn[clients[k].fd] = clients[k].peer /\ clients[k].fd # accepted.fd
        BY <1>1, AcceptedIsNew DEF ListedAreServed
      <4> QED BY <1>2, <4>1, <4>2, PeersAssumption DEF PeerInv
    <3> QED BY <1>1, <2>3, <3>1 DEF ReachInv
  <2> QED BY <1>3, <2>2, <2>4, <2>6, <2>7, <2>8
<1> QED BY <1>1, <1>2, <1>4, <1>5, WriteEffect

\* A thread starts; its peer has said nothing before.
LEMMA CopyMsgs == ASSUME Base, Msgs, CopyAndSpawn, ~mixedUp' PROVE Msgs'
<1> USE DEF Base, Msgs
<1> DEFINE p == accepted.peer
<1>1. PICK entry \in LastEntries :
        /\ pc' = [pc EXCEPT ![p] = IF entry = NoEntry THEN "done" ELSE "join"]
        /\ msg' = [msg EXCEPT ![p] = Note(entry.peer, Joined)]
        /\ mixedUp' = (mixedUp \/ entry # accepted)
  BY DEF CopyAndSpawn
<1>2. /\ mainPc = "copy" /\ mainPc' = "accept"
      /\ UNCHANGED <<peer, backlog, lines, toServer, inbox, conn, clients, accepted, idx>>
  BY DEF CopyAndSpawn, netVars
<1>3. /\ accepted \in Entry /\ p \in Peers /\ pc[p] = "none" /\ idx[p] = 0
      /\ accepted # NoEntry
  BY <1>2 DEF PeerInv, LockInv, Entry, Talking, NoEntry, Fds
<1> HIDE DEF p
<1>4. /\ pc'[p] = "join" /\ msg'[p].from = p /\ msg'[p].what = 0
      /\ \A t \in Peers \ {p} : pc'[t] = pc[t] /\ msg'[t] = msg[t]
  BY <1>1, <1>3 DEF TypeOK, Note, Joined, p
<1>5. SaidInv'
  <2>1. 0 <= lines[p]
    BY <1>3, NoteTypes
  <2> QED BY <1>2, <1>4, <2>1 DEF SaidInv
<1>6. LinesInv'
  <2>1. ASSUME NEW k \in 1..Len(toServer[p])
        PROVE  /\ 0 < toServer[p][k] /\ toServer[p][k] <= lines[p]
               /\ \A j \in 1..(k - 1) : toServer[p][j] < toServer[p][k]
    <3>1. msg[p].what < toServer[p][k] /\ msg[p].what \in Nat /\ toServer[p][k] \in Nat
      BY <1>3, NoteTypes DEF LinesInv
    <3> QED BY <1>3, <3>1 DEF LinesInv
  <2> QED BY <1>2, <1>4, <2>1 DEF LinesInv
<1>7. HeardInv'
  <2> SUFFICES ASSUME NEW q \in Peers, NEW i \in 1..Len(inbox[q]), inbox[q][i] # Full
               PROVE  Spoken(inbox[q][i])'
    BY <1>2 DEF HeardInv
  <2>1. Spoken(inbox[q][i])
    BY DEF HeardInv
  <2>2. inbox[q][i].from # p
    BY <1>3, <2>1 DEF Spoken
  <2> QED BY <1>2, <1>4, <2>1, <2>2 DEF Spoken
<1>8. NewestInv' /\ ReachInv'
  BY <1>2, <1>3, <1>4 DEF NewestInv, ReachInv
<1>9. FreshInv' /\ OnceInv' /\ OrderInv'
  BY <1>2 DEF FreshInv, OnceInv, OrderInv
<1> QED BY <1>5, <1>6, <1>7, <1>8, <1>9

\* A broadcast begins: nobody has heard its message yet.
LEMMA BroadcastLockMsgs ==
  ASSUME Base, Msgs, NEW t \in Peers, BroadcastLock(t), ~mixedUp PROVE Msgs'
<1> USE DEF Base, Msgs
<1>1. /\ pc[t] \in Talking /\ idx[t] = 0 /\ lock = None
      /\ idx' = [idx EXCEPT ![t] = 1]
      /\ UNCHANGED <<peer, backlog, lines, toServer, inbox, clients, mainPc, accepted,
                     mixedUp, pc, me, msg>>
  BY DEF BroadcastLock, netVars, mainVars, Talking
<1>2. idx'[t] = 1 /\ \A s \in Peers \ {t} : idx'[s] = idx[s]
  BY <1>1 DEF TypeOK
<1>3. SaidInv' /\ LinesInv' /\ FreshInv' /\ OnceInv' /\ OrderInv'
  BY <1>1 DEF SaidInv, LinesInv, FreshInv, OnceInv, OrderInv
<1>4. HeardInv'
  BY <1>1, <1>2 DEF HeardInv, Spoken
<1>5. NewestInv'
  <2>1. ASSUME NEW p \in Peers, NEW i \in 1..Len(inbox[p]) PROVE inbox[p][i] # msg[t]
    <3>1. msg[t].from = t /\ t # None /\ msg[t] \in Notes /\ msg[t].what \in Nat
      BY <1>1, NoteTypes, PeersAssumption DEF SaidInv, Talking
    <3>2. msg[t] # Full
      BY <3>1, NoteParts
    <3>3. Spoken(inbox[p][i]) /\ inbox[p][i].from = t => inbox[p][i].what < msg[t].what
      BY <1>1 DEF Spoken
    <3> QED BY <3>1, <3>2, <3>3 DEF HeardInv
  <2> QED BY <1>1, <1>2, <2>1 DEF NewestInv
<1>6. ReachInv'
  <2>1. \A k \in 1..Len(clients) : ~ (k < 1)
    BY Entries
  <2> QED BY <1>1, <1>2, <2>1 DEF ReachInv
<1> QED BY <1>3, <1>4, <1>5, <1>6

\* An order of messages stands as long as nobody gets another one.
LEMMA SameInboxes ==
  ASSUME OrderInv, inbox' = inbox PROVE OrderInv'
  BY DEF OrderInv

\* A broadcast is over: its message becomes an earlier one.
LEMMA BroadcastUnlockMsgs ==
  ASSUME Base, Msgs, NEW t \in Peers, BroadcastUnlock(t), ~mixedUp PROVE Msgs'
<1> USE DEF Base, Msgs
<1>1. /\ idx[t] > Len(clients)
      /\ idx' = [idx EXCEPT ![t] = 0]
      /\ pc' = [pc EXCEPT ![t] = IF pc[t] = "leave" THEN "remove" ELSE "read"]
      /\ UNCHANGED <<peer, backlog, lines, toServer, inbox, clients, mainPc, accepted,
                     mixedUp, me, msg>>
  BY DEF BroadcastUnlock, Goto, netVars, mainVars
<1>2. pc[t] \in Talking
  BY <1>1, Entries DEF LockInv, TypeOK
<1>3. /\ idx'[t] = 0 /\ pc'[t] = IF pc[t] = "leave" THEN "remove" ELSE "read"
      /\ \A s \in Peers \ {t} : idx'[s] = idx[s] /\ pc'[s] = pc[s]
  BY <1>1 DEF TypeOK
<1>4. SaidInv'
  BY <1>1, <1>2, <1>3 DEF SaidInv, Talking
<1>5. HeardInv'
  BY <1>1, <1>2, <1>3 DEF HeardInv, Spoken, Talking
<1>6. NewestInv' /\ ReachInv'
  BY <1>1, <1>3, SMTT(30) DEF NewestInv, ReachInv
<1>7. LinesInv' /\ FreshInv'
  BY <1>1 DEF LinesInv, FreshInv
<1>8. OnceInv'
  BY <1>1 DEF OnceInv
<1>9. OrderInv'
  BY <1>1, SameInboxes
<1> QED BY <1>4, <1>5, <1>6, <1>7, <1>8, <1>9

\* The next message of a thread comes after all that has been heard of it.
LEMMA ReadMsgs ==
  ASSUME Base, Msgs, NEW t \in Peers, ReadLine(t) \/ ReadEnd(t), ~mixedUp PROVE Msgs'
<1> USE DEF Base, Msgs
<1>1. /\ pc[t] = "read"
      /\ UNCHANGED <<peer, backlog, lines, inbox, clients, mainPc, accepted, mixedUp, me, idx>>
  BY DEF ReadLine, ReadEnd, netVars, mainVars
<1>2. /\ me[t].peer = t /\ conn[me[t].fd] = t /\ t # None /\ idx[t] = 0
      /\ msg[t].from = t /\ msg[t].what \in Nat /\ msg[t].what <= lines[t] /\ lines[t] \in Nat
  BY <1>1, NoteTypes, PeersAssumption DEF OwnerInv, Active, LockInv, Talking, SaidInv
<1>3. /\ pc'[t] \in {"say", "leave"} /\ msg'[t].from = t
      /\ msg'[t].what \in Nat /\ msg[t].what < msg'[t].what
      /\ \A s \in Peers \ {t} : /\ pc'[s] = pc[s] /\ msg'[s] = msg[s]
                               /\ toServer'[s] = toServer[s]
      /\ pc'[t] = "say" => msg'[t].what <= lines[t]
      /\ pc'[t] = "leave" => peer[t] = "closed" /\ toServer'[t] = << >>
      /\ \A k \in 1..Len(toServer'[t]) :
           /\ msg'[t].what < toServer'[t][k] /\ toServer'[t][k] <= lines[t]
           /\ \A j \in 1..(k - 1) : toServer'[t][j] < toServer'[t][k]
  <2> DEFINE s == toServer[t]
  <2>1. CASE ReadLine(t)
    <3>1. /\ s # << >> /\ toServer' = [toServer EXCEPT ![t] = Tail(s)]
          /\ msg' = [msg EXCEPT ![t] = Note(t, Head(s))]
          /\ pc' = [pc EXCEPT ![t] = "say"]
      BY <1>2, <2>1 DEF ReadLine, Goto
    <3>2. /\ toServer'[t] = Tail(s) /\ msg'[t].from = t /\ msg'[t].what = Head(s)
          /\ pc'[t] = "say"
          /\ \A r \in Peers \ {t} : /\ pc'[r] = pc[r] /\ msg'[r] = msg[r]
                                   /\ toServer'[r] = toServer[r]
      BY <3>1 DEF TypeOK, Note
    <3>3. /\ Len(s) \in Nat /\ \A k \in 1..Len(s) : s[k] \in Nat
      BY NoteTypes
    <3>4. \A k \in 1..Len(s) :
            /\ msg[t].what < s[k] /\ s[k] <= lines[t]
            /\ \A j \in 1..(k - 1) : s[j] < s[k]
      BY DEF LinesInv
    <3>5. s \in Seq(1..MaxLines)
      BY DEF TypeOK
    <3>6. s # << >>
      BY <3>1
    <3> HIDE DEF s
    <3>7. /\ Len(s) # 0 /\ Head(s) = s[1] /\ Len(Tail(s)) = Len(s) - 1
          /\ \A k \in 1..Len(Tail(s)) : Tail(s)[k] = s[k + 1]
      BY <3>5, <3>6, HeadTailProperties, EmptySeq
    <3>8. 1 \in 1..Len(s) /\ \A k \in 1..Len(Tail(s)) : k + 1 \in 1..Len(s) /\ 1 \in 1..(k + 1 - 1)
      BY <3>3, <3>7
    <3>9. ASSUME NEW k \in 1..Len(Tail(s))
          PROVE  /\ Head(s) < Tail(s)[k] /\ Tail(s)[k] <= lines[t]
                 /\ \A j \in 1..(k - 1) : Tail(s)[j] < Tail(s)[k]
      <4>1. Head(s) < Tail(s)[k] /\ Tail(s)[k] <= lines[t]
        BY <3>4, <3>7, <3>8
      <4>2. \A j \in 1..(k - 1) : j \in 1..Len(Tail(s)) /\ j + 1 \in 1..(k + 1 - 1)
        BY <3>3, <3>7
      <4> QED BY <3>4, <3>7, <3>8, <4>1, <4>2
    <3> QED BY <3>2, <3>3, <3>4, <3>7, <3>8, <3>9
  <2>2. CASE ReadEnd(t)
    <3>1. /\ toServer' = toServer /\ toServer[t] = << >> /\ peer[t] = "closed"
          /\ msg' = [msg EXCEPT ![t] = Note(t, Left)]
          /\ pc' = [pc EXCEPT ![t] = "leave"]
      BY <1>2, <2>2 DEF ReadEnd, Goto, netVars
    <3>2. /\ msg'[t].from = t /\ msg'[t].what = Left /\ pc'[t] = "leave"
          /\ \A r \in Peers \ {t} : /\ pc'[r] = pc[r] /\ msg'[r] = msg[r]
                                   /\ toServer'[r] = toServer[r]
      BY <3>1 DEF TypeOK, Note
    <3>3. lines[t] < Left /\ Left \in Nat
      BY NoteTypes, CapacityAssumption DEF Left
    <3>4. 1..Len(toServer'[t]) = {}
      BY <3>1, EmptySeq
    <3> QED BY <1>2, <3>1, <3>2, <3>3, <3>4
  <2> QED BY <2>1, <2>2
<1>4. SaidInv'
  BY <1>1, <1>3 DEF SaidInv
<1>5. LinesInv'
  BY <1>1, <1>3 DEF LinesInv
<1>6. HeardInv'
  <2> SUFFICES ASSUME NEW p \in Peers, NEW i \in 1..Len(inbox[p]), inbox[p][i] # Full
               PROVE  Spoken(inbox[p][i])'
    BY <1>1 DEF HeardInv
  <2>1. Spoken(inbox[p][i]) /\ inbox[p][i].what \in Nat
    BY NoteTypes, NoteParts DEF HeardInv
  <2>2. CASE inbox[p][i].from # t
    BY <1>1, <1>3, <2>1, <2>2 DEF Spoken
  <2>3. CASE inbox[p][i].from = t
    BY <1>1, <1>2, <1>3, <2>1, <2>3 DEF Spoken
  <2> QED BY <2>2, <2>3
<1>7. NewestInv' /\ ReachInv'
  BY <1>1, <1>2, <1>3 DEF NewestInv, ReachInv
<1>8. FreshInv' /\ OnceInv' /\ OrderInv'
  BY <1>1 DEF FreshInv, OnceInv, OrderInv
<1> QED BY <1>4, <1>5, <1>6, <1>7, <1>8

\* A thread that ends says nothing more; nobody walks the array then.
LEMMA EndMsgs ==
  ASSUME Base, Msgs, NEW t \in Peers, RemoveClient(t) \/ Close(t), ~mixedUp PROVE Msgs'
<1> USE DEF Base, Msgs
<1>1. /\ pc[t] \in {"remove", "close"} /\ pc' = [pc EXCEPT ![t] = pc'[t]]
      /\ pc'[t] \in {"close", "done"}
      /\ UNCHANGED <<peer, backlog, lines, toServer, inbox, mainPc, accepted, mixedUp, me, msg, idx>>
  BY DEF RemoveClient, Close, Goto, netVars, mainVars, TypeOK
<1>2. \A s \in Peers \ {t} : pc'[s] = pc[s]
  BY <1>1 DEF TypeOK
<1>3. clients' = clients \/ \A s \in Peers : idx[s] = 0
  <2>1. ASSUME RemoveClient(t) PROVE \A s \in Peers : idx[s] = 0
    BY <2>1, PeersAssumption DEF RemoveClient, LockInv
  <2> QED BY <2>1 DEF Close
<1>4. SaidInv'
  BY <1>1, <1>2 DEF SaidInv
<1>5. HeardInv'
  BY <1>1, <1>2 DEF HeardInv, Spoken, Talking
<1>6. NewestInv' /\ ReachInv'
  BY <1>1, <1>3, SMTT(30) DEF NewestInv, ReachInv
<1>7. LinesInv' /\ FreshInv' /\ OnceInv' /\ OrderInv'
  BY <1>1 DEF LinesInv, FreshInv, OnceInv, OrderInv
<1> QED BY <1>4, <1>5, <1>6, <1>7

\* A write of a broadcast: to a client that has not got the message yet, or to
\* nobody.
LEMMA BroadcastWriteMsgs ==
  ASSUME Base, Msgs, NEW t \in Peers, BroadcastWrite(t), ~mixedUp PROVE Msgs'
<1> USE DEF Base, Msgs
<1> DEFINE k == idx[t]
           e == clients[k]
           q == e.peer
           m == msg[t]
<1>1. /\ k \in 1..Len(clients) /\ idx' = [idx EXCEPT ![t] = k + 1]
      /\ IF e.fd # me[t].fd THEN Write(e.fd, m) ELSE UNCHANGED <<inbox, reset, alive>>
      /\ UNCHANGED <<peer, backlog, lines, toServer, conn, clients, lock,
                     mainPc, accepted, mixedUp, pc, me, msg>>
  BY DEF BroadcastWrite, mainVars
<1>2. /\ k \in Nat /\ k # 0 /\ lock = t /\ pc[t] \in Talking
      /\ Len(clients) \in Nat
      /\ e.fd \in Fds /\ q \in Peers /\ conn[e.fd] = q /\ q # None
      /\ \A j \in 1..Len(clients) : clients[j].fd = e.fd => k = j
  <2>1. /\ Len(clients) \in Nat
        /\ \A i \in 1..Len(clients) : clients[i].fd \in Fds /\ clients[i].peer \in Peers
    BY Entries
  <2>2. conn[e.fd] = q /\ \A j \in 1..Len(clients) : clients[j].fd = e.fd => k = j
    BY <1>1 DEF ListedAreServed
  <2>3. k \in Nat /\ k # 0
    BY <1>1, <2>1
  <2>4. lock = t /\ pc[t] \in Talking
    BY <2>3 DEF LockInv
  <2> QED BY <1>1, <2>1, <2>2, <2>3, <2>4, PeersAssumption
<1>3. /\ me[t].peer = t /\ conn[me[t].fd] = t /\ me[t].fd \in Fds
      /\ m \in Notes /\ m.from = t /\ m # Full
  <2>1. pc[t] \in Active /\ pc[t] # "none"
    BY <1>2 DEF Active, Talking
  <2>2. m \in Notes /\ m.from = t
    BY <2>1, NoteTypes DEF SaidInv
  <2>3. m # Full
    BY <2>2, NoteParts, PeersAssumption
  <2>4. me[t].peer = t /\ conn[me[t].fd] = t /\ me[t].fd \in Fds
    BY <2>1 DEF OwnerInv, PeerInv, Entry
  <2> QED BY <2>2, <2>3, <2>4
<1>4. /\ \/ inbox' = inbox
         \/ inbox' = [inbox EXCEPT ![q] = Append(inbox[q], m)]
      /\ q # t /\ peer[q] = "open" => inbox' = [inbox EXCEPT ![q] = Append(inbox[q], m)]
  <2>1. CASE e.fd = me[t].fd
    <3>1. inbox' = inbox /\ q = t
      BY <1>1, <1>2, <1>3, <2>1
    <3> QED BY <3>1
  <2>2. CASE e.fd # me[t].fd
    <3>1. Write(e.fd, m)
      BY <1>1, <2>2
    <3> QED BY <1>2, <1>3, <3>1, WriteEffect
  <2> QED BY <2>1, <2>2
<1>5. \A j \in 1..(k - 1) : clients[j].peer # q
  <2> SUFFICES ASSUME NEW j \in 1..(k - 1), clients[j].peer = q PROVE FALSE
    OBVIOUS
  <2>1. j \in 1..Len(clients) /\ j # k
    BY <1>1, <1>2
  <2>2. clients[j].fd \in Fds /\ conn[clients[j].fd] = q
    BY <2>1, Entries DEF ListedAreServed
  <2>3. clients[j].fd = e.fd
    BY <1>2, <2>2 DEF PeerInv
  <2> QED BY <1>2, <2>1, <2>3
<1>6. /\ \A i \in 1..Len(inbox[q]) : inbox[q][i] # m
      /\ \A p \in Peers : \A i \in 1..Len(inbox[p]) :
           inbox[p][i] = m => i = Len(inbox[p]) /\ \E j \in 1..(k - 1) : clients[j].peer = p
  BY <1>2, <1>5 DEF NewestInv
<1>7. idx'[t] = k + 1 /\ \A s \in Peers \ {t} : idx'[s] = 0 /\ idx[s] = 0
  BY <1>1, <1>2 DEF LockInv, TypeOK
<1>8. inbox' = inbox \/
        /\ Len(inbox'[q]) = Len(inbox[q]) + 1 /\ inbox'[q][Len(inbox[q]) + 1] = m
        /\ \A p \in Peers \ {q} : inbox'[p] = inbox[p]
        /\ \A p \in Peers : \A i \in 1..Len(inbox[p]) :
             i \in 1..Len(inbox'[p]) /\ inbox'[p][i] = inbox[p][i]
        /\ \A p \in Peers : \A i \in 1..Len(inbox'[p]) :
             i \in 1..Len(inbox[p]) \/ (p = q /\ i = Len(inbox[q]) + 1)
  BY <1>2, <1>3, <1>4, Delivered
<1>9. \A p \in Peers : Len(inbox[p]) \in Nat
  BY NoteTypes
<1>10. OnceInv' /\ OrderInv'
  <2>1. CASE inbox' = inbox
    BY <2>1, NothingDelivered
  <2>2. CASE inbox' = [inbox EXCEPT ![q] = Append(inbox[q], m)]
    BY <1>2, <1>3, <1>6, <2>2, DeliveredInOrder
  <2> QED BY <1>4, <2>1, <2>2
<1>11. SaidInv' /\ LinesInv'
  BY <1>1 DEF SaidInv, LinesInv
<1>12. FreshInv'
  <2>1. q \notin backlog /\ peer[q] # "idle"
    BY <1>2 DEF PeerInv
  <2>2. mainPc \notin {"accept", "copy"} => accepted.peer # q
    <3> SUFFICES ASSUME mainPc \notin {"accept", "copy"}, accepted.peer = q PROVE FALSE
      OBVIOUS
    <3>1. accepted.fd \in Fds /\ conn[accepted.fd] = q
      BY DEF PeerInv, OwnerInv, Entry
    <3>2. accepted.fd = e.fd
      BY <1>2, <3>1 DEF PeerInv
    <3> QED BY <1>1, <3>2, AcceptedIsNew
  <2>3. \A p \in Peers \ {q} : inbox'[p] = inbox[p]
    BY <1>8
  <2> QED BY <1>1, <2>1, <2>2, <2>3 DEF FreshInv
<1> HIDE DEF k, e, q, m
<1>13. HeardInv'
  <2> SUFFICES ASSUME NEW p \in Peers, NEW i \in 1..Len(inbox'[p]), inbox'[p][i] # Full
               PROVE  Spoken(inbox[p][i])'
    BY DEF HeardInv
  <2>1. CASE i \in 1..Len(inbox[p]) /\ inbox'[p][i] = inbox[p][i]
    <3>1. Spoken(inbox[p][i])
      BY <2>1 DEF HeardInv
    <3> QED BY <1>1, <1>2, <1>7, <2>1, <3>1 DEF Spoken
  <2>2. CASE inbox'[p][i] = m
    <3>1. m.what \in Nat /\ m = msg[t]
      BY NoteTypes DEF m
    <3> QED BY <1>1, <1>2, <1>3, <1>7, <2>2, <3>1 DEF Spoken, Talking
  <2> QED BY <1>8, <2>1, <2>2
<1>14. NewestInv'
  <2> SUFFICES ASSUME NEW p \in Peers, NEW i \in 1..Len(inbox'[p]), inbox'[p][i] = m
               PROVE  i = Len(inbox'[p]) /\ \E j \in 1..(k + 1 - 1) : clients[j].peer = p
    BY <1>1, <1>7 DEF NewestInv, m
  <2>1. CASE i \in 1..Len(inbox[p]) /\ inbox'[p][i] = inbox[p][i]
    <3>1. p # q /\ i = Len(inbox[p]) /\ \E j \in 1..(k - 1) : clients[j].peer = p
      BY <1>6, <2>1
    <3>2. inbox'[p] = inbox[p]
      BY <1>8, <3>1
    <3> QED BY <1>2, <3>1, <3>2
  <2>2. CASE p = q /\ i = Len(inbox[q]) + 1 /\ Len(inbox'[q]) = Len(inbox[q]) + 1
    <3>1. k \in 1..(k + 1 - 1) /\ clients[k].peer = q
      BY <1>2 DEF q, e
    <3> QED BY <2>2, <3>1
  <2> QED BY <1>8, <2>1, <2>2
<1>15. ReachInv'
  <2> SUFFICES ASSUME NEW j \in 1..Len(clients), j < k + 1, clients[j].peer # t,
                      peer[clients[j].peer] = "open"
               PROVE  \E i \in 1..Len(inbox'[clients[j].peer]) :
                         inbox'[clients[j].peer][i] = m
    BY <1>1, <1>7 DEF ReachInv, m
  <2>1. clients[j].peer \in Peers
    BY Entries
  <2>2. CASE j < k
    <3>1. PICK i \in 1..Len(inbox[clients[j].peer]) : inbox[clients[j].peer][i] = m
      BY <1>2, <2>2 DEF ReachInv, m, k
    <3>2. i \in 1..Len(inbox'[clients[j].peer]) /\ inbox'[clients[j].peer][i] = m
      BY <1>8, <2>1, <3>1
    <3> QED BY <3>2
  <2>3. CASE j = k
    <3>1. clients[j].peer = q
      BY <2>3 DEF q, e
    <3>2. inbox' = [inbox EXCEPT ![q] = Append(inbox[q], m)]
      BY <1>4, <3>1
    <3>3. Len(inbox'[q]) = Len(inbox[q]) + 1 /\ inbox'[q][Len(inbox[q]) + 1] = m
      BY <1>2, <1>3, <3>2, Delivered
    <3>4. Len(inbox[q]) + 1 \in 1..Len(inbox'[q])
      BY <1>2, <1>9, <3>3
    <3> QED BY <3>1, <3>3, <3>4
  <2> QED BY <1>2, <2>2, <2>3
<1> QED BY <1>10, <1>11, <1>12, <1>13, <1>14, <1>15

LEMMA MsgStep == Base /\ MsgInv /\ [Next]_vars => MsgInv'
<1> SUFFICES ASSUME Base, MsgInv, [Next]_vars, ~mixedUp' PROVE Msgs'
  BY DEF MsgInv
<1>1. ~mixedUp
  BY DEF Next, Main, Thread, Accept, AcceptLock, Refuse, TurnAway, Enter, CopyAndSpawn,
     BroadcastLock, BroadcastWrite, BroadcastUnlock, ReadLine, ReadEnd, RemoveClient, Close,
     Connect, TypeLine, Quit, vars, mainVars
<1>2. Msgs
  BY <1>1 DEF MsgInv
<1>3. CASE Main
  BY <1>1, <1>2, <1>3, AcceptMsgs, TurnAwayMsgs, CopyMsgs DEF Main
<1>4. ASSUME NEW p \in Peers, Thread(p) PROVE Msgs'
  BY <1>1, <1>2, <1>4, BroadcastLockMsgs, BroadcastWriteMsgs, BroadcastUnlockMsgs, ReadMsgs,
     EndMsgs DEF Thread
<1>5. ASSUME NEW p \in Peers, Connect(p) \/ TypeLine(p) \/ Quit(p) PROVE Msgs'
  BY <1>1, <1>2, <1>5, PeerMsgs
<1>6. CASE UNCHANGED vars
  BY <1>2, <1>6 DEF vars, netVars, mainVars, threadVars, Msgs, SaidInv, LinesInv, HeardInv,
     NewestInv, FreshInv, OnceInv, OrderInv, ReachInv, Spoken
<1> QED BY <1>3, <1>4, <1>5, <1>6 DEF Next

LEMMA MsgInvariance == Spec => [](Base /\ MsgInv)
  BY InitBase, InitMsgs, BaseStep, MsgStep, PTL DEF Spec

\* Any two peers see the messages they both receive in the same order, until
\* main has copied a wrong entry.
THEOREM OrderIsShared == Spec => []SameOrder
<1>1. Base /\ MsgInv => SameOrder
  <2> SUFFICES ASSUME Base, MsgInv, NEW p \in Peers, NEW q \in Peers,
                      NEW i \in 1..Len(inbox[p]), NEW j \in 1..Len(inbox[p]), i < j, ~mixedUp,
                      Place(q, inbox[p][i]) # 0, Place(q, inbox[p][j]) # 0,
                      inbox[p][i] # Full, inbox[p][j] # Full
               PROVE  Place(q, inbox[p][i]) < Place(q, inbox[p][j])
    BY DEF SameOrder
  <2>1. /\ Place(q, inbox[p][i]) \in 1..Len(inbox[q])
        /\ inbox[q][Place(q, inbox[p][i])] = inbox[p][i]
        /\ Place(q, inbox[p][j]) \in 1..Len(inbox[q])
        /\ inbox[q][Place(q, inbox[p][j])] = inbox[p][j]
    BY PlaceFound DEF Base
  <2>2. OrderInv
    BY DEF MsgInv, Msgs
  <2> QED BY <2>1, <2>2, SMTT(30) DEF OrderInv
<1> QED BY <1>1, MsgInvariance, PTL

\* A broadcast whose loop is over has reached every other client in the array
\* whose connection is open, whoever came or left in between.
THEOREM BroadcastReachesAll == Spec => []BroadcastIsComplete
<1>1. Base /\ MsgInv => BroadcastIsComplete
  <2> SUFFICES ASSUME Base, MsgInv, ~mixedUp, NEW t \in Peers, idx[t] > Len(clients),
                      NEW i \in 1..Len(clients), clients[i].peer # me[t].peer,
                      peer[clients[i].peer] = "open"
               PROVE  Place(clients[i].peer, msg[t]) # 0
    BY DEF BroadcastIsComplete
  <2>1. idx[t] # 0 /\ i < idx[t] /\ clients[i].peer \in Peers
    <3>1. idx[t] \in Nat /\ Len(clients) \in Nat /\ clients[i].peer \in Peers
      BY Entries DEF Base, TypeOK
    <3> QED BY <3>1
  <2>2. me[t].peer = t
    BY <2>1 DEF Base, LockInv, OwnerInv, Talking, Active
  <2>3. \E k \in 1..Len(inbox[clients[i].peer]) : inbox[clients[i].peer][k] = msg[t]
    BY <2>1, <2>2 DEF MsgInv, Msgs, ReachInv
  <2> QED BY <2>1, <2>3, PlaceFound DEF Base
<1> QED BY <1>1, MsgInvariance, PTL
=============================================================================
