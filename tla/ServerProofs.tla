---------------------------- MODULE ServerProofs ----------------------------
(***************************************************************************)
(* The table of connections is sound, Closed is the truth and a client     *)
(* shows its id to one server only, for any numbers of servers,            *)
(* connections, links and Listeners.                                       *)
(***************************************************************************)
EXTENDS Server, TLAPS

-----------------------------------------------------------------------------
(***************************************************************************)
(* The inductive invariant, in parts.                                      *)
(***************************************************************************)
ClientStates == {"new", "dialed", "greeted", "waiting", "accepted", "refused", "added", "failed"}
ServerStates == {"none", "arrived", "greeting", "lookup", "vacant", "reserving", "permit",
                 "nopermit", "starting", "joining", "Closed", "NotListening", "handed", "done",
                 "failed", "panicked"}

Messages == {"Welcome", "Accepted", "Closed", "NotListening", "ConnectionRefused", "LinkRefused"}

\* Types of the client's state.
ClientType ==
  /\ remote_server_id \in [Conns -> Servers \cup {NoServer}]
  /\ connected \in [Conns -> BOOLEAN]

\* Types of the two ends of the links.
LinkType ==
  /\ at \in [Links -> Servers]
  /\ cpc \in [Links -> ClientStates] /\ spc \in [Links -> ServerStates]
  /\ to_client \in [Links -> Seq(Messages)] /\ to_server \in [Links -> Seq(BOOLEAN)]
  /\ existing \in [Links -> BOOLEAN] /\ target \in [Links -> Insts \cup {0}]

\* Types of the servers' state.
TableType ==
  /\ conns \in [Servers -> [Conns -> Insts \cup {0}]]
  /\ closed_conns \in [Servers -> SUBSET Conns]
  /\ listen_rx \in [Servers -> Seq(Insts)]
  /\ inst \in [Insts -> Instance]

Used(i) == inst[i].st # "free"

\* The id of i is not yet reported as dropped.
Unreported(i) == Alive(i) \/ inst[i].st = "closing"

\* The entry of a connection stays until its id was reported, and an id is
\* reported only while it has an entry, so that clean-up removes that one.
TableInv ==
  /\ \A i \in Insts : Unreported(i) =>
       /\ conns[inst[i].srv][inst[i].conn] = i
       /\ inst[i].conn \notin closed_conns[inst[i].srv]
  /\ \A s \in Servers : \A c \in closed_conns[s] : conns[s][c] # 0
  /\ \A s \in Servers, c \in Conns : conns[s][c] # 0 =>
       LET i == conns[s][c] IN Used(i) /\ inst[i].srv = s /\ inst[i].conn = c

\* Instance i is one of the connection that link l belongs to.
Serves(i, l) == Used(i) /\ inst[i].srv = at[l] /\ inst[i].conn = ConnOf[l]

\* The instance a link joins is one of its connection; the instance it has to
\* start has not been touched by anybody else.
TargetInv ==
  /\ \A l \in Links : spc[l] \in {"joining", "starting"} =>
       target[l] \in Insts /\ Serves(target[l], l)
  /\ \A l \in Links : spc[l] = "starting" => inst[target[l]].st = "starting"
  /\ \A k, l \in Links :
       spc[k] = "starting" /\ spc[l] = "starting" /\ target[k] = target[l] => k = l

\* What is queued for a Listener is queued once and touched by nobody else.
ListenInv ==
  /\ \A s \in Servers : \A k \in 1 .. Len(listen_rx[s]) :
       inst[listen_rx[s][k]].st = "queued" /\ inst[listen_rx[s][k]].srv = s
  /\ \A s \in Servers : \A j, k \in 1 .. Len(listen_rx[s]) :
       listen_rx[s][j] = listen_rx[s][k] => j = k

\* A link in an instance was handed to it by add_incoming and belongs to it.
MemberInv ==
  \A i \in Insts : \A l \in inst[i].links \cup Queued(i) : spc[l] = "handed" /\ Serves(i, l)

\* The server side of a link starts with its Control::add; that sends the id
\* of the connection to remote_server_id only.
GreetInv ==
  /\ \A l \in Links : cpc[l] = "new" =>
       spc[l] = "none" /\ to_client[l] = <<>> /\ to_server[l] = <<>> /\ ~existing[l]
  /\ \A l \in Links : cpc[l] \in {"greeted", "waiting", "accepted", "added"} =>
       remote_server_id[ConnOf[l]] = at[l]
  /\ \A c \in Own : remote_server_id[c] = Home
  /\ \A l \in Links : cpc[l] # "new" /\ ConnOf[l] \in Own => at[l] = Home
  /\ \A i \in Insts : Used(i) /\ inst[i].conn \in Own => inst[i].srv = Home

\* There is or was a connection of the link's id at its server.
Known(l) == \E i \in Insts : Serves(i, l)

\* Whoever believes that a connection exists is right.
EvidenceInv ==
  /\ \A c \in Conns : connected[c] /\ c \notin Own =>
       \E i \in Insts : Used(i) /\ inst[i].conn = c /\ inst[i].srv = remote_server_id[c]
  /\ \A l \in Links : \A k \in 1 .. Len(to_client[l]) : to_client[l][k] = "Accepted" => Known(l)
  /\ \A l \in Links : \A k \in 1 .. Len(to_server[l]) : to_server[l][k] => Known(l)
  /\ \A l \in Links : existing[l] => Known(l)
  /\ \A l \in Links : cpc[l] # "new" /\ ConnOf[l] \in Own => Known(l)

ServerInv ==
  /\ ClientType /\ LinkType /\ TableType
  /\ TableInv /\ TargetInv /\ ListenInv /\ MemberInv /\ GreetInv /\ EvidenceInv /\ ClosedMeansEnded
-----------------------------------------------------------------------------
(***************************************************************************)
(* What the parts depend on.  Instances keep their server and id once they *)
(* are used.                                                               *)
(***************************************************************************)
Grows == \A i \in Insts : Used(i) => /\ Used(i)'
                                     /\ inst'[i].srv = inst[i].srv /\ inst'[i].conn = inst[i].conn

Members(i) == inst[i].links \cup Queued(i)

\* A connection that is known stays known.
LEMMA KnownStays ==
  ASSUME Grows, NEW l \in Links, Known(l), at'[l] = at[l]
  PROVE  Known(l)'
BY DEF Grows, Known, Serves, Used

\* A step that neither makes a connection nor touches the table keeps it
\* sound if no connection comes back to life.
LEMMA TableFrame ==
  ASSUME TableType, TableInv, UNCHANGED <<conns, closed_conns>>,
         \A i \in Insts : /\ Unreported(i)' => Unreported(i)
                          /\ Used(i) => Used(i)'
                          /\ inst'[i].srv = inst[i].srv /\ inst'[i].conn = inst[i].conn
  PROVE  TableInv'
<1>1. \A i \in Insts : inst[i] \in Instance
  BY DEF TableType
<1>2. \A i \in Insts : Unreported(i)' =>
        /\ conns'[inst'[i].srv][inst'[i].conn] = i
        /\ inst'[i].conn \notin closed_conns'[inst'[i].srv]
  BY DEF TableInv
<1>3. \A s \in Servers : \A c \in closed_conns'[s] : conns'[s][c] # 0
  BY DEF TableInv
<1>4. \A s \in Servers, c \in Conns : conns'[s][c] # 0 =>
        /\ inst'[conns'[s][c]].st # "free"
        /\ inst'[conns'[s][c]].srv = s /\ inst'[conns'[s][c]].conn = c
  <2> TAKE s \in Servers, c \in Conns
  <2> HAVE conns'[s][c] # 0
  <2>1. conns[s][c] \in Insts
    BY DEF TableType
  <2> QED
    BY <2>1 DEF TableInv, Used
<1> QED
  BY <1>2, <1>3, <1>4 DEF TableInv, Used

\* Links that come to join or start an instance are dealt with by their
\* actions; the others keep their instance.
LEMMA TargetFrame ==
  ASSUME TargetInv, Grows,
         \A l \in Links : spc'[l] \in {"joining", "starting"} =>
           spc[l] = spc'[l] /\ target'[l] = target[l] /\ at'[l] = at[l],
         \A l \in Links : spc'[l] = "starting" => inst'[target[l]].st = "starting"
  PROVE  TargetInv'
<1>1. \A l \in Links : spc'[l] \in {"joining", "starting"} => 
       /\ target[l] \in Insts /\ inst'[target[l]].st # "free"
       /\ inst'[target[l]].srv = at'[l] /\ inst'[target[l]].conn = ConnOf[l]
  BY DEF TargetInv, Grows, Serves, Used
<1>2. \A k, l \in Links :
       spc'[k] = "starting" /\ spc'[l] = "starting" /\ target'[k] = target'[l] => k = l
  BY DEF TargetInv
<1> QED
  BY <1>1, <1>2 DEF TargetInv, Serves, Used

\* Queued instances stay as they are.
LEMMA ListenFrame ==
  ASSUME TableType, ListenInv, listen_rx' = listen_rx,
         \A i \in Insts : inst[i].st = "queued" => inst'[i].st = "queued" /\ inst'[i].srv = inst[i].srv
  PROVE  ListenInv'
BY DEF ListenInv, TableType

\* New members are dealt with by the action that hands them over.
LEMMA MemberFrame ==
  ASSUME TableType, TableType', MemberInv, Grows,
         \A l \in Links : spc[l] = "handed" => spc'[l] = "handed" /\ at'[l] = at[l],
         \A i \in Insts : \A l \in Members(i)' : l \in Members(i) \/ (spc'[l] = "handed" /\ Serves(i, l)')
  PROVE  MemberInv'
<1> SUFFICES ASSUME NEW i \in Insts, NEW l \in Members(i)'
             PROVE  spc'[l] = "handed" /\ Serves(i, l)'
  BY DEF MemberInv, Members, Queued
<1>1. CASE l \in Members(i)
  <2>1. inst[i] \in Instance /\ \A k \in 1 .. Len(inst[i].queue) : inst[i].queue[k] \in Links
    BY DEF TableType, Instance
  <2>2. l \in Links
    BY <1>1, <2>1 DEF Members, Queued, Instance
  <2>3. spc[l] = "handed" /\ Serves(i, l)
    BY <1>1 DEF MemberInv, Members
  <2> QED
    BY <2>2, <2>3 DEF Grows, Serves, Used
<1>2. CASE l \notin Members(i)
  BY <1>2
<1> QED
  BY <1>1, <1>2

\* The client's knowledge of its server is not touched.
LEMMA GreetFrame ==
  ASSUME GreetInv, UNCHANGED <<remote_server_id, at>>,
         \A l \in Links : cpc'[l] = "new" => /\ cpc[l] = "new" /\ spc'[l] = spc[l]
                                             /\ to_client'[l] = to_client[l] /\ to_server'[l] = to_server[l]
                                             /\ existing'[l] = existing[l],
         \A l \in Links : cpc'[l] \in {"greeted", "waiting", "accepted", "added"} =>
           cpc[l] \in {"greeted", "waiting", "accepted", "added"},
         \A l \in Links : cpc'[l] # "new" => cpc[l] # "new",
         \A i \in Insts : Used(i)' => /\ inst'[i].conn \in Own => inst'[i].srv = Home
  PROVE  GreetInv'
BY DEF GreetInv, Used

\* Nothing is claimed that was not claimed before.
LEMMA EvidenceFrame ==
  ASSUME EvidenceInv, Grows, UNCHANGED <<connected, remote_server_id, at>>,
         \A l \in Links : \A k \in 1 .. Len(to_client'[l]) :
           to_client'[l][k] = "Accepted" => Known(l),
         \A l \in Links : \A k \in 1 .. Len(to_server'[l]) :
           to_server'[l][k] => Known(l),
         \A l \in Links : existing'[l] => Known(l),
         \A l \in Links : cpc'[l] # "new" => cpc[l] # "new"
  PROVE  EvidenceInv'
<1>1. \A l \in Links : Known(l) => Known(l)'
  BY KnownStays
<1>2. \A c \in Conns : connected'[c] /\ c \notin Own =>
        \E i \in Insts : Used(i)' /\ inst'[i].conn = c /\ inst'[i].srv = remote_server_id'[c]
  BY DEF EvidenceInv, Grows
<1>3. \A l \in Links : cpc'[l] # "new" /\ ConnOf[l] \in Own => Known(l)'
  BY <1>1 DEF EvidenceInv
<1> QED
  BY <1>1, <1>2, <1>3 DEF EvidenceInv, Used

\* A link that is told that its connection is closed stays right.
LEMMA ClosedFrame ==
  ASSUME ClosedMeansEnded, UNCHANGED at, Grows,
         \A i \in Insts : Used(i) /\ ~Alive(i) => ~Alive(i)',
         \A l \in Links : spc'[l] = "Closed" => spc[l] = "Closed"
  PROVE  ClosedMeansEnded'
BY DEF ClosedMeansEnded, Grows, Used, Alive
-----------------------------------------------------------------------------
(***************************************************************************)
(* Sequences.                                                              *)
(***************************************************************************)

\* What Tail and Head of a queue are.
LEMMA TailFacts ==
  ASSUME NEW S, NEW q \in Seq(S), q # <<>>
  PROVE  /\ Tail(q) \in Seq(S) /\ Len(Tail(q)) = Len(q) - 1 /\ Len(q) \in Nat \ {0}
         /\ \A k \in 1 .. Len(Tail(q)) : Tail(q)[k] = q[k + 1] /\ k + 1 \in 1 .. Len(q)
         /\ Head(q) = q[1] /\ q[1] \in S
OBVIOUS

\* What Append adds.
LEMMA AppendFacts ==
  ASSUME NEW S, NEW q \in Seq(S), NEW x \in S
  PROVE  /\ Append(q, x) \in Seq(S) /\ Len(Append(q, x)) = Len(q) + 1 /\ Len(q) \in Nat
         /\ \A k \in 1 .. Len(Append(q, x)) : \/ k \in 1 .. Len(q) /\ Append(q, x)[k] = q[k]
                                              \/ k = Len(q) + 1 /\ Append(q, x)[k] = x
OBVIOUS

-----------------------------------------------------------------------------
(***************************************************************************)
(* The client.                                                             *)
(***************************************************************************)

\* The first state.
LEMMA InitCore == Init => ServerInv
<1> SUFFICES ASSUME Init PROVE ServerInv
  OBVIOUS
<1> USE ServerAssumption
<1>1. Free \in Instance /\ Free.st = "free" /\ Free.queue = <<>> /\ Free.links = {}
  BY DEF Free, Instance, InstStates
<1>2. \A i \in Insts : inst[i] = Free
  BY DEF Init
<1>3. ClientType /\ LinkType
  BY DEF Init, ClientType, LinkType, ClientStates, ServerStates
<1>4. TableType
  BY <1>1, <1>2 DEF Init, TableType
<1>5. TableInv
  BY <1>1, <1>2 DEF Init, TableInv, Unreported, Alive
<1>6. TargetInv /\ ClosedMeansEnded
  BY DEF Init, TargetInv, ClosedMeansEnded
<1>7. ListenInv
  BY DEF Init, ListenInv
<1>8. MemberInv
  <2> SUFFICES ASSUME NEW i \in Insts PROVE inst[i].links \cup Queued(i) = {}
    BY DEF MemberInv
  <2> QED
    BY <1>1, <1>2 DEF Queued
<1>9. GreetInv
  BY <1>1, <1>2 DEF Init, GreetInv, Used
<1>10. EvidenceInv
  <2>1. \A c \in Conns : connected[c] => c \in Own
    BY ZenonT(20) DEF Init
  <2>2. \A l \in Links : to_client[l] = <<>> /\ to_server[l] = <<>> /\ ~existing[l] /\ cpc[l] = "new"
    BY DEF Init
  <2> QED
    BY <2>1, <2>2 DEF EvidenceInv
<1> QED
  BY <1>3, <1>4, <1>5, <1>6, <1>7, <1>8, <1>9, <1>10 DEF ServerInv

\* The parts that only depend on the server's state, for steps of the client.
LEMMA ClientStep ==
  ASSUME ServerInv, UNCHANGED <<spc, target, at, listenVars, conns, closed_conns, inst>>
  PROVE  TableType' /\ TableInv' /\ TargetInv' /\ ListenInv' /\ MemberInv' /\ ClosedMeansEnded' /\ Grows
<1> USE DEF ServerInv
<1>1. TableType' /\ TableInv'
  BY DEF TableType, TableInv, Unreported, Alive, Used, listenVars
<1>2. TargetInv'
  BY DEF TargetInv, Serves, Used
<1>3. ListenInv'
  BY DEF ListenInv, listenVars
<1>4. MemberInv'
  BY DEF MemberInv, Queued, Serves, Used
<1>5. ClosedMeansEnded'
  BY DEF ClosedMeansEnded, Alive
<1>6. Grows
  BY DEF Grows, Used
<1> QED
  BY <1>1, <1>2, <1>3, <1>4, <1>5, <1>6

\* Dial.
LEMMA DialCore ==
  ASSUME ServerInv, NEW l \in Links, Dial(l)
  PROVE  ServerInv'
<1> USE ServerAssumption DEF ServerInv
<1>1. PICK s \in Servers : /\ at' = [at EXCEPT ![l] = s]
                           /\ ConnOf[l] \in Own => s = Home /\ \E i \in Insts : inst[i].conn = ConnOf[l] /\ Used(i)
  BY DEF Dial, Used
<1>2. /\ cpc[l] = "new" /\ cpc' = [cpc EXCEPT ![l] = "dialed"] /\ spc' = [spc EXCEPT ![l] = "arrived"]
      /\ UNCHANGED <<clientVars, to_client, to_server, existing, target, listenVars, conns, closed_conns, inst>>
  BY DEF Dial
<1>3. spc[l] = "none" /\ to_client[l] = <<>> /\ to_server[l] = <<>> /\ ~existing[l]
  BY <1>2 DEF GreetInv
<1>4. ClientType' /\ LinkType' /\ TableType'
  BY <1>1, <1>2 DEF ClientType, LinkType, TableType, ClientStates, ServerStates, clientVars, listenVars
<1>5. Grows
  BY <1>2 DEF Grows, Used
<1>6. \A m \in Links : m # l => at'[m] = at[m] /\ spc'[m] = spc[m] /\ cpc'[m] = cpc[m]
  BY <1>1, <1>2 DEF LinkType
<1>7. at'[l] = s /\ spc'[l] = "arrived" /\ cpc'[l] = "dialed"
  BY <1>1, <1>2 DEF LinkType
<1>8. TableInv' /\ ListenInv'
  BY <1>2 DEF TableInv, Unreported, Alive, Used, listenVars, ListenInv
<1>9. TargetInv'
  BY <1>2, <1>5, <1>6, <1>7, TargetFrame DEF TargetInv
<1>10. MemberInv'
  <2>1. \A i \in Insts : Members(i)' = Members(i)
    BY <1>2 DEF Members, Queued
  <2> QED
    BY <1>3, <1>4, <1>5, <1>6, <2>1, MemberFrame
<1>11. ClosedMeansEnded'
  BY <1>2, <1>6, <1>7 DEF ClosedMeansEnded, Alive
<1>12. GreetInv'
  BY <1>1, <1>2, <1>6, <1>7 DEF GreetInv, clientVars, Used
<1>13. \A m \in Links : m # l /\ Known(m) => Known(m)'
  BY <1>5, <1>6, KnownStays
<1>14. ConnOf[l] \in Own => Known(l)'
  BY <1>1, <1>2, <1>7 DEF GreetInv, Known, Serves, Used
<1>15. EvidenceInv'
  BY <1>2, <1>3, <1>6, <1>7, <1>13, <1>14 DEF EvidenceInv, clientVars, Used
<1> QED
  BY <1>4, <1>8, <1>9, <1>10, <1>11, <1>12, <1>15

\* Receiving a message leaves no other claims.
LEMMA ReceiveFacts ==
  ASSUME LinkType, EvidenceInv, NEW l \in Links, to_client[l] # <<>>,
         to_client' = [to_client EXCEPT ![l] = Tail(@)]
  PROVE  /\ to_client' \in [Links -> Seq(Messages)]
         /\ Head(to_client[l]) = "Accepted" => Known(l)
         /\ \A m \in Links : \A k \in 1 .. Len(to_client'[m]) :
              to_client'[m][k] = "Accepted" => Known(m)
         /\ \A m \in Links : m # l => to_client'[m] = to_client[m]
<1> DEFINE q == to_client[l]
<1>1. q \in Seq(Messages) /\ q # <<>>
  BY DEF LinkType
<1>2. /\ Tail(q) \in Seq(Messages) /\ Head(q) = q[1] /\ 1 \in 1 .. Len(q)
      /\ \A k \in 1 .. Len(Tail(q)) : Tail(q)[k] = q[k + 1] /\ k + 1 \in 1 .. Len(q)
  <2> HIDE DEF q
  <2> QED
    BY <1>1, TailFacts
<1>3. to_client'[l] = Tail(q) /\ \A m \in Links : m # l => to_client'[m] = to_client[m]
  BY DEF LinkType
<1>4. \A k \in 1 .. Len(q) : q[k] = "Accepted" => Known(l)
  BY DEF EvidenceInv
<1>5. ASSUME NEW m \in Links, NEW k \in 1 .. Len(to_client'[m]), to_client'[m][k] = "Accepted"
      PROVE  Known(m)
  <2>1. CASE m = l
    <3>1. to_client'[m] = Tail(q)
      BY <1>3, <2>1
    <3>2. k \in 1 .. Len(Tail(q)) /\ Tail(q)[k] = "Accepted"
      BY <1>5, <3>1
    <3> HIDE DEF q
    <3> QED
      BY <1>2, <1>4, <2>1, <3>2
  <2>2. CASE m # l
    <3>1. to_client'[m] = to_client[m]
      BY <1>3, <2>2
    <3>2. k \in 1 .. Len(to_client[m]) /\ to_client[m][k] = "Accepted"
      BY <1>5, <3>1
    <3> QED
      BY <3>2 DEF EvidenceInv
  <2> QED
    BY <2>1, <2>2
<1>6. to_client' \in [Links -> Seq(Messages)]
  BY <1>2 DEF LinkType
<1> QED
  BY <1>2, <1>3, <1>4, <1>5, <1>6

\* RecvWelcome.
LEMMA RecvWelcomeCore ==
  ASSUME ServerInv, NEW l \in Links, RecvWelcome(l)
  PROVE  ServerInv'
<1> USE ServerAssumption DEF ServerInv
<1> DEFINE c == ConnOf[l]
<1>1. /\ cpc[l] = "dialed" /\ to_client[l] # <<>> /\ to_client' = [to_client EXCEPT ![l] = Tail(@)]
      /\ UNCHANGED <<connected, at, spc, to_server, existing, target, listenVars, conns, closed_conns, inst>>
  BY DEF RecvWelcome
<1>2. c \in Conns /\ at[l] \in Servers
  BY DEF LinkType
<1>3. /\ to_client' \in [Links -> Seq(Messages)]
      /\ \A m \in Links : m # l => to_client'[m] = to_client[m]
  BY <1>1, ReceiveFacts
<1>4. \A m \in Links : \A k \in 1 .. Len(to_client'[m]) : to_client'[m][k] = "Accepted" => Known(m)
  BY <1>1, ReceiveFacts
<1>5. \/ /\ remote_server_id[c] \in {NoServer, at[l]}
         /\ remote_server_id' = [remote_server_id EXCEPT ![c] = at[l]]
         /\ cpc' = [cpc EXCEPT ![l] = "greeted"]
      \/ cpc' = [cpc EXCEPT ![l] = "failed"] /\ remote_server_id' = remote_server_id
  BY DEF RecvWelcome, MatchesServer
<1>6. ClientType' /\ LinkType'
  BY <1>1, <1>2, <1>3, <1>5 DEF ClientType, LinkType, ClientStates
<1>7. TableType' /\ TableInv' /\ TargetInv' /\ ListenInv' /\ MemberInv' /\ ClosedMeansEnded' /\ Grows
  BY <1>1, ClientStep
<1>8. \A d \in Conns : remote_server_id[d] # NoServer => remote_server_id'[d] = remote_server_id[d]
  BY <1>2, <1>5 DEF ClientType
<1>9. /\ \A m \in Links : m # l => cpc'[m] = cpc[m]
      /\ cpc'[l] \in {"greeted", "failed"}
      /\ cpc'[l] = "greeted" => remote_server_id'[c] = at[l]
  BY <1>2, <1>5 DEF LinkType, ClientType
<1>10. GreetInv'
  <2>1. \A m \in Links : cpc'[m] \in {"greeted", "waiting", "accepted", "added"} =>
          remote_server_id'[ConnOf[m]] = at[m]
    <3> SUFFICES ASSUME NEW m \in Links, cpc'[m] \in {"greeted", "waiting", "accepted", "added"}
                 PROVE  remote_server_id'[ConnOf[m]] = at[m]
      OBVIOUS
    <3>1. CASE m = l
      BY <1>9, <3>1
    <3>2. CASE m # l
      <4>1. remote_server_id[ConnOf[m]] = at[m] /\ at[m] \in Servers /\ ConnOf[m] \in Conns
        BY <1>9, <3>2 DEF GreetInv, LinkType
      <4> QED
        BY <1>8, <4>1
    <3> QED
      BY <3>1, <3>2
  <2>2. \A d \in Own : remote_server_id'[d] = Home
    BY <1>8 DEF GreetInv
  <2> QED
    BY <1>1, <1>3, <1>9, <2>1, <2>2 DEF GreetInv, Used
<1>11. \A d \in Conns : connected'[d] /\ d \notin Own =>
         \E i \in Insts : Used(i) /\ inst[i].conn = d /\ inst[i].srv = remote_server_id'[d]
  <2> SUFFICES ASSUME NEW d \in Conns, connected'[d], d \notin Own
               PROVE  \E i \in Insts : Used(i) /\ inst[i].conn = d /\ inst[i].srv = remote_server_id'[d]
    OBVIOUS
  <2>1. PICK i \in Insts : Used(i) /\ inst[i].conn = d /\ inst[i].srv = remote_server_id[d]
    BY <1>1 DEF EvidenceInv
  <2>2. inst[i].srv \in Servers
    BY DEF TableType, Instance
  <2> QED
    BY <1>8, <2>1, <2>2
<1>12. EvidenceInv'
  BY <1>1, <1>4, <1>9, <1>11 DEF EvidenceInv, Known, Serves, Used
<1> QED
  BY <1>6, <1>7, <1>10, <1>12

\* SendConnect.
LEMMA SendConnectCore ==
  ASSUME ServerInv, NEW l \in Links, SendConnect(l)
  PROVE  ServerInv'
<1> USE ServerAssumption DEF ServerInv
<1>1. /\ cpc[l] = "greeted" /\ cpc' = [cpc EXCEPT ![l] = "waiting"]
      /\ to_server' = [to_server EXCEPT ![l] = <<connected[ConnOf[l]]>>]
      /\ UNCHANGED <<clientVars, at, spc, to_client, existing, target, listenVars, conns, closed_conns, inst>>
  BY DEF SendConnect
<1>2. connected[ConnOf[l]] \in BOOLEAN
  BY DEF ClientType
<1>3. ClientType' /\ LinkType'
  BY <1>1, <1>2 DEF ClientType, LinkType, ClientStates, clientVars
<1>4. TableType' /\ TableInv' /\ TargetInv' /\ ListenInv' /\ MemberInv' /\ ClosedMeansEnded' /\ Grows
  BY <1>1, ClientStep
<1>5. cpc'[l] = "waiting" /\ \A m \in Links : m # l => cpc'[m] = cpc[m] /\ to_server'[m] = to_server[m]
  BY <1>1 DEF LinkType
<1>6. GreetInv'
  BY <1>1, <1>5 DEF GreetInv, clientVars, Used
<1>7. connected[ConnOf[l]] => Known(l)
  BY <1>1 DEF EvidenceInv, GreetInv, Known, Serves
<1>8. Len(to_server'[l]) = 1 /\ to_server'[l][1] = connected[ConnOf[l]]
  BY <1>1 DEF LinkType
<1>9. \A m \in Links : \A k \in 1 .. Len(to_server'[m]) : to_server'[m][k] => Known(m)
  BY <1>5, <1>7, <1>8 DEF EvidenceInv
<1>10. EvidenceInv'
  BY <1>1, <1>4, <1>5, <1>9, EvidenceFrame DEF EvidenceInv, clientVars
<1> QED
  BY <1>3, <1>4, <1>6, <1>10

\* RecvAnswer.
LEMMA RecvAnswerCore ==
  ASSUME ServerInv, NEW l \in Links, RecvAnswer(l)
  PROVE  ServerInv'
<1> USE ServerAssumption DEF ServerInv
<1> DEFINE c == ConnOf[l]
<1>1. /\ cpc[l] = "waiting" /\ to_client[l] # <<>> /\ to_client' = [to_client EXCEPT ![l] = Tail(@)]
      /\ UNCHANGED <<remote_server_id, at, spc, to_server, existing, target, listenVars, conns, closed_conns, inst>>
  BY DEF RecvAnswer
<1>2. c \in Conns
  OBVIOUS
<1>3. /\ to_client' \in [Links -> Seq(Messages)]
      /\ \A m \in Links : m # l => to_client'[m] = to_client[m]
      /\ Head(to_client[l]) = "Accepted" => Known(l)
  BY <1>1, ReceiveFacts
<1>4. \A m \in Links : \A k \in 1 .. Len(to_client'[m]) : to_client'[m][k] = "Accepted" => Known(m)
  BY <1>1, ReceiveFacts
<1>5. \/ /\ Known(l) /\ connected' = [connected EXCEPT ![c] = TRUE]
         /\ cpc' = [cpc EXCEPT ![l] = "accepted"]
      \/ cpc' = [cpc EXCEPT ![l] = "refused"] /\ connected' = connected
  BY <1>3 DEF RecvAnswer
<1>6. ClientType' /\ LinkType'
  BY <1>1, <1>2, <1>3, <1>5 DEF ClientType, LinkType, ClientStates
<1>7. TableType' /\ TableInv' /\ TargetInv' /\ ListenInv' /\ MemberInv' /\ ClosedMeansEnded' /\ Grows
  BY <1>1, ClientStep
<1>8. cpc'[l] \in {"accepted", "refused"} /\ \A m \in Links : m # l => cpc'[m] = cpc[m]
  BY <1>5 DEF LinkType
<1>9. GreetInv'
  BY <1>1, <1>3, <1>8 DEF GreetInv, Used
<1>10. Known(l) => \E i \in Insts : Used(i) /\ inst[i].conn = c /\ inst[i].srv = remote_server_id[c]
  BY <1>1 DEF Known, Serves, GreetInv
<1>11. \A d \in Conns : connected'[d] /\ d \notin Own =>
         \E i \in Insts : Used(i) /\ inst[i].conn = d /\ inst[i].srv = remote_server_id[d]
  BY <1>2, <1>5, <1>10 DEF EvidenceInv, ClientType
<1>12. EvidenceInv'
  BY <1>1, <1>4, <1>8, <1>11 DEF EvidenceInv, Known, Serves, Used
<1> QED
  BY <1>6, <1>7, <1>9, <1>12

\* AddLink, ClientFail and ClientEnd.
LEMMA ClientRestCore ==
  ASSUME ServerInv,
         \/ \E l \in Links : AddLink(l) \/ ClientFail(l)
         \/ \E c \in Conns : ClientEnd(c)
  PROVE  ServerInv'
<1> USE DEF ServerInv
<1>1. /\ UNCHANGED <<remote_server_id, connected, at, spc, to_client, to_server, existing, target,
                     listenVars, conns, closed_conns, inst>>
      /\ cpc' \in [Links -> ClientStates]
      /\ \A m \in Links : cpc'[m] = cpc[m] \/ (cpc[m] # "new" /\ cpc'[m] = "failed")
                          \/ (cpc[m] = "accepted" /\ cpc'[m] = "added")
  BY DEF AddLink, ClientFail, ClientEnd, LinkType, ClientStates, clientVars, linkVars
<1>2. ClientType' /\ LinkType'
  BY <1>1 DEF ClientType, LinkType
<1>3. TableType' /\ TableInv' /\ TargetInv' /\ ListenInv' /\ MemberInv' /\ ClosedMeansEnded' /\ Grows
  BY <1>1, ClientStep
<1>4. GreetInv'
  BY <1>1 DEF GreetInv, Used
<1>5. EvidenceInv'
  BY <1>1 DEF EvidenceInv, Known, Serves, Used
<1> QED
  BY <1>2, <1>3, <1>4, <1>5
-----------------------------------------------------------------------------
(***************************************************************************)
(* Server::add_incoming.                                                   *)
(***************************************************************************)

\* Sending a message makes no false claim if the message is none.
LEMMA SendFacts ==
  ASSUME LinkType, EvidenceInv, NEW S, NEW x \in Messages, Answer(S, x),
         \A m \in Links : m \in S /\ x = "Accepted" => Known(m)
  PROVE  /\ to_client' \in [Links -> Seq(Messages)]
         /\ \A m \in Links : \A k \in 1 .. Len(to_client'[m]) :
              to_client'[m][k] = "Accepted" => Known(m)
         /\ \A m \in Links : m \notin S => to_client'[m] = to_client[m]
<1>0. to_client' = [m \in Links |-> IF m \in S THEN Append(to_client[m], x) ELSE to_client[m]]
  BY DEF Answer
<1> SUFFICES ASSUME NEW m \in Links
             PROVE  /\ to_client'[m] \in Seq(Messages)
                    /\ \A k \in 1 .. Len(to_client'[m]) : to_client'[m][k] = "Accepted" => Known(m)
  BY <1>0
<1>1. to_client[m] \in Seq(Messages) /\ \A k \in 1 .. Len(to_client[m]) : to_client[m][k] = "Accepted" => Known(m)
  BY DEF LinkType, EvidenceInv
<1>2. CASE m \notin S
  <2>1. to_client'[m] = to_client[m]
    BY <1>0, <1>2
  <2> QED
    BY <1>1, <2>1
<1>3. CASE m \in S
  <2> DEFINE q == to_client[m]
  <2>1. /\ Append(q, x) \in Seq(Messages)
        /\ \A k \in 1 .. Len(Append(q, x)) : \/ k \in 1 .. Len(q) /\ Append(q, x)[k] = q[k]
                                             \/ Append(q, x)[k] = x
    <3>1. q \in Seq(Messages)
      BY <1>1
    <3> HIDE DEF q
    <3> QED
      BY <3>1, AppendFacts
  <2>2. \A k \in 1 .. Len(Append(q, x)) : Append(q, x)[k] = "Accepted" => Known(m)
    BY <1>1, <1>3, <2>1
  <2>3. to_client'[m] = Append(q, x)
    BY <1>0, <1>3
  <2> QED
    BY <2>1, <2>2, <2>3
<1> QED
  BY <1>2, <1>3

Sends(l, x) == to_client' = [to_client EXCEPT ![l] = Append(@, x)]

\* The same for one link that is sent anything but Accepted.
LEMMA SendOneFacts ==
  ASSUME LinkType, EvidenceInv, NEW l \in Links, NEW x \in Messages, x # "Accepted", Sends(l, x)
  PROVE  /\ to_client' \in [Links -> Seq(Messages)]
         /\ \A m \in Links : \A k \in 1 .. Len(to_client'[m]) :
              to_client'[m][k] = "Accepted" => Known(m)
<1> DEFINE S == {l}
<1>1. Answer(S, x)
  BY DEF LinkType, Answer, Sends
<1>2. \A m \in Links : m \in S /\ x = "Accepted" => Known(m)
  OBVIOUS
<1> HIDE DEF S
<1> QED
  BY <1>1, <1>2, SendFacts

\* The parts that a step of add_incoming which leaves the instances and the
\* client alone cannot disturb.
LEMMA IncomingStep ==
  ASSUME ServerInv, NEW l \in Links, spc[l] \notin {"none", "handed"},
         UNCHANGED <<clientVars, at, cpc, listenVars, inst>>,
         spc' \in [Links -> ServerStates], \A m \in Links : m # l => spc'[m] = spc[m],
         \A m \in Links : m # l => to_client'[m] = to_client[m] /\ to_server'[m] = to_server[m]
                                   /\ existing'[m] = existing[m]
  PROVE  ClientType' /\ ListenInv' /\ GreetInv' /\ Grows /\ inst' \in [Insts -> Instance]
         /\ (TableType' => MemberInv')
<1> USE DEF ServerInv
<1>1. ClientType' /\ inst' \in [Insts -> Instance]
  BY DEF ClientType, TableType, clientVars
<1>2. ListenInv'
  BY DEF ListenInv, listenVars
<1>3. cpc[l] # "new"
  BY DEF GreetInv
<1>4. GreetInv'
  BY <1>3 DEF GreetInv, Used, clientVars
<1>5. Grows
  BY DEF Grows, Used
<1>6. ASSUME TableType' PROVE MemberInv'
  <2>1. \A i \in Insts : Members(i)' = Members(i)
    BY DEF Members, Queued
  <2> QED
    BY <1>5, <1>6, <2>1, MemberFrame
<1> QED
  BY <1>1, <1>2, <1>4, <1>5, <1>6

\* Welcome: clean-up removes only entries whose connection has ended.
LEMMA WelcomeCore ==
  ASSUME ServerInv, NEW l \in Links, Welcome(l)
  PROVE  ServerInv'
<1> USE DEF ServerInv
<1> DEFINE s == at[l]
<1>1. /\ spc[l] = "arrived" /\ spc' = [spc EXCEPT ![l] = "greeting"]
      /\ to_client' = [to_client EXCEPT ![l] = Append(@, "Welcome")]
      /\ UNCHANGED <<clientVars, at, cpc, to_server, existing, target, listenVars, inst>>
  BY DEF Welcome
<1>2. /\ conns' = [conns EXCEPT ![s] = [c \in Conns |-> IF c \in closed_conns[s] THEN 0 ELSE conns[s][c]]]
      /\ closed_conns' = [closed_conns EXCEPT ![s] = {}]
  BY DEF Welcome, CleanupLinks
<1>3. s \in Servers /\ spc' \in [Links -> ServerStates]
      /\ \A m \in Links : m # l => spc'[m] = spc[m] /\ to_client'[m] = to_client[m]
      /\ spc'[l] = "greeting" /\ to_client'[l] = Append(to_client[l], "Welcome")
  BY <1>1 DEF LinkType, ServerStates
<1>4. /\ to_client' \in [Links -> Seq(Messages)]
      /\ \A m \in Links : \A k \in 1 .. Len(to_client'[m]) : to_client'[m][k] = "Accepted" => Known(m)
  <2>1. Sends(l, "Welcome")
    BY <1>1 DEF Sends
  <2>2. "Welcome" \in Messages /\ "Welcome" # "Accepted"
    BY DEF Messages
  <2> QED
    BY <2>1, <2>2, SendOneFacts
<1>5. LinkType'
  BY <1>1, <1>3, <1>4 DEF LinkType
<1>6. conns' \in [Servers -> [Conns -> Insts \cup {0}]] /\ closed_conns' \in [Servers -> SUBSET Conns]
  BY <1>2, <1>3 DEF TableType
<1>7. TableType'
  BY <1>1, <1>6 DEF TableType, listenVars
<1>8. ClientType' /\ ListenInv' /\ GreetInv' /\ Grows /\ MemberInv'
  BY <1>1, <1>3, <1>7, IncomingStep
<1>9. \A r \in Servers, c \in Conns :
        /\ conns'[r][c] = conns[r][c] \/ (conns'[r][c] = 0 /\ c \in closed_conns[r])
        /\ c \in closed_conns'[r] => c \in closed_conns[r] /\ conns'[r][c] = conns[r][c]
  BY <1>2, <1>3 DEF TableType
<1>10. \A i \in Insts : inst[i].srv \in Servers /\ inst[i].conn \in Conns
  BY DEF TableType, Instance
<1>11. TableInv'
  <2>1. \A i \in Insts : Unreported(i) =>
          /\ conns'[inst[i].srv][inst[i].conn] = i
          /\ inst[i].conn \notin closed_conns'[inst[i].srv]
    BY <1>9, <1>10 DEF TableInv
  <2>2. \A r \in Servers : \A c \in closed_conns'[r] : conns'[r][c] # 0
    BY <1>6, <1>9 DEF TableInv
  <2>3. \A r \in Servers, c \in Conns : conns'[r][c] # 0 =>
          /\ Used(conns'[r][c]) /\ inst[conns'[r][c]].srv = r /\ inst[conns'[r][c]].conn = c
    BY <1>9 DEF TableInv
  <2> QED
    BY <1>1, <2>1, <2>2, <2>3 DEF TableInv, Unreported, Alive, Used
<1>12. TargetInv'
  BY <1>1, <1>3, <1>8, TargetFrame DEF TargetInv
<1>13. ClosedMeansEnded'
  BY <1>1, <1>3 DEF ClosedMeansEnded, Alive
<1>14. EvidenceInv'
  BY <1>1, <1>4, <1>8, EvidenceFrame DEF EvidenceInv, clientVars
<1> QED
  BY <1>5, <1>7, <1>8, <1>11, <1>12, <1>13, <1>14

\* RecvConnect, IncomingFail, CloneListenTx and Reserve.
LEMMA ConnectCore ==
  ASSUME ServerInv, NEW l \in Links, RecvConnect(l) \/ IncomingFail(l) \/ CloneListenTx(l) \/ Reserve(l)
  PROVE  ServerInv'
<1> USE DEF ServerInv
<1>1. /\ spc[l] \in {"greeting", "vacant", "reserving"}
      /\ \E st \in {"lookup", "failed", "reserving", "permit", "nopermit"} : spc' = [spc EXCEPT ![l] = st]
      /\ UNCHANGED <<clientVars, at, cpc, to_client, target, listenVars, conns, closed_conns, inst>>
  BY DEF RecvConnect, IncomingFail, CloneListenTx, Reserve
<1>2. \/ UNCHANGED <<existing, to_server>>
      \/ /\ to_server[l] # <<>> /\ existing' = [existing EXCEPT ![l] = Head(to_server[l])]
         /\ to_server' = [to_server EXCEPT ![l] = <<>>]
  BY DEF RecvConnect, IncomingFail, CloneListenTx, Reserve
<1>3. /\ spc' \in [Links -> ServerStates] /\ \A m \in Links : m # l => spc'[m] = spc[m]
      /\ spc'[l] \in {"lookup", "failed", "reserving", "permit", "nopermit"}
  BY <1>1 DEF LinkType, ServerStates
<1>4. /\ existing' \in [Links -> BOOLEAN] /\ to_server' \in [Links -> Seq(BOOLEAN)]
      /\ \A m \in Links : m # l => to_server'[m] = to_server[m] /\ existing'[m] = existing[m]
  <2>1. CASE UNCHANGED <<existing, to_server>>
    BY <2>1 DEF LinkType
  <2>2. CASE /\ to_server[l] # <<>> /\ existing' = [existing EXCEPT ![l] = Head(to_server[l])]
             /\ to_server' = [to_server EXCEPT ![l] = <<>>]
    <3>1. Head(to_server[l]) \in BOOLEAN
      BY <2>2, TailFacts DEF LinkType
    <3> QED
      BY <2>2, <3>1 DEF LinkType
  <2> QED
    BY <1>2, <2>1, <2>2
<1>5. LinkType' /\ TableType'
  BY <1>1, <1>3, <1>4 DEF LinkType, TableType, listenVars
<1>6. ClientType' /\ ListenInv' /\ GreetInv' /\ Grows /\ MemberInv'
  BY <1>1, <1>3, <1>4, <1>5, IncomingStep
<1>7. TableInv'
  BY <1>1 DEF TableInv, Unreported, Alive, Used
<1>8. TargetInv'
  BY <1>1, <1>3, <1>6, TargetFrame DEF TargetInv
<1>9. ClosedMeansEnded'
  BY <1>1, <1>3 DEF ClosedMeansEnded, Alive
<1>10. existing'[l] => Known(l)
  <2>1. CASE UNCHANGED existing
    BY <2>1 DEF EvidenceInv
  <2>2. CASE to_server[l] # <<>> /\ existing' = [existing EXCEPT ![l] = Head(to_server[l])]
    <3>1. existing'[l] = to_server[l][1] /\ 1 \in 1 .. Len(to_server[l])
      BY <2>2 DEF LinkType
    <3> QED
      BY <3>1 DEF EvidenceInv
  <2> QED
    BY <1>2, <2>1, <2>2
<1>11. \A m \in Links : \A k \in 1 .. Len(to_server'[m]) : to_server'[m][k] => Known(m)
  <2>1. \A m \in Links : to_server'[m] = to_server[m] \/ to_server'[m] = <<>>
    BY <1>2 DEF LinkType
  <2> QED
    BY <2>1 DEF EvidenceInv
<1>12. EvidenceInv'
  BY <1>1, <1>4, <1>6, <1>10, <1>11, EvidenceFrame DEF EvidenceInv, clientVars
<1> QED
  BY <1>5, <1>6, <1>7, <1>8, <1>9, <1>12

\* SendRefused.
LEMMA SendRefusedCore ==
  ASSUME ServerInv, NEW l \in Links, SendRefused(l)
  PROVE  ServerInv'
<1> USE DEF ServerInv
<1>1. /\ spc[l] \in {"Closed", "NotListening"} /\ spc' = [spc EXCEPT ![l] = "done"]
      /\ to_client' = [to_client EXCEPT ![l] = Append(@, spc[l])]
      /\ UNCHANGED <<clientVars, at, cpc, to_server, existing, target, listenVars, conns, closed_conns, inst>>
  BY DEF SendRefused
<1>2. /\ spc' \in [Links -> ServerStates] /\ spc'[l] = "done" /\ to_client'[l] = Append(to_client[l], spc[l])
      /\ \A m \in Links : m # l => spc'[m] = spc[m] /\ to_client'[m] = to_client[m]
  BY <1>1 DEF LinkType, ServerStates
<1>3. /\ to_client' \in [Links -> Seq(Messages)]
      /\ \A m \in Links : \A k \in 1 .. Len(to_client'[m]) : to_client'[m][k] = "Accepted" => Known(m)
  <2>1. Sends(l, spc[l]) /\ spc[l] \in Messages /\ spc[l] # "Accepted"
    BY <1>1 DEF Sends, Messages
  <2> QED
    BY <2>1, SendOneFacts
<1>4. LinkType' /\ TableType'
  BY <1>1, <1>2, <1>3 DEF LinkType, TableType, listenVars
<1>5. ClientType' /\ ListenInv' /\ GreetInv' /\ Grows /\ MemberInv'
  BY <1>1, <1>2, <1>4, IncomingStep
<1>6. TableInv'
  BY <1>1 DEF TableInv, Unreported, Alive, Used
<1>7. TargetInv'
  BY <1>1, <1>2, <1>5, TargetFrame DEF TargetInv
<1>8. ClosedMeansEnded'
  BY <1>1, <1>2 DEF ClosedMeansEnded, Alive
<1>9. EvidenceInv'
  BY <1>1, <1>3, <1>5, EvidenceFrame DEF EvidenceInv, clientVars
<1> QED
  BY <1>4, <1>5, <1>6, <1>7, <1>8, <1>9

\* Lookup: a vacant entry of a connection that was known means it has ended.
LEMMA LookupCore ==
  ASSUME ServerInv, NEW l \in Links, Lookup(l)
  PROVE  ServerInv'
<1> USE ServerAssumption DEF ServerInv
<1> DEFINE e == conns[at[l]][ConnOf[l]]
<1>1. /\ spc[l] = "lookup"
      /\ UNCHANGED <<clientVars, at, cpc, to_client, to_server, existing, listenVars, conns, closed_conns, inst>>
  BY DEF Lookup
<1>2. \/ e # 0 /\ spc' = [spc EXCEPT ![l] = "joining"] /\ target' = [target EXCEPT ![l] = e]
      \/ e = 0 /\ existing[l] /\ spc' = [spc EXCEPT ![l] = "Closed"] /\ target' = target
      \/ e = 0 /\ ~existing[l] /\ spc' = [spc EXCEPT ![l] = "vacant"] /\ target' = target
  BY DEF Lookup, Entry
<1>3. e \in Insts \cup {0} /\ at[l] \in Servers /\ ConnOf[l] \in Conns
  BY DEF TableType, LinkType
<1>4. /\ spc' \in [Links -> ServerStates] /\ target' \in [Links -> Insts \cup {0}]
      /\ \A m \in Links : m # l => spc'[m] = spc[m] /\ target'[m] = target[m]
  BY <1>2, <1>3 DEF LinkType, ServerStates
<1>5. LinkType' /\ TableType'
  BY <1>1, <1>4 DEF LinkType, TableType, listenVars
<1>6. ClientType' /\ ListenInv' /\ GreetInv' /\ Grows /\ MemberInv'
  BY <1>1, <1>4, <1>5, IncomingStep
<1>7. TableInv'
  BY <1>1 DEF TableInv, Unreported, Alive, Used
<1>8. /\ spc'[l] \in {"joining", "Closed", "vacant"}
      /\ spc'[l] = "joining" => target'[l] = e /\ e # 0
      /\ spc'[l] = "Closed" => e = 0 /\ existing[l]
  BY <1>2 DEF LinkType
<1>9. TargetInv'
  <2>1. spc'[l] = "joining" => e \in Insts /\ Serves(e, l)
    BY <1>3, <1>8 DEF TableInv, Serves
  <2>2. \A m \in Links : spc'[m] \in {"joining", "starting"} => target'[m] \in Insts
          /\ inst[target'[m]].st # "free" /\ inst[target'[m]].srv = at[m] /\ inst[target'[m]].conn = ConnOf[m]
    BY <1>4, <1>8, <2>1 DEF TargetInv, Serves, Used
  <2>3. \A m \in Links : spc'[m] = "starting" => spc[m] = "starting" /\ target'[m] = target[m]
    BY <1>4, <1>8
  <2> QED
    BY <1>1, <2>2, <2>3 DEF TargetInv, Serves, Used
<1>10. ClosedMeansEnded'
  <2>1. spc'[l] = "Closed" => \E i \in Insts : Serves(i, l) /\ ~Alive(i)
    <3> SUFFICES ASSUME spc'[l] = "Closed" PROVE \E i \in Insts : Serves(i, l) /\ ~Alive(i)
      OBVIOUS
    <3>1. PICK i \in Insts : Serves(i, l)
      BY <1>8 DEF EvidenceInv, Known
    <3>2. i # 0
      BY DEF Insts
    <3> QED
      BY <1>8, <3>1, <3>2 DEF TableInv, Serves, Unreported
  <2> QED
    BY <1>1, <1>4, <2>1 DEF ClosedMeansEnded, Alive, Serves, Used
<1>11. EvidenceInv'
  BY <1>1, <1>6, EvidenceFrame DEF EvidenceInv, clientVars
<1> QED
  BY <1>5, <1>6, <1>7, <1>9, <1>10, <1>11
\* A new instance, of the connection d at server r, with its table entry.
LEMMA NewInstance ==
  ASSUME TableType, TableInv, ListenInv, MemberInv, GreetInv, NEW i \in Insts, NEW r \in Servers,
         NEW d \in Conns, NEW st \in {"starting", "running"},
         Fresh(i), conns[r][d] = 0, d \in Own => r = Home,
         conns' = [conns EXCEPT ![r][d] = i],
         inst' = [inst EXCEPT ![i].st = st, ![i].srv = r, ![i].conn = d],
         UNCHANGED <<closed_conns, listen_rx>>
  PROVE  /\ TableType' /\ TableInv' /\ ListenInv' /\ Grows
         /\ inst'[i].st = st /\ inst'[i].srv = r /\ inst'[i].conn = d /\ inst[i].st = "free"
         /\ \A j \in Insts : j # i => inst'[j] = inst[j]
         /\ \A j \in Insts : Members(j)' = Members(j)
         /\ \A j \in Insts : Used(j)' => (inst'[j].conn \in Own => inst'[j].srv = Home)
<1>1. inst[i].st = "free" /\ i # 0
  BY DEF Fresh, Insts
<1>2. /\ inst'[i].st = st /\ inst'[i].srv = r /\ inst'[i].conn = d
      /\ inst'[i].queue = inst[i].queue /\ inst'[i].links = inst[i].links
      /\ \A j \in Insts : j # i => inst'[j] = inst[j]
  BY DEF TableType, Instance
<1>3. inst' \in [Insts -> Instance]
  <2>1. inst[i] \in Instance /\ st \in InstStates
    BY DEF TableType, InstStates
  <2>2. [inst[i] EXCEPT !.st = st, !.srv = r, !.conn = d] \in Instance
    BY <2>1 DEF Instance
  <2>3. inst' = [inst EXCEPT ![i] = [inst[i] EXCEPT !.st = st, !.srv = r, !.conn = d]]
    BY DEF TableType
  <2> QED
    BY <2>2, <2>3 DEF TableType
<1>4. /\ conns' \in [Servers -> [Conns -> Insts \cup {0}]] /\ conns'[r][d] = i
      /\ \A s \in Servers, c \in Conns : s # r \/ c # d => conns'[s][c] = conns[s][c]
  BY DEF TableType
<1>5. TableType'
  BY <1>3, <1>4 DEF TableType
<1>6. Grows
  BY <1>1, <1>2 DEF Grows, Used
<1>7. TableInv'
  <2>1. \A j \in Insts : inst[j].srv \in Servers /\ inst[j].conn \in Conns
    BY DEF TableType, Instance
  <2>2. \A j \in Insts : Unreported(j)' =>
          /\ conns'[inst'[j].srv][inst'[j].conn] = j
          /\ inst'[j].conn \notin closed_conns[inst'[j].srv]
    <3> SUFFICES ASSUME NEW j \in Insts, Unreported(j)'
                 PROVE  /\ conns'[inst'[j].srv][inst'[j].conn] = j
                        /\ inst'[j].conn \notin closed_conns[inst'[j].srv]
      OBVIOUS
    <3>1. CASE j = i
      BY <1>2, <1>4, <3>1 DEF TableInv
    <3>2. CASE j # i
      <4>1. Unreported(j) /\ inst'[j] = inst[j] /\ j # 0
        <5>1. inst'[j] = inst[j]
          BY <1>2, <3>2
        <5>2. j # 0
          BY DEF Insts
        <5> QED
          BY <5>1, <5>2 DEF Unreported, Alive
      <4>2. conns[inst[j].srv][inst[j].conn] = j /\ inst[j].conn \notin closed_conns[inst[j].srv]
        BY <4>1 DEF TableInv
      <4>3. inst[j].srv # r \/ inst[j].conn # d
        BY <4>1, <4>2
      <4>4. conns'[inst[j].srv][inst[j].conn] = conns[inst[j].srv][inst[j].conn]
        BY <1>4, <2>1, <4>3
      <4> QED
        BY <4>1, <4>2, <4>4
    <3> QED
      BY <3>1, <3>2
  <2>3. \A s \in Servers : \A c \in closed_conns[s] : conns'[s][c] # 0
    BY <1>1, <1>4 DEF TableInv, TableType
  <2>4. \A s \in Servers, c \in Conns : conns'[s][c] # 0 =>
          /\ inst'[conns'[s][c]].st # "free" /\ inst'[conns'[s][c]].srv = s /\ inst'[conns'[s][c]].conn = c
    <3> SUFFICES ASSUME NEW s \in Servers, NEW c \in Conns, conns'[s][c] # 0
                 PROVE  /\ inst'[conns'[s][c]].st # "free" /\ inst'[conns'[s][c]].srv = s
                        /\ inst'[conns'[s][c]].conn = c
      OBVIOUS
    <3>1. CASE s = r /\ c = d
      BY <1>2, <1>4, <3>1
    <3>2. CASE s # r \/ c # d
      <4>1. conns'[s][c] = conns[s][c] /\ conns[s][c] \in Insts
        BY <1>4, <3>2 DEF TableType
      <4>2. Used(conns[s][c]) /\ inst[conns[s][c]].srv = s /\ inst[conns[s][c]].conn = c
        BY <4>1 DEF TableInv
      <4> QED
        BY <1>6, <4>1, <4>2 DEF Grows, Used
    <3> QED
      BY <3>1, <3>2
  <2> QED
    BY <2>2, <2>3, <2>4 DEF TableInv, Used
<1>8. ListenInv'
  BY <1>1, <1>2, ListenFrame
<1>9. \A j \in Insts : Members(j)' = Members(j)
  <2>1. \A j \in Insts : inst'[j].queue = inst[j].queue /\ inst'[j].links = inst[j].links
    BY <1>2
  <2> QED
    BY <2>1 DEF Members, Queued
<1>10. \A j \in Insts : Used(j)' => (inst'[j].conn \in Own => inst'[j].srv = Home)
  BY <1>2 DEF GreetInv, Used
<1> QED
  BY <1>1, <1>2, <1>5, <1>6, <1>7, <1>8, <1>9, <1>10

\* Relookup: a link makes a connection only if the second look-up, too, finds
\* none.
LEMMA RelookupCore ==
  ASSUME ServerInv, NEW l \in Links, Relookup(l)
  PROVE  ServerInv'
<1> USE ServerAssumption DEF ServerInv
<1> DEFINE e == conns[at[l]][ConnOf[l]]
<1>1. /\ spc[l] \in {"permit", "nopermit"}
      /\ UNCHANGED <<clientVars, at, cpc, to_client, to_server, existing, listenVars, closed_conns>>
  BY DEF Relookup
<1>2. e \in Insts \cup {0} /\ at[l] \in Servers /\ ConnOf[l] \in Conns
  BY DEF TableType, LinkType
<1>3. cpc[l] # "new"
  BY <1>1 DEF GreetInv
<1>4. ASSUME NEW i \in Insts, e = 0, Fresh(i),
             conns' = [conns EXCEPT ![at[l]][ConnOf[l]] = i],
             inst' = [inst EXCEPT ![i].st = "starting", ![i].srv = at[l], ![i].conn = ConnOf[l]],
             target' = [target EXCEPT ![l] = i], spc' = [spc EXCEPT ![l] = "starting"]
      PROVE  ServerInv'
  <2>1. ConnOf[l] \in Own => at[l] = Home
    BY <1>3 DEF GreetInv
  <2>2. /\ TableType' /\ TableInv' /\ ListenInv' /\ Grows
        /\ inst'[i].st = "starting" /\ inst'[i].srv = at[l] /\ inst'[i].conn = ConnOf[l]
        /\ inst[i].st = "free"
        /\ \A j \in Insts : j # i => inst'[j] = inst[j]
        /\ \A j \in Insts : Members(j)' = Members(j)
        /\ \A j \in Insts : Used(j)' => (inst'[j].conn \in Own => inst'[j].srv = Home)
    BY <1>1, <1>2, <1>4, <2>1, NewInstance DEF listenVars
  <2>3. /\ spc' \in [Links -> ServerStates] /\ target' \in [Links -> Insts \cup {0}]
        /\ \A m \in Links : m # l => spc'[m] = spc[m] /\ target'[m] = target[m]
        /\ spc'[l] = "starting" /\ target'[l] = i
    BY <1>4 DEF LinkType, ServerStates
  <2>4. ClientType' /\ LinkType'
    BY <1>1, <2>3 DEF ClientType, LinkType, clientVars
  <2>5. TargetInv'
    <3>1. \A m \in Links : m # l /\ spc[m] \in {"joining", "starting"} => target[m] # i
      BY <2>2 DEF TargetInv, Serves, Used
    <3>2. \A m \in Links : spc'[m] \in {"joining", "starting"} =>
            /\ target'[m] \in Insts /\ inst'[target'[m]].st # "free"
            /\ inst'[target'[m]].srv = at[m] /\ inst'[target'[m]].conn = ConnOf[m]
      BY <2>2, <2>3, <3>1 DEF TargetInv, Serves, Used
    <3>3. \A m \in Links : spc'[m] = "starting" => inst'[target'[m]].st = "starting"
      BY <2>2, <2>3, <3>1 DEF TargetInv
    <3>4. \A k, m \in Links : spc'[k] = "starting" /\ spc'[m] = "starting" /\ target'[k] = target'[m] => k = m
      BY <2>3, <3>1 DEF TargetInv
    <3> QED
      BY <1>1, <3>2, <3>3, <3>4 DEF TargetInv, Serves, Used
  <2>6. MemberInv'
    BY <1>1, <2>2, <2>3, MemberFrame
  <2>7. GreetInv'
    BY <1>1, <1>3, <2>2, <2>3, GreetFrame DEF clientVars
  <2>8. EvidenceInv'
    BY <1>1, <2>2, EvidenceFrame DEF EvidenceInv, clientVars
  <2>9. ClosedMeansEnded'
    <3>1. \A j \in Insts : Used(j) /\ ~Alive(j) => ~Alive(j)'
      BY <2>2 DEF Used, Alive
    <3> QED
      BY <1>1, <2>2, <2>3, <3>1, ClosedFrame
  <2> QED
    BY <2>2, <2>4, <2>5, <2>6, <2>7, <2>8, <2>9
<1>5. ASSUME UNCHANGED <<conns, inst>>,
             \/ e # 0 /\ spc' = [spc EXCEPT ![l] = "joining"] /\ target' = [target EXCEPT ![l] = e]
             \/ spc' = [spc EXCEPT ![l] = "NotListening"] /\ target' = target
      PROVE  ServerInv'
  <2>1. /\ spc' \in [Links -> ServerStates] /\ target' \in [Links -> Insts \cup {0}]
        /\ \A m \in Links : m # l => spc'[m] = spc[m] /\ target'[m] = target[m]
    BY <1>2, <1>5 DEF LinkType, ServerStates
  <2>2. LinkType' /\ TableType'
    BY <1>1, <1>5, <2>1 DEF LinkType, TableType, listenVars
  <2>3. ClientType' /\ ListenInv' /\ GreetInv' /\ Grows /\ MemberInv'
    BY <1>1, <1>5, <2>1, <2>2, IncomingStep
  <2>4. TableInv'
    BY <1>1, <1>5 DEF TableInv, Unreported, Alive, Used
  <2>5. /\ spc'[l] \in {"joining", "NotListening"}
        /\ spc'[l] = "joining" => target'[l] = e /\ e # 0
    BY <1>5 DEF LinkType
  <2>6. TargetInv'
    <3>1. spc'[l] = "joining" => e \in Insts /\ Serves(e, l)
      BY <1>2, <2>5 DEF TableInv, Serves
    <3>2. \A m \in Links : spc'[m] \in {"joining", "starting"} => target'[m] \in Insts
            /\ inst[target'[m]].st # "free" /\ inst[target'[m]].srv = at[m] /\ inst[target'[m]].conn = ConnOf[m]
      BY <2>1, <2>5, <3>1 DEF TargetInv, Serves, Used
    <3>3. \A m \in Links : spc'[m] = "starting" => spc[m] = "starting" /\ target'[m] = target[m]
      BY <2>1, <2>5
    <3> QED
      BY <1>1, <1>5, <3>2, <3>3 DEF TargetInv, Serves, Used
  <2>7. ClosedMeansEnded'
    BY <1>1, <1>5, <2>1, <2>5 DEF ClosedMeansEnded, Alive
  <2>8. EvidenceInv'
    BY <1>1, <2>3, EvidenceFrame DEF EvidenceInv, clientVars
  <2> QED
    BY <2>2, <2>3, <2>4, <2>6, <2>7, <2>8
<1> QED
  BY <1>4, <1>5 DEF Relookup, MayInsert, Entry

Enqueues(i, st, l) == inst' = [inst EXCEPT ![i].st = st, ![i].queue = Append(@, l)]

\* What queueing link l at instance i does to the members.
LEMMA QueueMember ==
  ASSUME TableType, NEW i \in Insts, NEW l \in Links, NEW st \in InstStates, Enqueues(i, st, l)
  PROVE  /\ inst' \in [Insts -> Instance] /\ inst'[i].st = st
         /\ inst'[i].srv = inst[i].srv /\ inst'[i].conn = inst[i].conn
         /\ \A j \in Insts : j # i => inst'[j] = inst[j]
         /\ \A j \in Insts : \A m \in Members(j)' : m \in Members(j) \/ (m = l /\ j = i)
<1> DEFINE q == inst[i].queue
<1>1. q \in Seq(Links) /\ inst[i] \in Instance
  BY DEF TableType, Instance
<1>2. /\ Append(q, l) \in Seq(Links)
      /\ \A k \in 1 .. Len(Append(q, l)) : \/ k \in 1 .. Len(q) /\ Append(q, l)[k] = q[k]
                                           \/ Append(q, l)[k] = l
  <2> HIDE DEF q
  <2> QED
    BY <1>1, AppendFacts
<1>3. /\ inst'[i].st = st /\ inst'[i].srv = inst[i].srv /\ inst'[i].conn = inst[i].conn
      /\ inst'[i].queue = Append(q, l) /\ inst'[i].links = inst[i].links
      /\ \A j \in Insts : j # i => inst'[j] = inst[j]
  BY DEF TableType, Instance, Enqueues
<1>4. inst' \in [Insts -> Instance]
  BY <1>1, <1>2 DEF TableType, Instance, Enqueues
<1>5. \A m \in Members(i)' : m \in Members(i) \/ m = l
  <2> SUFFICES ASSUME NEW m \in Queued(i)' PROVE m \in Queued(i) \/ m = l
    BY <1>3 DEF Members
  <2>2. inst'[i].queue = Append(q, l)
    BY <1>3
  <2>0. Queued(i)' = {Append(q, l)[k] : k \in 1 .. Len(Append(q, l))}
    <3> HIDE DEF q
    <3> QED
      BY <2>2, ZenonT(20) DEF Queued
  <2>1. PICK k \in 1 .. Len(Append(q, l)) : m = Append(q, l)[k]
    BY <2>0
  <2> QED
    BY <1>2, <2>1 DEF Queued
<1>6. \A j \in Insts : j # i => Members(j)' = Members(j)
  BY <1>3 DEF Members, Queued
<1> QED
  BY <1>3, <1>4, <1>5, <1>6
\* Start: the instance of the link is put into the Listener's queue, or goes.
LEMMA StartCore ==
  ASSUME ServerInv, NEW l \in Links, Start(l)
  PROVE  ServerInv'
<1> USE ServerAssumption DEF ServerInv
<1>0. PICK i : i = target[l]
  OBVIOUS
<1> DEFINE s == at[l]
<1>1. /\ spc[l] = "starting"
      /\ UNCHANGED <<clientVars, at, cpc, to_client, to_server, existing, target, listener, listening,
                     conns, closed_conns>>
  BY DEF Start
<1>2. i \in Insts /\ Serves(i, l) /\ inst[i].st = "starting" /\ s \in Servers
  BY <1>0, <1>1 DEF TargetInv, LinkType
<1>3. \A k \in Links : k # l /\ spc[k] = "starting" => target[k] # i
  BY <1>0, <1>1 DEF TargetInv
<1>4. \E st \in {"handed", "panicked"} : spc' = [spc EXCEPT ![l] = st]
  BY DEF Start
<1>5. /\ spc' \in [Links -> ServerStates] /\ \A m \in Links : m # l => spc'[m] = spc[m]
      /\ spc'[l] \in {"handed", "panicked"}
  BY <1>4 DEF LinkType, ServerStates
<1>6. ClientType' /\ LinkType'
  BY <1>1, <1>5 DEF ClientType, LinkType, clientVars
<1>7. \E st \in {"queued", "orphan", "gone"} :
        /\ st # "gone" =>
             /\ inst' = [inst EXCEPT ![i].st = st, ![i].queue = Append(@, l)]
             /\ spc' = [spc EXCEPT ![l] = "handed"]
        /\ st = "gone" => inst' = [inst EXCEPT ![i].st = "gone", ![i].queue = <<>>]
        /\ listen_rx' = IF st = "queued" THEN [listen_rx EXCEPT ![s] = Append(@, i)] ELSE listen_rx
  BY <1>0 DEF Start
<1>8. PICK st \in {"queued", "orphan", "gone"} :
        /\ st # "gone" =>
             /\ inst' = [inst EXCEPT ![i].st = st, ![i].queue = Append(@, l)]
             /\ spc' = [spc EXCEPT ![l] = "handed"]
        /\ st = "gone" => inst' = [inst EXCEPT ![i].st = "gone", ![i].queue = <<>>]
        /\ listen_rx' = IF st = "queued" THEN [listen_rx EXCEPT ![s] = Append(@, i)] ELSE listen_rx
  BY <1>7
<1>9. /\ inst' \in [Insts -> Instance] /\ inst'[i].st = st
      /\ inst'[i].srv = inst[i].srv /\ inst'[i].conn = inst[i].conn
      /\ \A j \in Insts : j # i => inst'[j] = inst[j]
      /\ \A j \in Insts : \A m \in Members(j)' : m \in Members(j) \/ (m = l /\ j = i /\ spc'[l] = "handed")
  <2>1. CASE st # "gone"
    <3>1. st \in InstStates /\ Enqueues(i, st, l)
      BY <1>8, <2>1 DEF InstStates, Enqueues
    <3>2. spc'[l] = "handed"
      BY <1>8, <2>1 DEF LinkType
    <3> QED
      BY <1>2, <3>1, <3>2, QueueMember
  <2>2. CASE st = "gone"
    <3>1. inst' = [inst EXCEPT ![i].st = "gone", ![i].queue = <<>>]
      BY <1>8, <2>2
    <3>2. /\ inst'[i].st = st /\ inst'[i].srv = inst[i].srv /\ inst'[i].conn = inst[i].conn
          /\ inst'[i].queue = <<>> /\ inst'[i].links = inst[i].links
          /\ \A j \in Insts : j # i => inst'[j] = inst[j]
      BY <1>2, <2>2, <3>1 DEF TableType, Instance
    <3>3. inst' \in [Insts -> Instance]
      <4>1. [inst[i] EXCEPT !.st = "gone", !.queue = <<>>] \in Instance
        <5>1. inst[i] \in Instance /\ "gone" \in InstStates /\ <<>> \in Seq(Links)
          BY <1>2 DEF TableType, InstStates
        <5> QED
          BY <5>1 DEF Instance
      <4>2. inst' = [inst EXCEPT ![i] = [inst[i] EXCEPT !.st = "gone", !.queue = <<>>]]
        BY <1>2, <3>1 DEF TableType
      <4> QED
        BY <1>2, <4>1, <4>2 DEF TableType
    <3>4. Members(i)' \subseteq Members(i)
      <4>1. Queued(i)' = {}
        BY <3>2 DEF Queued
      <4> QED
        BY <3>2, <4>1 DEF Members
    <3>5. \A j \in Insts : j # i => Members(j)' = Members(j)
      BY <3>2 DEF Members, Queued
    <3> QED
      BY <3>2, <3>3, <3>4, <3>5
  <2> QED
    BY <2>1, <2>2
<1>10. listen_rx' \in [Servers -> Seq(Insts)]
  BY <1>2, <1>8 DEF TableType
<1>11. TableType'
  BY <1>1, <1>9, <1>10 DEF TableType
<1>12. Grows
  BY <1>2, <1>9 DEF Grows, Used
<1>13. TableInv'
  <2>1. \A j \in Insts : /\ Unreported(j)' => Unreported(j)
                         /\ Used(j) => Used(j)'
                         /\ inst'[j].srv = inst[j].srv /\ inst'[j].conn = inst[j].conn
    BY <1>2, <1>9 DEF Unreported, Alive, Used
  <2> QED
    BY <1>1, <2>1, TableFrame
<1>14. TargetInv'
  <2>1. \A m \in Links : spc'[m] = "starting" => inst'[target[m]].st = "starting"
    BY <1>3, <1>5, <1>9 DEF TargetInv
  <2> QED
    BY <1>1, <1>5, <1>12, <2>1, TargetFrame
<1>15. ListenInv'
  <2>1. \A r \in Servers : \A k \in 1 .. Len(listen_rx[r]) : listen_rx[r][k] \in Insts \ {i}
    BY <1>2 DEF ListenInv, TableType
  <2>2. CASE st # "queued"
    <3>1. listen_rx' = listen_rx
      BY <1>8, <2>2
    <3> QED
      BY <1>2, <1>9, <3>1, ListenFrame
  <2>3. CASE st = "queued"
    <3> DEFINE q == listen_rx[s]
    <3>1. listen_rx'[s] = Append(q, i) /\ \A r \in Servers : r # s => listen_rx'[r] = listen_rx[r]
      BY <1>2, <1>8, <2>3 DEF TableType
    <3>2. q \in Seq(Insts)
      BY <1>2 DEF TableType
    <3>3. /\ Len(q) \in Nat
          /\ \A k \in 1 .. Len(Append(q, i)) : \/ k \in 1 .. Len(q) /\ Append(q, i)[k] = q[k]
                                               \/ k = Len(q) + 1 /\ Append(q, i)[k] = i
      <4> HIDE DEF q
      <4> QED
        BY <1>2, <3>2, AppendFacts
    <3>4. inst'[i].st = "queued" /\ inst'[i].srv = s
      BY <1>2, <1>9, <2>3 DEF Serves
    <3>5. \A r \in Servers : \A k \in 1 .. Len(listen_rx[r]) :
            inst'[listen_rx[r][k]].st = "queued" /\ inst'[listen_rx[r][k]].srv = r
      <4> SUFFICES ASSUME NEW r \in Servers, NEW k \in 1 .. Len(listen_rx[r])
                   PROVE  inst'[listen_rx[r][k]].st = "queued" /\ inst'[listen_rx[r][k]].srv = r
        OBVIOUS
      <4>1. inst'[listen_rx[r][k]] = inst[listen_rx[r][k]]
        BY <1>9, <2>1
      <4> QED
        BY <4>1 DEF ListenInv
    <3>6. \A k \in 1 .. Len(Append(q, i)) :
            inst'[Append(q, i)[k]].st = "queued" /\ inst'[Append(q, i)[k]].srv = s
      BY <1>2, <3>3, <3>4, <3>5
    <3>7. \A j, k \in 1 .. Len(Append(q, i)) : Append(q, i)[j] = Append(q, i)[k] => j = k
      BY <1>2, <2>1, <3>3 DEF ListenInv
    <3> HIDE DEF q
    <3>8. \A r \in Servers : \A k \in 1 .. Len(listen_rx'[r]) :
            inst'[listen_rx'[r][k]].st = "queued" /\ inst'[listen_rx'[r][k]].srv = r
      <4> SUFFICES ASSUME NEW r \in Servers, NEW k \in 1 .. Len(listen_rx'[r])
                   PROVE  inst'[listen_rx'[r][k]].st = "queued" /\ inst'[listen_rx'[r][k]].srv = r
        OBVIOUS
      <4>1. CASE r = s
        BY <3>1, <3>6, <4>1
      <4>2. CASE r # s
        <5>1. listen_rx'[r] = listen_rx[r]
          BY <3>1, <4>2
        <5> QED
          BY <3>5, <5>1
      <4> QED
        BY <4>1, <4>2
    <3>9. \A r \in Servers : \A j, k \in 1 .. Len(listen_rx'[r]) :
            listen_rx'[r][j] = listen_rx'[r][k] => j = k
      BY <3>1, <3>7 DEF ListenInv
    <3> QED
      BY <3>8, <3>9 DEF ListenInv
  <2> QED
    BY <2>2, <2>3
<1>16. MemberInv'
  <2>1. Serves(i, l)'
    BY <1>1, <1>2, <1>12 DEF Serves, Grows, Used
  <2> QED
    BY <1>1, <1>5, <1>9, <1>11, <1>12, <2>1, MemberFrame
<1>17. GreetInv'
  <2>1. cpc[l] # "new"
    BY <1>1 DEF GreetInv
  <2>2. \A j \in Insts : Used(j)' => (inst'[j].conn \in Own => inst'[j].srv = Home)
    BY <1>2, <1>9 DEF GreetInv, Used
  <2> QED
    BY <1>1, <1>5, <2>1, <2>2, GreetFrame DEF clientVars
<1>18. EvidenceInv'
  BY <1>1, <1>12, EvidenceFrame DEF EvidenceInv, clientVars
<1>19. ClosedMeansEnded'
  <2>1. \A j \in Insts : Used(j) /\ ~Alive(j) => ~Alive(j)'
    BY <1>2, <1>9 DEF Used, Alive
  <2> QED
    BY <1>1, <1>5, <1>12, <2>1, ClosedFrame
<1> QED
  BY <1>6, <1>11, <1>13, <1>14, <1>15, <1>16, <1>17, <1>18, <1>19

\* Join: a link is refused as closed only by an instance that has ended.
LEMMA JoinCore ==
  ASSUME ServerInv, NEW l \in Links, Join(l)
  PROVE  ServerInv'
<1> USE ServerAssumption DEF ServerInv
<1>0. PICK i : i = target[l]
  OBVIOUS
<1>1. /\ spc[l] = "joining"
      /\ UNCHANGED <<clientVars, at, cpc, to_client, to_server, existing, target, listenVars, conns, closed_conns>>
  BY DEF Join
<1>2. i \in Insts /\ Serves(i, l)
  BY <1>0, <1>1 DEF TargetInv
<1>3. cpc[l] # "new"
  BY <1>1 DEF GreetInv
<1>4. CASE ~Open(i) /\ spc' = [spc EXCEPT ![l] = "Closed"] /\ inst' = inst
  <2>1. /\ spc' \in [Links -> ServerStates] /\ spc'[l] = "Closed"
        /\ \A m \in Links : m # l => spc'[m] = spc[m]
    BY <1>4 DEF LinkType, ServerStates
  <2>2. LinkType' /\ TableType'
    BY <1>1, <1>4, <2>1 DEF LinkType, TableType, listenVars
  <2>3. ClientType' /\ ListenInv' /\ GreetInv' /\ Grows /\ MemberInv'
    BY <1>1, <1>4, <2>1, <2>2, IncomingStep
  <2>4. TableInv'
    BY <1>1, <1>4 DEF TableInv, Unreported, Alive, Used
  <2>5. TargetInv'
    BY <1>1, <1>4, <2>1, <2>3, TargetFrame DEF TargetInv
  <2>6. ClosedMeansEnded'
    <3>1. Serves(i, l) /\ ~Alive(i)
      BY <1>2, <1>4 DEF Open
    <3> QED
      BY <1>1, <1>2, <1>4, <2>1, <3>1 DEF ClosedMeansEnded, Serves, Used, Alive
  <2>7. EvidenceInv'
    BY <1>1, <2>3, EvidenceFrame DEF EvidenceInv, clientVars
  <2> QED
    BY <2>2, <2>3, <2>4, <2>5, <2>6, <2>7
<1>5. CASE inst' = [inst EXCEPT ![i].queue = Append(@, l)] /\ spc' = [spc EXCEPT ![l] = "handed"]
  <2>0. PICK st : st = inst[i].st
    OBVIOUS
  <2>1. /\ spc' \in [Links -> ServerStates] /\ spc'[l] = "handed"
        /\ \A m \in Links : m # l => spc'[m] = spc[m]
    BY <1>5 DEF LinkType, ServerStates
  <2>2. st \in InstStates /\ Enqueues(i, st, l)
    BY <1>2, <1>5, <2>0 DEF TableType, Instance, Enqueues
  <2>3. /\ inst' \in [Insts -> Instance] /\ inst'[i].st = st
        /\ inst'[i].srv = inst[i].srv /\ inst'[i].conn = inst[i].conn
        /\ \A j \in Insts : j # i => inst'[j] = inst[j]
        /\ \A j \in Insts : \A m \in Members(j)' : m \in Members(j) \/ (m = l /\ j = i)
    BY <1>2, <2>2, QueueMember
  <2>4. \A j \in Insts : inst'[j].st = inst[j].st /\ inst'[j].srv = inst[j].srv /\ inst'[j].conn = inst[j].conn
    BY <2>0, <2>3
  <2>5. ClientType' /\ LinkType' /\ TableType'
    BY <1>1, <2>1, <2>3 DEF ClientType, LinkType, TableType, clientVars, listenVars
  <2>6. Grows
    BY <2>4 DEF Grows, Used
  <2>7. TableInv'
    <3>1. \A j \in Insts : /\ Unreported(j)' => Unreported(j)
                           /\ Used(j) => Used(j)'
                           /\ inst'[j].srv = inst[j].srv /\ inst'[j].conn = inst[j].conn
      BY <2>4 DEF Unreported, Alive, Used
    <3> QED
      BY <1>1, <3>1, TableFrame
  <2>8. TargetInv'
    <3>1. \A m \in Links : spc'[m] = "starting" => inst'[target[m]].st = "starting"
      BY <2>1, <2>4 DEF TargetInv
    <3> QED
      BY <1>1, <2>1, <2>6, <3>1, TargetFrame
  <2>9. ListenInv'
    BY <1>1, <2>4, ListenFrame DEF listenVars
  <2>10. MemberInv'
    <3>1. Serves(i, l)'
      BY <1>1, <1>2, <2>6 DEF Serves, Grows, Used
    <3> QED
      BY <1>1, <2>1, <2>3, <2>5, <2>6, <3>1, MemberFrame
  <2>11. GreetInv'
    <3>2. \A j \in Insts : Used(j)' => (inst'[j].conn \in Own => inst'[j].srv = Home)
      BY <2>4 DEF GreetInv, Used
    <3> QED
      BY <1>1, <1>3, <2>1, <3>2, GreetFrame DEF clientVars
  <2>12. EvidenceInv'
    BY <1>1, <2>6, EvidenceFrame DEF EvidenceInv, clientVars
  <2>13. ClosedMeansEnded'
    <3>1. \A j \in Insts : Used(j) /\ ~Alive(j) => ~Alive(j)'
      BY <2>4 DEF Used, Alive
    <3> QED
      BY <1>1, <2>1, <2>6, <3>1, ClosedFrame
  <2> QED
    BY <2>5, <2>7, <2>8, <2>9, <2>10, <2>11, <2>12, <2>13
<1> QED
  BY <1>0, <1>4, <1>5 DEF Join, CannotJoin
-----------------------------------------------------------------------------
(***************************************************************************)
(* Listener, Incoming and tasks.                                           *)
(***************************************************************************)

\* An instance only ages: it keeps its server and id, no connection comes back
\* to life, and members only leave.
Ages ==
  \A i \in Insts : /\ inst'[i].srv = inst[i].srv /\ inst'[i].conn = inst[i].conn
                   /\ inst'[i].st = "free" <=> inst[i].st = "free"
                   /\ inst[i].st = "starting" => inst'[i].st = "starting"
                   /\ Used(i) /\ ~Alive(i) => ~Alive(i)'
                   /\ Members(i)' \subseteq Members(i)

\* A step of the instances leaves the parts about links alone.
LEMMA InstanceStep ==
  ASSUME ServerInv, UNCHANGED <<remote_server_id, connected, at, cpc, spc, to_server, existing, target, conns>>,
         TableType', TableInv', ListenInv', to_client' \in [Links -> Seq(Messages)],
         \A m \in Links : \A k \in 1 .. Len(to_client'[m]) : to_client'[m][k] = "Accepted" => Known(m),
         \A m \in Links : spc[m] # "handed" => to_client'[m] = to_client[m],
         Ages
  PROVE  ServerInv'
<1> USE DEF ServerInv, Ages
<1>1. ClientType' /\ LinkType'
  BY DEF ClientType, LinkType
<1>2. Grows
  BY DEF Grows, Used
<1>3. TargetInv'
  <2>1. \A m \in Links : spc'[m] = "starting" => inst'[target[m]].st = "starting"
    BY DEF TargetInv
  <2> QED
    BY <1>2, <2>1, TargetFrame
<1>4. MemberInv'
  BY <1>2, MemberFrame
<1>5. GreetInv'
  <2>1. \A i \in Insts : Used(i)' => (inst'[i].conn \in Own => inst'[i].srv = Home)
    BY DEF GreetInv, Used
  <2>2. \A m \in Links : cpc[m] = "new" => spc[m] # "handed"
    BY DEF GreetInv
  <2> QED
    BY <2>1, <2>2, GreetFrame
<1>6. EvidenceInv'
  BY <1>2, EvidenceFrame DEF EvidenceInv
<1>7. ClosedMeansEnded'
  BY <1>2, ClosedFrame
<1> QED
  BY <1>1, <1>3, <1>4, <1>5, <1>6, <1>7

\* The same for steps that send nothing.
LEMMA QuietStep ==
  ASSUME ServerInv, UNCHANGED <<clientVars, linkVars, conns>>, TableType', TableInv', ListenInv',
         Ages
  PROVE  ServerInv'
<1>1. to_client' \in [Links -> Seq(Messages)] /\ to_client' = to_client
  BY DEF ServerInv, LinkType, linkVars
<1>2. \A m \in Links : \A k \in 1 .. Len(to_client'[m]) : to_client'[m][k] = "Accepted" => Known(m)
  BY <1>1 DEF ServerInv, EvidenceInv
<1> QED
  BY <1>1, <1>2, InstanceStep DEF clientVars, linkVars

\* ServerConnect: the id is new to the server.
LEMMA ServerConnectCore ==
  ASSUME ServerInv, NEW c \in Conns, ServerConnect(c)
  PROVE  ServerInv'
<1> USE ServerAssumption DEF ServerInv
<1>1. /\ c \in Own /\ \A j \in Insts : ~Used(j) \/ inst[j].conn # c
      /\ UNCHANGED <<remote_server_id, connected, linkVars, listenVars, closed_conns>>
  BY DEF ServerConnect, Used
<1>2. PICK i \in Insts : /\ Fresh(i)
                         /\ inst' = [inst EXCEPT ![i].st = "running", ![i].srv = Home, ![i].conn = c]
                         /\ conns' = [conns EXCEPT ![Home][c] = i]
  BY DEF ServerConnect
<1>3. conns[Home][c] = 0
  <2> SUFFICES ASSUME conns[Home][c] # 0 PROVE FALSE
    OBVIOUS
  <2>1. conns[Home][c] \in Insts
    BY DEF TableType
  <2>2. Used(conns[Home][c]) /\ inst[conns[Home][c]].conn = c
    BY DEF TableInv
  <2> QED
    BY <1>1, <2>1, <2>2
<1>4. /\ TableType' /\ TableInv' /\ ListenInv' /\ Grows
      /\ inst'[i].st = "running" /\ inst[i].st = "free"
      /\ \A j \in Insts : j # i => inst'[j] = inst[j]
      /\ \A j \in Insts : Members(j)' = Members(j)
      /\ \A j \in Insts : Used(j)' => (inst'[j].conn \in Own => inst'[j].srv = Home)
  BY <1>1, <1>2, <1>3, NewInstance DEF listenVars
<1>5. ClientType' /\ LinkType'
  BY <1>1 DEF ClientType, LinkType, linkVars
<1>6. TargetInv'
  <2>1. \A m \in Links : spc'[m] = "starting" => inst'[target[m]].st = "starting"
    BY <1>1, <1>4 DEF TargetInv, linkVars
  <2> QED
    BY <1>1, <1>4, <2>1, TargetFrame DEF linkVars
<1>7. MemberInv'
  BY <1>1, <1>4, MemberFrame DEF linkVars
<1>8. GreetInv'
  BY <1>1, <1>4, GreetFrame DEF linkVars
<1>9. EvidenceInv'
  BY <1>1, <1>4, EvidenceFrame DEF EvidenceInv, linkVars
<1>10. ClosedMeansEnded'
  <2>1. \A j \in Insts : Used(j) /\ ~Alive(j) => ~Alive(j)'
    BY <1>4 DEF Used, Alive
  <2> QED
    BY <1>1, <1>4, <2>1, ClosedFrame DEF linkVars
<1> QED
  BY <1>4, <1>5, <1>6, <1>7, <1>8, <1>9, <1>10

Sets(i, st, q, L) == inst' = [inst EXCEPT ![i].st = st, ![i].queue = q, ![i].links = L]

\* What a change of one instance leaves as it is.
LEMMA SetsFacts ==
  ASSUME TableType, NEW i \in Insts, NEW st \in InstStates, NEW q \in Seq(Links), NEW L \in SUBSET Links,
         Sets(i, st, q, L), L \cup {q[k] : k \in 1 .. Len(q)} \subseteq Members(i)
  PROVE  /\ inst' \in [Insts -> Instance] /\ inst'[i].st = st
         /\ \A j \in Insts : inst'[j].srv = inst[j].srv /\ inst'[j].conn = inst[j].conn
         /\ \A j \in Insts : j # i => inst'[j] = inst[j]
         /\ \A j \in Insts : Members(j)' \subseteq Members(j)
<1>1. inst[i] \in Instance
  BY DEF TableType
<1>2. [inst[i] EXCEPT !.st = st, !.queue = q, !.links = L] \in Instance
  BY <1>1 DEF Instance
<1>3. inst' = [inst EXCEPT ![i] = [inst[i] EXCEPT !.st = st, !.queue = q, !.links = L]]
  BY DEF TableType, Sets
<1>4. inst' \in [Insts -> Instance]
  BY <1>2, <1>3 DEF TableType
<1>5. /\ inst'[i].st = st /\ inst'[i].queue = q /\ inst'[i].links = L
      /\ inst'[i].srv = inst[i].srv /\ inst'[i].conn = inst[i].conn
      /\ \A j \in Insts : j # i => inst'[j] = inst[j]
  BY <1>1, <1>3 DEF TableType, Instance
<1>6. Members(i)' \subseteq Members(i)
  <2>1. Queued(i)' = {q[k] : k \in 1 .. Len(q)}
    BY <1>5, ZenonT(20) DEF Queued
  <2> QED
    BY <1>5, <2>1 DEF Members
<1>7. \A j \in Insts : j # i => Members(j)' = Members(j)
  BY <1>5 DEF Members, Queued
<1> QED
  BY <1>4, <1>5, <1>6, <1>7

\* A change of one instance that does not touch the table or the Listeners.
LEMMA SetsStep ==
  ASSUME ServerInv, NEW i \in Insts, NEW st \in InstStates, NEW q \in Seq(Links), NEW L \in SUBSET Links,
         Sets(i, st, q, L), L \cup {q[k] : k \in 1 .. Len(q)} \subseteq Members(i),
         UNCHANGED <<listen_rx, conns>>,
         inst[i].st \notin {"free", "starting", "queued"}, st \notin {"free", "starting", "queued"},
         \/ UNCHANGED closed_conns /\ (st \in {"orphan", "held", "running"} => Alive(i))
                                   /\ (st = "closing" => Unreported(i))
         \/ Unreported(i) /\ st \in {"dropping", "gone"} /\ Report(i)
  PROVE  /\ TableType' /\ TableInv' /\ ListenInv'
         /\ Ages
<1> USE DEF ServerInv
<1>1. /\ inst' \in [Insts -> Instance] /\ inst'[i].st = st
      /\ \A j \in Insts : inst'[j].srv = inst[j].srv /\ inst'[j].conn = inst[j].conn
      /\ \A j \in Insts : j # i => inst'[j] = inst[j]
      /\ \A j \in Insts : Members(j)' \subseteq Members(j)
  BY SetsFacts
<1>2. inst[i].srv \in Servers /\ inst[i].conn \in Conns
  BY DEF TableType, Instance
<1>3. closed_conns' \in [Servers -> SUBSET Conns]
  <2>1. closed_conns \in [Servers -> SUBSET Conns]
    BY DEF TableType
  <2>2. CASE Report(i)
    <3>1. closed_conns[inst[i].srv] \cup {inst[i].conn} \in SUBSET Conns
      BY <1>2, <2>1
    <3> QED
      BY <1>2, <2>1, <2>2, <3>1 DEF Report
  <2> QED
    BY <2>1, <2>2
<1>4. TableType'
  BY <1>1, <1>3 DEF TableType
<1>5. ListenInv'
  <2>1. \A j \in Insts : inst[j].st = "queued" => inst'[j].st = "queued" /\ inst'[j].srv = inst[j].srv
    BY <1>1
  <2> QED
    BY <2>1, ListenFrame
<1>6. \A j \in Insts : /\ inst'[j].st = "free" <=> inst[j].st = "free"
                       /\ inst[j].st = "starting" => inst'[j].st = "starting"
  BY <1>1
<1>7. CASE closed_conns' = closed_conns /\ (st \in {"orphan", "held", "running"} => Alive(i))
                                        /\ (st = "closing" => Unreported(i))
  <2>1. \A j \in Insts : (Unreported(j)' => Unreported(j)) /\ (Used(j) => Used(j)')
    BY <1>1, <1>7 DEF Unreported, Alive, Used
  <2>2. TableInv'
    BY <1>1, <1>7, <2>1, TableFrame
  <2>3. \A j \in Insts : Used(j) /\ ~Alive(j) => ~Alive(j)'
    BY <1>1, <1>7 DEF Alive, Used
  <2>4. Ages
    BY <1>1, <1>6, <2>3 DEF Ages
  <2> QED
    BY <1>4, <1>5, <2>2, <2>4
<1>8. CASE Unreported(i) /\ st \in {"dropping", "gone"} /\ Report(i)
  <2> DEFINE s == inst[i].srv
  <2> DEFINE c == inst[i].conn
  <2>1. /\ \A r \in Servers : closed_conns'[r] \subseteq Conns
        /\ \A r \in Servers : r # s => closed_conns'[r] = closed_conns[r]
        /\ closed_conns'[s] = closed_conns[s] \cup {c}
    BY <1>2, <1>3, <1>8 DEF Report, TableType
  <2>2. conns[s][c] = i /\ i # 0
    BY <1>8 DEF TableInv, Insts
  <2>3. \A j \in Insts : Unreported(j)' => j # i /\ Unreported(j)
    BY <1>1, <1>8 DEF Unreported, Alive
  <2>4. ASSUME NEW j \in Insts, Unreported(j)'
        PROVE  /\ conns[inst[j].srv][inst[j].conn] = j
               /\ inst[j].conn \notin closed_conns'[inst[j].srv]
    <3>1. j # i /\ conns[inst[j].srv][inst[j].conn] = j /\ inst[j].conn \notin closed_conns[inst[j].srv]
      BY <2>3, <2>4 DEF TableInv
    <3>2. inst[j].srv \in Servers
      BY DEF TableType, Instance
    <3>3. inst[j].srv # s \/ inst[j].conn # c
      BY <2>2, <3>1
    <3> QED
      BY <2>1, <3>1, <3>2, <3>3
  <2>5. \A r \in Servers : \A d \in closed_conns'[r] : conns[r][d] # 0
    BY <2>1, <2>2 DEF TableInv
  <2>6. \A r \in Servers, d \in Conns : conns[r][d] # 0 =>
          /\ inst'[conns[r][d]].st # "free" /\ inst'[conns[r][d]].srv = r /\ inst'[conns[r][d]].conn = d
    <3> SUFFICES ASSUME NEW r \in Servers, NEW d \in Conns, conns[r][d] # 0
                 PROVE  /\ inst'[conns[r][d]].st # "free" /\ inst'[conns[r][d]].srv = r
                        /\ inst'[conns[r][d]].conn = d
      OBVIOUS
    <3>1. conns[r][d] \in Insts
      BY DEF TableType
    <3> QED
      BY <1>1, <1>6, <3>1 DEF TableInv, Used
  <2>7. TableInv'
    BY <1>1, <2>4, <2>5, <2>6 DEF TableInv, Used
  <2>8. \A j \in Insts : Used(j) /\ ~Alive(j) => ~Alive(j)'
    BY <1>1, <1>8 DEF Alive, Used
  <2>9. Ages
    BY <1>1, <1>6, <2>8 DEF Ages
  <2> QED
    BY <1>4, <1>5, <2>7, <2>9
<1> QED
  BY <1>7, <1>8

\* Dropped Incomings: their ids are reported, and the entries are still there.
LEMMA DropFacts ==
  ASSUME ServerInv, NEW S \in SUBSET Insts, DropIncomings(S), conns' = conns,
         listen_rx' \in [Servers -> Seq(Insts)],
         \A i \in S : inst[i].st \in {"queued", "orphan", "held"}
  PROVE  /\ TableType' /\ TableInv'
         /\ \A j \in Insts \ S : inst'[j] = inst[j]
         /\ Ages
<1> USE DEF ServerInv
<1>1. \A j \in Insts : inst[j] \in Instance
  BY DEF TableType
<1>2. /\ \A j \in S : inst'[j] = [inst[j] EXCEPT !.st = "dropping"]
      /\ \A j \in Insts \ S : inst'[j] = inst[j]
      /\ inst' = [j \in Insts |-> IF j \in S THEN [inst[j] EXCEPT !.st = "dropping"] ELSE inst[j]]
  BY DEF DropIncomings
<1>3. \A j \in S : /\ inst'[j] \in Instance /\ inst'[j].st = "dropping"
                  /\ inst'[j].srv = inst[j].srv /\ inst'[j].conn = inst[j].conn
                  /\ inst'[j].queue = inst[j].queue /\ inst'[j].links = inst[j].links
  <2> TAKE j \in S
  <2>1. inst[j] \in Instance /\ "dropping" \in InstStates /\ inst'[j] = [inst[j] EXCEPT !.st = "dropping"]
    BY <1>1, <1>2 DEF InstStates
  <2> QED
    BY <2>1 DEF Instance
<1>4. inst' \in [Insts -> Instance]
  <2>1. \A j \in Insts : inst'[j] \in Instance
    BY <1>1, <1>2, <1>3
  <2>2. \A j \in Insts : (IF j \in S THEN [inst[j] EXCEPT !.st = "dropping"] ELSE inst[j]) \in Instance
    BY <1>2, <2>1
  <2> QED
    BY <1>2, <2>2
<1>5. \A s \in Servers : closed_conns'[s] = closed_conns[s] \cup {inst[i].conn : i \in {j \in S : inst[j].srv = s}}
  BY DEF DropIncomings
<1>6. closed_conns' \in [Servers -> SUBSET Conns]
  <2>1. \A s \in Servers : closed_conns[s] \cup {inst[i].conn : i \in {j \in S : inst[j].srv = s}} \in SUBSET Conns
    BY <1>1 DEF TableType, Instance
  <2> QED
    BY <2>1 DEF DropIncomings
<1>7. TableType'
  BY <1>4, <1>6 DEF TableType
<1>8. \A j \in Insts : /\ inst'[j].srv = inst[j].srv /\ inst'[j].conn = inst[j].conn
                       /\ inst'[j].st = "free" <=> inst[j].st = "free"
                       /\ inst[j].st = "starting" => inst'[j].st = "starting"
  BY <1>2, <1>3
<1>9. \A j \in Insts : Members(j)' \subseteq Members(j)
  <2> SUFFICES ASSUME NEW j \in Insts PROVE Members(j)' = Members(j)
    OBVIOUS
  <2>1. inst'[j].queue = inst[j].queue /\ inst'[j].links = inst[j].links
    BY <1>2, <1>3
  <2>2. Queued(j)' = Queued(j)
    BY <2>1, ZenonT(20) DEF Queued
  <2> QED
    BY <2>1, <2>2 DEF Members
<1>10. \A j \in Insts : Unreported(j)' => j \notin S /\ Unreported(j)
  BY <1>2, <1>3 DEF Unreported, Alive
<1>11. \A j \in S : /\ conns[inst[j].srv][inst[j].conn] = j
                   /\ inst[j].srv \in Servers /\ inst[j].conn \in Conns /\ j # 0
  BY <1>1 DEF TableInv, Unreported, Alive, Insts, Instance
<1>12. ASSUME NEW j \in Insts, Unreported(j)'
       PROVE  /\ conns[inst[j].srv][inst[j].conn] = j
              /\ inst[j].conn \notin closed_conns'[inst[j].srv]
  <2>1. j \notin S /\ conns[inst[j].srv][inst[j].conn] = j /\ inst[j].conn \notin closed_conns[inst[j].srv]
    BY <1>10, <1>12 DEF TableInv
  <2>2. inst[j].srv \in Servers
    BY <1>1 DEF Instance
  <2>3. inst[j].conn \notin {inst[i].conn : i \in {k \in S : inst[k].srv = inst[j].srv}}
    <3> SUFFICES ASSUME NEW i \in S, inst[i].srv = inst[j].srv, inst[i].conn = inst[j].conn
                 PROVE  FALSE
      OBVIOUS
    <3> QED
      BY <1>11, <2>1
  <2>4. closed_conns'[inst[j].srv] =
          closed_conns[inst[j].srv] \cup {inst[i].conn : i \in {k \in S : inst[k].srv = inst[j].srv}}
    BY <1>5, <2>2
  <2> QED
    BY <2>1, <2>3, <2>4
<1>13. \A s \in Servers : \A c \in closed_conns'[s] : conns[s][c] # 0
  <2> SUFFICES ASSUME NEW s \in Servers, NEW c \in closed_conns'[s]
               PROVE  conns[s][c] # 0
    OBVIOUS
  <2>1. CASE c \in closed_conns[s]
    BY <2>1 DEF TableInv
  <2>2. CASE c \in {inst[i].conn : i \in {j \in S : inst[j].srv = s}}
    <3>1. PICK i \in S : inst[i].srv = s /\ inst[i].conn = c
      BY <2>2
    <3> QED
      BY <1>11, <3>1
  <2> QED
    BY <1>5, <2>1, <2>2
<1>14. \A r \in Servers, d \in Conns : conns[r][d] # 0 =>
         /\ inst'[conns[r][d]].st # "free" /\ inst'[conns[r][d]].srv = r /\ inst'[conns[r][d]].conn = d
  <2> SUFFICES ASSUME NEW r \in Servers, NEW d \in Conns, conns[r][d] # 0
               PROVE  /\ inst'[conns[r][d]].st # "free" /\ inst'[conns[r][d]].srv = r
                      /\ inst'[conns[r][d]].conn = d
    OBVIOUS
  <2>1. conns[r][d] \in Insts
    BY DEF TableType
  <2>2. inst[conns[r][d]].st # "free" /\ inst[conns[r][d]].srv = r /\ inst[conns[r][d]].conn = d
    BY DEF TableInv, Used
  <2> QED
    BY <1>8, <2>1, <2>2
<1>15. TableInv'
  BY <1>8, <1>12, <1>13, <1>14 DEF TableInv, Used
<1>16. \A j \in Insts : Used(j) /\ ~Alive(j) => ~Alive(j)'
  BY <1>2, <1>3 DEF Used, Alive
<1>17. Ages
  BY <1>8, <1>9, <1>16 DEF Ages
<1> QED
  BY <1>2, <1>7, <1>15, <1>17

\* Listen, DropListener and DropIncoming.
LEMMA DropCore ==
  ASSUME ServerInv, (\E s \in Servers : Listen(s) \/ DropListener(s)) \/ (\E i \in Insts : DropIncoming(i))
  PROVE  ServerInv'
<1> USE DEF ServerInv
<1>1. ASSUME NEW s \in Servers, Listen(s)
      PROVE  ServerInv'
  <2> DEFINE S == {i \in Insts : inst[i].srv = s /\ inst[i].st = "orphan"}
  <2>1. /\ DropIncomings(S) /\ UNCHANGED <<clientVars, linkVars, listen_rx, conns>>
        /\ S \in SUBSET Insts /\ \A i \in S : inst[i].st = "orphan"
    BY <1>1 DEF Listen
  <2>2. listen_rx' \in [Servers -> Seq(Insts)] /\ listen_rx' = listen_rx
    BY <2>1 DEF TableType
  <2> HIDE DEF S
  <2>3. /\ TableType' /\ TableInv'
        /\ \A j \in Insts \ S : inst'[j] = inst[j]
        /\ Ages
    BY <2>1, <2>2, DropFacts
  <2>4. ListenInv'
    BY <2>1, <2>2, <2>3, ListenFrame
  <2> QED
    BY <2>1, <2>3, <2>4, QuietStep
<1>2. ASSUME NEW s \in Servers, DropListener(s)
      PROVE  ServerInv'
  <2> DEFINE S == {i \in Insts : inst[i].srv = s /\ inst[i].st = "queued"}
  <2>1. /\ DropIncomings(S) /\ UNCHANGED <<clientVars, linkVars, conns>>
        /\ listen_rx' = [listen_rx EXCEPT ![s] = <<>>]
        /\ S \in SUBSET Insts /\ \A i \in S : inst[i].st = "queued" /\ inst[i].srv = s
    BY <1>2 DEF DropListener
  <2>2. /\ listen_rx' \in [Servers -> Seq(Insts)] /\ listen_rx'[s] = <<>>
        /\ \A r \in Servers : r # s => listen_rx'[r] = listen_rx[r]
    BY <2>1 DEF TableType
  <2> HIDE DEF S
  <2>3. /\ TableType' /\ TableInv'
        /\ \A j \in Insts \ S : inst'[j] = inst[j]
        /\ Ages
    BY <2>1, <2>2, DropFacts
  <2>4. ListenInv'
    <3>1. \A r \in Servers : r # s => \A k \in 1 .. Len(listen_rx[r]) :
            inst'[listen_rx[r][k]].st = "queued" /\ inst'[listen_rx[r][k]].srv = r
      <4> SUFFICES ASSUME NEW r \in Servers, r # s, NEW k \in 1 .. Len(listen_rx[r])
                   PROVE  inst'[listen_rx[r][k]].st = "queued" /\ inst'[listen_rx[r][k]].srv = r
        OBVIOUS
      <4>1. listen_rx[r][k] \in Insts
        BY DEF TableType
      <4>2. inst[listen_rx[r][k]].st = "queued" /\ inst[listen_rx[r][k]].srv = r
        BY DEF ListenInv
      <4>3. inst'[listen_rx[r][k]] = inst[listen_rx[r][k]]
        BY <2>1, <2>3, <4>1, <4>2
      <4> QED
        BY <4>2, <4>3
    <3>2. \A r \in Servers : \A k \in 1 .. Len(listen_rx'[r]) :
            inst'[listen_rx'[r][k]].st = "queued" /\ inst'[listen_rx'[r][k]].srv = r
      BY <2>2, <3>1
    <3>3. \A r \in Servers : \A j, k \in 1 .. Len(listen_rx'[r]) :
            listen_rx'[r][j] = listen_rx'[r][k] => j = k
      BY <2>2 DEF ListenInv
    <3> QED
      BY <3>2, <3>3 DEF ListenInv
  <2> QED
    BY <2>1, <2>3, <2>4, QuietStep
<1>3. ASSUME NEW i \in Insts, DropIncoming(i)
      PROVE  ServerInv'
  <2>1. /\ DropIncomings({i}) /\ UNCHANGED <<clientVars, linkVars, listenVars, conns>>
        /\ {i} \in SUBSET Insts /\ \A j \in {i} : inst[j].st = "held"
    BY <1>3 DEF DropIncoming
  <2>2. listen_rx' \in [Servers -> Seq(Insts)] /\ listen_rx' = listen_rx
    BY <2>1 DEF TableType, listenVars
  <2>3. /\ TableType' /\ TableInv'
        /\ \A j \in Insts \ {i} : inst'[j] = inst[j]
        /\ Ages
    BY <2>1, <2>2, DropFacts
  <2>4. ListenInv'
    BY <2>1, <2>2, <2>3, ListenFrame
  <2> QED
    BY <2>1, <2>3, <2>4, QuietStep
<1> QED
  BY <1>1, <1>2, <1>3

\* The links of an instance, and what is known of them.
LEMMA MemberFacts ==
  ASSUME ServerInv, NEW i \in Insts
  PROVE  /\ inst[i].queue \in Seq(Links) /\ inst[i].links \in SUBSET Links
         /\ Members(i) \in SUBSET Links /\ inst[i].links \subseteq Members(i)
         /\ \A k \in 1 .. Len(inst[i].queue) : inst[i].queue[k] \in Members(i)
         /\ \A l \in Members(i) : spc[l] = "handed" /\ Known(l)
<1> USE DEF ServerInv
<1>1. inst[i].queue \in Seq(Links) /\ inst[i].links \in SUBSET Links
  BY DEF TableType, Instance
<1>2. Queued(i) \subseteq Links
  BY <1>1 DEF Queued
<1>3. \A k \in 1 .. Len(inst[i].queue) : inst[i].queue[k] \in Queued(i)
  BY DEF Queued
<1>4. \A l \in Members(i) : spc[l] = "handed" /\ Serves(i, l)
  BY DEF MemberInv, Members
<1>5. \A l \in Members(i) : Known(l)
  BY <1>4 DEF Known
<1> QED
  BY <1>1, <1>2, <1>3, <1>4, <1>5 DEF Members

\* UpdateLinks, DropChannel, TaskEnd and DropConnId.
LEMMA AgeCore ==
  ASSUME ServerInv, NEW i \in Insts, UpdateLinks(i) \/ DropChannel(i) \/ TaskEnd(i) \/ DropConnId(i)
  PROVE  ServerInv'
<1> USE DEF ServerInv
<1>1. UNCHANGED <<clientVars, linkVars, listenVars, conns>> /\ listen_rx' = listen_rx
  BY DEF UpdateLinks, DropChannel, TaskEnd, DropConnId, listenVars
<1>2. /\ inst[i].queue \in Seq(Links) /\ inst[i].links \in SUBSET Links
      /\ Members(i) \in SUBSET Links /\ inst[i].links \subseteq Members(i)
      /\ \A k \in 1 .. Len(inst[i].queue) : inst[i].queue[k] \in Members(i)
  BY MemberFacts
<1>3. inst[i] \in Instance
  BY DEF TableType
<1>4. \E st \in InstStates, q \in Seq(Links), L \in SUBSET Links :
         /\ Sets(i, st, q, L) /\ L \cup {q[k] : k \in 1 .. Len(q)} \subseteq Members(i)
         /\ inst[i].st \notin {"free", "starting", "queued"} /\ st \notin {"free", "starting", "queued"}
         /\ \/ UNCHANGED closed_conns /\ (st \in {"orphan", "held", "running"} => Alive(i))
                                      /\ (st = "closing" => Unreported(i))
            \/ Unreported(i) /\ st \in {"dropping", "gone"} /\ Report(i)
  <2>0. <<>> \in Seq(Links) /\ {<<>>[k] : k \in 1 .. Len(<<>>)} = {} /\ {} \in SUBSET Links
    OBVIOUS
  <2>1. CASE UpdateLinks(i)
    <3>1. /\ inst[i].st = "held" /\ closed_conns' = closed_conns
          /\ inst' = [inst EXCEPT ![i].links = @ \cup Queued(i), ![i].queue = <<>>]
      BY <2>1 DEF UpdateLinks
    <3>2. Sets(i, "held", <<>>, Members(i))
      BY <1>3, <3>1 DEF Sets, TableType, Instance, Members
    <3>3. "held" \in InstStates /\ Alive(i)
      BY <3>1 DEF InstStates, Alive
    <3> QED
      BY <1>2, <2>0, <3>1, <3>2, <3>3
  <2>2. CASE DropChannel(i)
    <3>1. /\ inst[i].st = "dropping" /\ closed_conns' = closed_conns
          /\ inst' = [inst EXCEPT ![i].st = "gone", ![i].links = {}, ![i].queue = <<>>]
      BY <2>2 DEF DropChannel
    <3>2. Sets(i, "gone", <<>>, {})
      BY <1>3, <3>1 DEF Sets, TableType, Instance
    <3>3. "gone" \in InstStates
      BY DEF InstStates
    <3> QED
      BY <1>2, <2>0, <3>1, <3>2, <3>3
  <2>3. CASE TaskEnd(i)
    <3>1. /\ inst[i].st = "running" /\ closed_conns' = closed_conns
          /\ inst' = [inst EXCEPT ![i].st = "closing", ![i].links = {}, ![i].queue = <<>>]
      BY <2>3 DEF TaskEnd
    <3>2. Sets(i, "closing", <<>>, {})
      BY <1>3, <3>1 DEF Sets, TableType, Instance
    <3>3. "closing" \in InstStates /\ Unreported(i)
      BY <3>1 DEF InstStates, Unreported, Alive
    <3> QED
      BY <1>2, <2>0, <3>1, <3>2, <3>3
  <2>4. CASE DropConnId(i)
    <3>0. PICK q, L : q = inst[i].queue /\ L = inst[i].links
      OBVIOUS
    <3>1. inst[i].st = "closing" /\ Report(i) /\ inst' = [inst EXCEPT ![i].st = "gone"]
      BY <2>4 DEF DropConnId
    <3>2. Sets(i, "gone", q, L)
      BY <1>3, <3>0, <3>1 DEF Sets, TableType, Instance
    <3>3. "gone" \in InstStates /\ Unreported(i)
      BY <3>1 DEF InstStates, Unreported
    <3>4. q \in Seq(Links) /\ L \in SUBSET Links /\ L \cup {q[k] : k \in 1 .. Len(q)} \subseteq Members(i)
      BY <1>2, <3>0
    <3> QED
      BY <3>1, <3>2, <3>3, <3>4
  <2> QED
    BY <2>1, <2>2, <2>3, <2>4
<1>5. TableType' /\ TableInv' /\ ListenInv' /\ Ages
  BY <1>1, <1>4, SetsStep
<1> QED
  BY <1>1, <1>5, QuietStep

\* Accept, Refuse and NewLink.
LEMMA AnswerCore ==
  ASSUME ServerInv, NEW i \in Insts, Accept(i) \/ Refuse(i) \/ NewLink(i)
  PROVE  ServerInv'
<1> USE DEF ServerInv
<1>1. /\ UNCHANGED <<clientVars, at, cpc, spc, to_server, existing, target, generation,
                     listenVars, conns, closed_conns>>
      /\ listen_rx' = listen_rx
  BY DEF Accept, Refuse, NewLink, listenVars
<1>2. /\ inst[i].queue \in Seq(Links) /\ inst[i].links \in SUBSET Links
      /\ Members(i) \in SUBSET Links /\ inst[i].links \subseteq Members(i)
      /\ \A k \in 1 .. Len(inst[i].queue) : inst[i].queue[k] \in Members(i)
      /\ \A l \in Members(i) : spc[l] = "handed" /\ Known(l)
  BY MemberFacts
<1>3. inst[i] \in Instance
  BY DEF TableType
<1>4. \E st \in InstStates, q \in Seq(Links), L \in SUBSET Links, S \in SUBSET Members(i), x \in Messages :
         /\ Sets(i, st, q, L) /\ L \cup {q[k] : k \in 1 .. Len(q)} \subseteq Members(i) /\ Answer(S, x)
         /\ inst[i].st \in {"held", "running"} /\ st \in {"running", "closing"}
  <2>0. /\ <<>> \in Seq(Links) /\ {<<>>[k] : k \in 1 .. Len(<<>>)} = {} /\ {} \in SUBSET Links
        /\ {"Accepted", "ConnectionRefused", "LinkRefused"} \subseteq Messages
        /\ {"running", "closing"} \subseteq InstStates
    BY DEF Messages, InstStates
  <2>1. CASE Accept(i)
    <3>1. /\ inst[i].st = "held" /\ Answer(Members(i), "Accepted")
          /\ inst' = [inst EXCEPT ![i].st = "running", ![i].links = @ \cup Queued(i), ![i].queue = <<>>]
      BY <2>1 DEF Accept, Members
    <3>2. Sets(i, "running", <<>>, Members(i))
      BY <1>3, <3>1 DEF Sets, TableType, Instance, Members
    <3> QED
      BY <1>2, <2>0, <3>1, <3>2
  <2>2. CASE Refuse(i)
    <3>1. /\ inst[i].st = "held" /\ Answer(Members(i), "ConnectionRefused")
          /\ inst' = [inst EXCEPT ![i].st = "closing", ![i].links = {}, ![i].queue = <<>>]
      BY <2>2 DEF Refuse, Members
    <3>2. Sets(i, "closing", <<>>, {})
      BY <1>3, <3>1 DEF Sets, TableType, Instance
    <3> QED
      BY <1>2, <2>0, <3>1, <3>2
  <2>3. CASE NewLink(i)
    <3>0. PICK q, L : q = inst[i].queue /\ L = inst[i].links
      OBVIOUS
    <3>1. /\ inst[i].st = "running" /\ q # <<>>
          /\ \/ /\ inst' = [inst EXCEPT ![i].queue = Tail(@), ![i].links = @ \cup {Head(q)}]
                /\ Answer({Head(q)}, "Accepted")
             \/ /\ inst' = [inst EXCEPT ![i].queue = Tail(@)]
                /\ Answer({Head(q)}, "LinkRefused")
      BY <2>3, <3>0 DEF NewLink
    <3>2. /\ Tail(q) \in Seq(Links) /\ Head(q) \in Members(i)
          /\ \A k \in 1 .. Len(Tail(q)) : Tail(q)[k] \in Members(i)
      <4>1. q \in Seq(Links) /\ \A k \in 1 .. Len(q) : q[k] \in Members(i)
        BY <1>2, <3>0
      <4>2. /\ Tail(q) \in Seq(Links) /\ Len(q) \in Nat \ {0} /\ Head(q) = q[1]
            /\ \A k \in 1 .. Len(Tail(q)) : Tail(q)[k] = q[k + 1] /\ k + 1 \in 1 .. Len(q)
        BY <3>1, <4>1, TailFacts
      <4> QED
        BY <4>1, <4>2
    <3>3. \/ Sets(i, "running", Tail(q), L \cup {Head(q)}) /\ Answer({Head(q)}, "Accepted")
          \/ Sets(i, "running", Tail(q), L) /\ Answer({Head(q)}, "LinkRefused")
      <4>1. PICK h, t : h = Head(q) /\ t = Tail(q)
        OBVIOUS
      <4>2. inst' = [inst EXCEPT ![i].queue = Tail(@), ![i].links = @ \cup {h}] => Sets(i, "running", t, L \cup {h})
        <5>1. PICK r : r = inst[i]
          OBVIOUS
        <5>2. [r EXCEPT !.queue = Tail(@), !.links = @ \cup {h}] = [r EXCEPT !.st = "running", !.queue = t, !.links = L \cup {h}]
          BY <1>3, <3>0, <3>1, <4>1, <5>1 DEF Instance
        <5>3. ASSUME inst' = [inst EXCEPT ![i].queue = Tail(@), ![i].links = @ \cup {h}]
              PROVE  inst' = [inst EXCEPT ![i] = [r EXCEPT !.queue = Tail(@), !.links = @ \cup {h}]]
          BY <5>1, <5>3 DEF TableType
        <5>4. [inst EXCEPT ![i].st = "running", ![i].queue = t, ![i].links = L \cup {h}]
                = [inst EXCEPT ![i] = [r EXCEPT !.st = "running", !.queue = t, !.links = L \cup {h}]]
          BY <5>1 DEF TableType
        <5> QED
          BY <5>2, <5>3, <5>4 DEF Sets
      <4>3. inst' = [inst EXCEPT ![i].queue = Tail(@)] => Sets(i, "running", t, L)
        <5>1. PICK r : r = inst[i]
          OBVIOUS
        <5>2. [r EXCEPT !.queue = Tail(@)] = [r EXCEPT !.st = "running", !.queue = t, !.links = L]
          BY <1>3, <3>0, <3>1, <4>1, <5>1 DEF Instance
        <5>3. ASSUME inst' = [inst EXCEPT ![i].queue = Tail(@)]
              PROVE  inst' = [inst EXCEPT ![i] = [r EXCEPT !.queue = Tail(@)]]
          BY <5>1, <5>3 DEF TableType
        <5>4. [inst EXCEPT ![i].st = "running", ![i].queue = t, ![i].links = L]
                = [inst EXCEPT ![i] = [r EXCEPT !.st = "running", !.queue = t, !.links = L]]
          BY <5>1 DEF TableType
        <5> QED
          BY <5>2, <5>3, <5>4 DEF Sets
      <4> QED
        BY <3>1, <4>1, <4>2, <4>3
    <3>4. /\ {Head(q)} \in SUBSET Members(i) /\ L \in SUBSET Links /\ L \cup {Head(q)} \in SUBSET Links
          /\ (L \cup {Head(q)}) \cup {Tail(q)[k] : k \in 1 .. Len(Tail(q))} \subseteq Members(i)
      BY <1>2, <3>0, <3>2
    <3> QED
      BY <2>0, <3>1, <3>2, <3>3, <3>4
  <2> QED
    BY <2>1, <2>2, <2>3
<1>5. PICK st \in InstStates, q \in Seq(Links), L \in SUBSET Links, S \in SUBSET Members(i), x \in Messages :
         /\ Sets(i, st, q, L) /\ L \cup {q[k] : k \in 1 .. Len(q)} \subseteq Members(i) /\ Answer(S, x)
         /\ inst[i].st \in {"held", "running"} /\ st \in {"running", "closing"}
  BY <1>4
<1>6. Alive(i) /\ Unreported(i)
  BY <1>5 DEF Alive, Unreported
<1>7. TableType' /\ TableInv' /\ ListenInv' /\ Ages
  BY <1>1, <1>5, <1>6, SetsStep
<1>8. /\ to_client' \in [Links -> Seq(Messages)]
      /\ \A m \in Links : \A k \in 1 .. Len(to_client'[m]) : to_client'[m][k] = "Accepted" => Known(m)
      /\ \A m \in Links : m \notin S => to_client'[m] = to_client[m]
  BY <1>2, <1>5, SendFacts
<1> QED
  BY <1>1, <1>2, <1>5, <1>7, <1>8, InstanceStep DEF clientVars

\* NextIncoming: the head of the queue belongs to the user from now on.
LEMMA NextIncomingCore ==
  ASSUME ServerInv, NEW s \in Servers, NextIncoming(s)
  PROVE  ServerInv'
<1> USE DEF ServerInv
<1>0. PICK q, i : q = listen_rx[s] /\ i = Head(q)
  OBVIOUS
<1>1. /\ q # <<>> /\ inst' = [inst EXCEPT ![i].st = "held"]
      /\ listen_rx' = [listen_rx EXCEPT ![s] = Tail(q)]
      /\ UNCHANGED <<clientVars, linkVars, conns, closed_conns>>
  BY <1>0 DEF NextIncoming
<1>2. q \in Seq(Insts)
  BY <1>0 DEF TableType
<1>3. /\ Tail(q) \in Seq(Insts) /\ Len(Tail(q)) = Len(q) - 1 /\ Len(q) \in Nat \ {0}
      /\ \A k \in 1 .. Len(Tail(q)) : Tail(q)[k] = q[k + 1] /\ k + 1 \in 1 .. Len(q)
      /\ i = q[1] /\ i \in Insts
  BY <1>0, <1>1, <1>2, TailFacts
<1>4. /\ \A k \in 1 .. Len(q) : inst[q[k]].st = "queued" /\ inst[q[k]].srv = s
      /\ \A j, k \in 1 .. Len(q) : q[j] = q[k] => j = k
  BY <1>0 DEF ListenInv
<1>5. inst[i].st = "queued" /\ inst[i].srv = s
  BY <1>3, <1>4
<1>6. /\ listen_rx' \in [Servers -> Seq(Insts)] /\ listen_rx'[s] = Tail(q)
      /\ \A r \in Servers : r # s => listen_rx'[r] = listen_rx[r]
  BY <1>1, <1>3 DEF TableType
<1>7. /\ inst' \in [Insts -> Instance] /\ inst'[i].st = "held"
      /\ inst'[i].srv = inst[i].srv /\ inst'[i].conn = inst[i].conn
      /\ inst'[i].queue = inst[i].queue /\ inst'[i].links = inst[i].links
      /\ \A j \in Insts : j # i => inst'[j] = inst[j]
  <2>1. inst[i] \in Instance /\ "held" \in InstStates
    BY <1>3 DEF TableType, InstStates
  <2>2. [inst[i] EXCEPT !.st = "held"] \in Instance
    BY <2>1 DEF Instance
  <2>3. inst' = [inst EXCEPT ![i] = [inst[i] EXCEPT !.st = "held"]]
    BY <1>1, <1>3 DEF TableType
  <2>4. inst' \in [Insts -> Instance]
    BY <1>3, <2>2, <2>3 DEF TableType
  <2> QED
    BY <1>3, <2>1, <2>3, <2>4 DEF TableType, Instance
<1>8. TableType'
  BY <1>1, <1>6, <1>7 DEF TableType
<1>9. TableInv'
  <2>1. \A j \in Insts : /\ Unreported(j)' => Unreported(j)
                         /\ Used(j) => Used(j)'
                         /\ inst'[j].srv = inst[j].srv /\ inst'[j].conn = inst[j].conn
    BY <1>5, <1>7 DEF Unreported, Alive, Used
  <2> QED
    BY <1>1, <2>1, TableFrame
<1>10. ListenInv'
  <2>1. \A k \in 1 .. Len(Tail(q)) : q[k + 1] \in Insts \ {i}
    BY <1>2, <1>3, <1>4
  <2>2. \A k \in 1 .. Len(Tail(q)) : inst'[Tail(q)[k]].st = "queued" /\ inst'[Tail(q)[k]].srv = s
    BY <1>3, <1>4, <1>7, <2>1
  <2>3. \A j, k \in 1 .. Len(Tail(q)) : Tail(q)[j] = Tail(q)[k] => j = k
    <3> SUFFICES ASSUME NEW j \in 1 .. Len(Tail(q)), NEW k \in 1 .. Len(Tail(q)), Tail(q)[j] = Tail(q)[k]
                 PROVE  j = k
      OBVIOUS
    <3>1. q[j + 1] = q[k + 1] /\ j + 1 \in 1 .. Len(q) /\ k + 1 \in 1 .. Len(q)
      BY <1>3
    <3>2. j + 1 = k + 1
      BY <1>4, <3>1
    <3> QED
      BY <1>3, <3>2
  <2>4. \A r \in Servers : r # s => \A k \in 1 .. Len(listen_rx[r]) :
          inst'[listen_rx[r][k]].st = "queued" /\ inst'[listen_rx[r][k]].srv = r
    <3> SUFFICES ASSUME NEW r \in Servers, r # s, NEW k \in 1 .. Len(listen_rx[r])
                 PROVE  inst'[listen_rx[r][k]].st = "queued" /\ inst'[listen_rx[r][k]].srv = r
      OBVIOUS
    <3>1. listen_rx[r][k] \in Insts
      BY DEF TableType
    <3>2. inst[listen_rx[r][k]].st = "queued" /\ inst[listen_rx[r][k]].srv = r
      BY DEF ListenInv
    <3>3. inst'[listen_rx[r][k]] = inst[listen_rx[r][k]]
      BY <1>5, <1>7, <3>1, <3>2
    <3> QED
      BY <3>2, <3>3
  <2>5. \A r \in Servers : \A k \in 1 .. Len(listen_rx'[r]) :
          inst'[listen_rx'[r][k]].st = "queued" /\ inst'[listen_rx'[r][k]].srv = r
    <3> SUFFICES ASSUME NEW r \in Servers, NEW k \in 1 .. Len(listen_rx'[r])
                 PROVE  inst'[listen_rx'[r][k]].st = "queued" /\ inst'[listen_rx'[r][k]].srv = r
      OBVIOUS
    <3>1. CASE r = s
      <4>1. listen_rx'[r] = Tail(q)
        BY <1>6, <3>1
      <4> QED
        BY <2>2, <3>1, <4>1
    <3>2. CASE r # s
      <4>1. listen_rx'[r] = listen_rx[r]
        BY <1>6, <3>2
      <4> QED
        BY <2>4, <3>2, <4>1
    <3> QED
      BY <3>1, <3>2
  <2>6. \A r \in Servers : \A j, k \in 1 .. Len(listen_rx'[r]) :
          listen_rx'[r][j] = listen_rx'[r][k] => j = k
    <3> SUFFICES ASSUME NEW r \in Servers
                 PROVE  \A j, k \in 1 .. Len(listen_rx'[r]) : listen_rx'[r][j] = listen_rx'[r][k] => j = k
      OBVIOUS
    <3>1. CASE r = s
      <4>1. listen_rx'[r] = Tail(q)
        BY <1>6, <3>1
      <4> QED
        BY <2>3, <4>1
    <3>2. CASE r # s
      BY <1>6, <3>2 DEF ListenInv
    <3> QED
      BY <3>1, <3>2
  <2> QED
    BY <2>5, <2>6 DEF ListenInv
<1>11. Ages
  <2>1. \A j \in Insts : Members(j)' \subseteq Members(j)
    <3> SUFFICES ASSUME NEW j \in Insts PROVE Members(j)' = Members(j)
      OBVIOUS
    <3>1. inst'[j].queue = inst[j].queue /\ inst'[j].links = inst[j].links
      BY <1>7
    <3>2. Queued(j)' = Queued(j)
      BY <3>1, ZenonT(20) DEF Queued
    <3> QED
      BY <3>1, <3>2 DEF Members
  <2> QED
    BY <1>5, <1>7, <2>1 DEF Ages, Used, Alive
<1> QED
  BY <1>1, <1>8, <1>9, <1>10, <1>11, QuietStep
-----------------------------------------------------------------------------
(***************************************************************************)
(* Theorems.                                                               *)
(***************************************************************************)

\* Every step of clients, add_incoming, Listeners and tasks keeps the invariant.
LEMMA ServerStep == ServerInv /\ [Next]_vars => ServerInv'
<1> SUFFICES ASSUME ServerInv, [Next]_vars PROVE ServerInv'
  OBVIOUS
<1>1. CASE UNCHANGED vars
  <2>1. UNCHANGED <<clientVars, linkVars, conns, inst, closed_conns, listen_rx>>
    BY <1>1 DEF vars, listenVars
  <2>2. TableType' /\ TableInv' /\ ListenInv'
    BY <2>1 DEF ServerInv, TableType, TableInv, Unreported, Alive, Used, ListenInv
  <2>3. Ages
    BY <2>1 DEF Ages, Alive, Used, Members, Queued
  <2> QED
    BY <2>1, <2>2, <2>3, QuietStep
<1>2. CASE Client
  BY <1>2, DialCore, RecvWelcomeCore, SendConnectCore, RecvAnswerCore, ClientRestCore DEF Client
<1>3. ASSUME NEW l \in Links, AddIncoming(l) PROVE ServerInv'
  BY <1>3, WelcomeCore, ConnectCore, LookupCore, RelookupCore, StartCore, JoinCore, SendRefusedCore
     DEF AddIncoming
<1>4. CASE Instances
  BY <1>4, ServerConnectCore, DropCore, NextIncomingCore, AgeCore, AnswerCore DEF Instances
<1> QED
  BY <1>1, <1>2, <1>3, <1>4 DEF Next

\* The invariant that carries the theorems below.
THEOREM ServerInvariant == Spec => []ServerInv
<1>1. Init => ServerInv
  BY InitCore
<1>2. ServerInv /\ [Next]_vars => ServerInv'
  BY ServerStep
<1> QED
  BY <1>1, <1>2, PTL DEF Spec

\* The table of a server leads to every living connection, so there is never a
\* second one of the same id, for any numbers of links, servers and Listeners:
\* add_incoming looks the id up again after its wait and cleanup_links removes
\* entries of dropped connections only.
THEOREM TableAlwaysSound == Spec => []TableSound
<1>1. ServerInv => TableSound
  BY DEF ServerInv, TableInv, Unreported, TableSound
<1> QED
  BY <1>1, ServerInvariant, PTL

\* RefusedReason::Closed, which ends the client's task, is sent only when a
\* connection of that id has ended at that server.
THEOREM ClosedAlwaysTrue == Spec => []ClosedMeansEnded
<1>1. ServerInv => ClosedMeansEnded
  BY DEF ServerInv
<1> QED
  BY <1>1, ServerInvariant, PTL

\* Control::add sends the id of a connection to the first server that greeted
\* it and to no other, however its calls are interleaved.
THEOREM OneServer == Spec => []SameServer
<1>1. ServerInv => SameServer
  BY DEF ServerInv, GreetInv, SameServer
<1> QED
  BY <1>1, ServerInvariant, PTL
=============================================================================
