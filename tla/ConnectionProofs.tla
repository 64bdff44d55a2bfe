-------------------------- MODULE ConnectionProofs --------------------------
(***************************************************************************)
(* Proofs about a connection: the meeting of its two peers (Handshake), for *)
(* any set of connections, and the indexes of its transactions             *)
(* (TransactionSpace), for any threads and any width of int.               *)
(*                                                                         *)
(* What is on its way to a side of the meeting is a segment of a fixed     *)
(* script, from where the side stands to where the sender stands; what     *)
(* both sides know of each other follows from it.  That an index is new    *)
(* depends on what was counted when earlier ones were computed: while the  *)
(* condition of Distinct holds, those a peer started lie below the sum of  *)
(* its minimum and the size of its map, and those it serves were started   *)
(* by the other.                                                           *)
(***************************************************************************)
EXTENDS Handshake, TransactionSpace, SequenceTheorems, FiniteSetTheorems, TLAPS

-----------------------------------------------------------------------------
(* The inductive invariant.  Each side is sent a fixed script; what is on   *)
(* its way to it is a segment of that script that begins where the side     *)
(* stands and ends where the sender stands, or earlier if a packet was lost *)
(* because the connection is broken.  A side that gave up may have taken a   *)
(* packet without going on.                                                 *)

Script(c, s) ==
    IF s = "out"
    THEN <<[kind |-> "meet", name |-> Name(c, "in")],
           [kind |-> "signal", hash |-> Hash(PeerName(c), Name(c, "out"))],
           [kind |-> "answer"]>>
    ELSE <<[kind |-> "meet", name |-> Name(c, "out")],
           [kind |-> "content"]>>

(* Packets of the script that side s, at position i, has taken or given.    *)
TakenAt(s, i) ==
    IF s = "out" THEN (IF i <= 3 THEN 0 ELSE IF i <= 5 THEN 1 ELSE IF i <= 7 THEN 2 ELSE 3)
                 ELSE (IF i <= 2 THEN 0 ELSE IF i <= 5 THEN 1 ELSE 2)
GivenAt(s, i) ==
    IF s = "out" THEN (IF i <= 2 THEN 0 ELSE IF i <= 6 THEN 1 ELSE 2)
                 ELSE (IF i <= 1 THEN 0 ELSE IF i <= 4 THEN 1 ELSE IF i <= 6 THEN 2 ELSE 3)

WireOK(c, s) ==
    LET w == wire[c][s]
        t == TakenAt(s, at[c][s])
        g == GivenAt(Peer(s), at[c][Peer(s)])
    IN  end[c][s] # "closed" =>
            /\ t + Len(w) <= g
            /\ \A j \in 1..Len(w) : w[j] = Script(c, s)[t + j]
            /\ t + Len(w) = g \/ Broken(c, Peer(s))

(* What a side has learnt by the time it stands where it stands.            *)
InOK(c) ==
    /\ end[c]["in"] \in {"absent", "lost"} => at[c]["in"] = 1
    /\ end[c]["in"] = "absent" => iState[c]["in"] = "WAIT"
    /\ at[c]["in"] >= 3 => met[c]["in"] = Name(c, "out")
    /\ at[c]["in"] >= 4 => iState[c]["in"] = "ACCEPT"
    /\ at[c]["in"] = 7 => end[c]["in"] \in {"open", "client"}

OutOK(c) ==
    /\ at[c]["out"] = 1 => link[c] = "down"
    /\ end[c]["out"] = "open" => tries[c] \in {0, 1}
    /\ at[c]["out"] >= 4 => met[c]["out"] = Name(c, "in")
    /\ at[c]["out"] >= 6 => iState[c]["out"] = "ACCEPT" /\ c \notin Translated
    /\ end[c]["out"] = "client" => at[c]["out"] = 8

ConnOK(c) ==
    /\ InOK(c)
    /\ OutOK(c)
    /\ WireOK(c, "in")
    /\ WireOK(c, "out")
    /\ \A s \in Side : end[c][s] # "leaked"

IInv == TypeOK /\ \A c \in Conn : ConnOK(c)
-----------------------------------------------------------------------------
(* Just past the last step of a line.                                       *)
LineEnd(s) == IF s = "out" THEN 8 ELSE 7

(* LineEnd is what it says.                                                 *)
LEMMA LineEnds == \A s \in Side : Len(Line(s)) + 1 = LineEnd(s)
<1>1. Len(Line("out")) + 1 = LineEnd("out")
  BY DEF Line, OutLine, LineEnd
<1>2. Len(Line("in")) + 1 = LineEnd("in")
  BY DEF Line, InLine, LineEnd
<1>. QED
  BY <1>1, <1>2 DEF Side

(* TypeOK in three parts.                                                   *)
PositionsOK ==
    /\ at \in [Conn -> [Side -> 1..8]]
    /\ \A c \in Conn, s \in Side : at[c][s] <= LineEnd(s)

StatesOK ==
    /\ link \in [Conn -> {"down", "up", "cut"}]
    /\ tries \in [Conn -> 0..2]
    /\ iState \in [Conn -> [Side -> {"WAIT", "ACCEPT", "REJECT"}]]
    /\ end \in [Conn -> [Side -> {"absent", "lost", "open", "client", "closed", "leaked"}]]

Names == {Name(c, s) : c \in Conn, s \in Side} \cup {NoName}
DataOK ==
    /\ met \in [Conn -> [Side -> Names]]
    /\ wire \in [Conn -> [Side -> Seq(Packets)]]

(* The parts make the whole.                                                *)
LEMMA TypeParts == TypeOK <=> PositionsOK /\ StatesOK /\ DataOK
BY LineEnds DEF TypeOK, PositionsOK, StatesOK, DataOK, Names

(* The same of the next state.                                             *)
LEMMA TypePartsNext == TypeOK' <=> PositionsOK' /\ StatesOK' /\ DataOK'
BY LineEnds DEF TypeOK, PositionsOK, StatesOK, DataOK, Names

(* A side goes on to the next step of its line.                             *)
LEMMA Advances ==
    ASSUME TypeOK, NEW c \in Conn, NEW s \in Side, at[c][s] < LineEnd(s), Advance(c, s)
    PROVE  /\ PositionsOK'
           /\ at'[c][s] = at[c][s] + 1
           /\ at'[c][Peer(s)] = at[c][Peer(s)]
           /\ \A d \in Conn \ {c} : at'[d] = at[d]
<1>1. at \in [Conn -> [Side -> 1..8]] /\ \A d \in Conn, x \in Side : at[d][x] <= LineEnd(x)
  BY TypeParts DEF PositionsOK
<1>2. at[c][s] + 1 \in 1..8 /\ at[c][s] + 1 <= LineEnd(s)
  BY <1>1 DEF LineEnd
<1>3. at' \in [Conn -> [Side -> 1..8]]
  BY <1>1, <1>2 DEF Advance
<1>4. ASSUME NEW d \in Conn, NEW x \in Side
      PROVE  at'[d][x] = IF d = c /\ x = s THEN at[c][s] + 1 ELSE at[d][x]
  BY <1>1 DEF Advance
<1>5. \A d \in Conn, x \in Side : at'[d][x] <= LineEnd(x)
  BY <1>1, <1>2, <1>4
<1>6. Peer(s) \in Side /\ Peer(s) # s
  BY DEF Peer, Side
<1>7. \A d \in Conn \ {c} : at'[d] = at[d]
  BY <1>1 DEF Advance
<1>. QED
  BY <1>3, <1>4, <1>5, <1>6, <1>7 DEF PositionsOK

(* The same for each side, with the range of its positions.                *)
LEMMA OutAdvances ==
    ASSUME TypeOK, NEW c \in Conn, at[c]["out"] \in 1..7, Advance(c, "out")
    PROVE  /\ PositionsOK'
           /\ at'[c]["out"] = at[c]["out"] + 1
           /\ at'[c]["in"] = at[c]["in"]
           /\ \A d \in Conn \ {c} : at'[d] = at[d]
<1>1. "out" \in Side /\ Peer("out") = "in" /\ at[c]["out"] < LineEnd("out")
  BY DEF Side, Peer, LineEnd
<1>. QED
  BY <1>1, Advances

(* (The incoming side.)                                                     *)
LEMMA InAdvances ==
    ASSUME TypeOK, NEW c \in Conn, at[c]["in"] \in 1..6, Advance(c, "in")
    PROVE  /\ PositionsOK'
           /\ at'[c]["in"] = at[c]["in"] + 1
           /\ at'[c]["out"] = at[c]["out"]
           /\ \A d \in Conn \ {c} : at'[d] = at[d]
<1>1. "in" \in Side /\ Peer("in") = "out" /\ at[c]["in"] < LineEnd("in")
  BY DEF Side, Peer, LineEnd
<1>. QED
  BY <1>1, Advances

(* Where a side stands when it is about to take a step.                     *)
LEMMA OutPositions ==
    ASSUME NEW c \in Conn, TypeOK, NEW step, Standing(c, "out", step)
    PROVE  /\ end[c]["out"] = "open"
           /\ at[c]["out"] \in 1..7
           /\ step = "connecting" => at[c]["out"] = 1
           /\ step = "meetSend" => at[c]["out"] = 2
           /\ step = "meetReceive" => at[c]["out"] = 3
           /\ step = "waiting" => at[c]["out"] = 4
           /\ step = "signal" => at[c]["out"] = 5
           /\ step = "content" => at[c]["out"] = 6
           /\ step = "answer" => at[c]["out"] = 7
<1>1. at[c]["out"] \in 1..7
  BY DEF TypeOK, Standing, Line, OutLine, Side
<1>2. OutLine[at[c]["out"]] = step /\ end[c]["out"] = "open"
  BY DEF Standing, Line
<1>. QED
  BY <1>1, <1>2 DEF OutLine

(* (The incoming side.)                                                     *)
LEMMA InPositions ==
    ASSUME NEW c \in Conn, TypeOK, NEW step, Standing(c, "in", step)
    PROVE  /\ end[c]["in"] = "open"
           /\ at[c]["in"] \in 1..6
           /\ step = "meetSend" => at[c]["in"] = 1
           /\ step = "meetReceive" => at[c]["in"] = 2
           /\ step = "waiting" => at[c]["in"] = 3
           /\ step = "signal" => at[c]["in"] = 4
           /\ step = "content" => at[c]["in"] = 5
           /\ step = "answer" => at[c]["in"] = 6
<1>1. at[c]["in"] \in 1..6
  BY DEF TypeOK, Standing, Line, InLine, Side
<1>2. InLine[at[c]["in"]] = step /\ end[c]["in"] = "open"
  BY DEF Standing, Line
<1>. QED
  BY <1>1, <1>2 DEF InLine
-----------------------------------------------------------------------------
(* A step of one connection leaves the others alone.                        *)
OnlyAt(c) ==
    \A d \in Conn \ {c} :
        /\ link'[d] = link[d] /\ tries'[d] = tries[d] /\ at'[d] = at[d] /\ iState'[d] = iState[d]
        /\ met'[d] = met[d] /\ end'[d] = end[d] /\ wire'[d] = wire[d]

(* So it is enough to look at the connection that took the step.            *)
LEMMA OneConnection ==
    ASSUME IInv, NEW c \in Conn, TypeOK', ConnOK(c)', OnlyAt(c)
    PROVE  IInv'
<1>. SUFFICES ASSUME NEW d \in Conn \ {c} PROVE ConnOK(d)'
  BY DEF IInv
<1>1. ConnOK(d)
  BY DEF IInv
<1>2. \A s \in Side : Broken(d, s)' <=> Broken(d, s)
  BY DEF OnlyAt, Broken
<1>3. InOK(d)' /\ OutOK(d)' /\ \A s \in Side : end'[d][s] # "leaked"
  BY <1>1 DEF OnlyAt, ConnOK, InOK, OutOK
<1>4. WireOK(d, "in")' /\ WireOK(d, "out")'
  BY <1>1, <1>2 DEF OnlyAt, ConnOK, WireOK, Side, Peer
<1>. QED
  BY <1>3, <1>4 DEF ConnOK

(* The packets on the way to a side that neither gets nor takes one.        *)
LEMMA WireUntouched ==
    ASSUME NEW c \in Conn, NEW s \in Side, WireOK(c, s),
           wire'[c][s] = wire[c][s],
           TakenAt(s, at'[c][s]) = TakenAt(s, at[c][s]),
           GivenAt(Peer(s), at'[c][Peer(s)]) = GivenAt(Peer(s), at[c][Peer(s)]),
           end[c][s] = "closed" => end'[c][s] = "closed",
           Broken(c, Peer(s)) => Broken(c, Peer(s))'
    PROVE  WireOK(c, s)'
BY DEF WireOK

(* A connection that is broken stays so.                                    *)
LEMMA BrokenStays ==
    ASSUME NEW c \in Conn, NEW s \in Side,
           link[c] = "cut" => link'[c] = "cut",
           \A x \in Side : end[c][x] = "closed" => end'[c][x] = "closed"
    PROVE  Broken(c, s) => Broken(c, s)'
BY DEF Broken, Peer, Side

(* A side sends the packet of the script that it is its turn to send.       *)
LEMMA Sends ==
    ASSUME NEW c \in Conn, NEW s \in Side, NEW pkt \in Packets,
           TypeOK, WireOK(c, s), WireOK(c, Peer(s)), end[c][s] = "open",
           GivenAt(s, at[c][s] + 1) = GivenAt(s, at[c][s]) + 1,
           TakenAt(s, at[c][s] + 1) = TakenAt(s, at[c][s]),
           pkt = Script(c, Peer(s))[GivenAt(s, at[c][s]) + 1],
           Send(c, s, pkt), link' = link
    PROVE  /\ WireOK(c, s)'
           /\ WireOK(c, Peer(s))'
           /\ wire' \in [Conn -> [Side -> Seq(Packets)]]
           /\ \A d \in Conn \ {c} : wire'[d] = wire[d]
<1>. DEFINE p == Peer(s)
            w == wire[c][p]
            t == TakenAt(p, at[c][p])
            g == GivenAt(s, at[c][s])
<1>1. p \in Side /\ p # s /\ Peer(p) = s
  BY DEF Peer, Side
<1>2. /\ w \in Seq(Packets) /\ t \in Nat /\ g \in Nat
  BY <1>1 DEF TypeOK, TakenAt, GivenAt
<1>3. CASE Fault(c, s) /\ UNCHANGED <<at, wire>>
  <2>1. \A x \in Side : Broken(c, x) => Broken(c, x)'
    BY <1>3, BrokenStays DEF Fault, TypeOK
  <2>2. end'[c][p] = end[c][p]
    BY <1>1, <1>3 DEF Fault, TypeOK
  <2>3. WireOK(c, s)' /\ WireOK(c, p)'
    BY <1>1, <1>3, <2>1, <2>2, WireUntouched
  <2>. QED
    BY <1>3, <2>3 DEF TypeOK
<1>4. CASE Advance(c, s) /\ UNCHANGED end
               /\ wire' = IF Broken(c, s) THEN wire
                          ELSE [wire EXCEPT ![c][Peer(s)] = Append(@, pkt)]
  <2>1. \A x \in Side : Broken(c, x)' <=> Broken(c, x)
    BY <1>4 DEF Broken
  <2>2. at'[c][s] = at[c][s] + 1 /\ at'[c][p] = at[c][p]
    BY <1>1, <1>4 DEF Advance, TypeOK
  <2>3. wire'[c][s] = wire[c][s]
    BY <1>1, <1>4 DEF TypeOK
  <2>4. WireOK(c, s)'
    BY <1>1, <2>1, <2>2, <2>3, WireUntouched
  <2>5. CASE Broken(c, s)
    <3>1. wire'[c][p] = w
      BY <1>4, <2>5
    <3>. QED
      BY <1>1, <1>2, <1>4, <2>1, <2>2, <2>4, <2>5, <3>1 DEF WireOK, TypeOK
  <2>6. CASE ~Broken(c, s)
    <3>1. wire'[c][p] = Append(w, pkt)
      BY <1>1, <1>4, <2>6 DEF TypeOK
    <3>2. t + Len(w) = g /\ \A j \in 1..Len(w) : w[j] = Script(c, p)[t + j]
      BY <1>1, <2>6 DEF WireOK, Broken
    <3>3. /\ Len(Append(w, pkt)) = Len(w) + 1
          /\ \A j \in 1..Len(w) + 1 : Append(w, pkt)[j] = IF j <= Len(w) THEN w[j] ELSE pkt
      BY <1>2
    <3>4. ASSUME NEW j \in 1..Len(w) + 1
          PROVE  Append(w, pkt)[j] = Script(c, p)[t + j]
      <4>1. Len(w) \in Nat /\ pkt = Script(c, p)[g + 1]
        BY <1>2
      <4>. HIDE DEF p, w, t, g
      <4>2. CASE j <= Len(w)
        BY <3>2, <3>3, <4>1, <4>2
      <4>3. CASE ~(j <= Len(w))
        <5>1. j = Len(w) + 1 /\ t + j = g + 1
          BY <1>2, <3>2, <4>1, <4>3
        <5>. QED
          BY <3>3, <4>1, <4>3, <5>1
      <4>. QED
        BY <4>2, <4>3
    <3>5. WireOK(c, p)'
      <4>1. /\ TakenAt(p, at'[c][p]) = t
            /\ GivenAt(Peer(p), at'[c][Peer(p)]) = g + 1
        BY <1>1, <2>2
      <4>2. Len(w) \in Nat /\ t + (Len(w) + 1) = g + 1
        BY <1>2, <3>2
      <4>3. Len(wire'[c][p]) = Len(w) + 1
        BY <3>1, <3>3
      <4>4. \A j \in 1..Len(wire'[c][p]) : wire'[c][p][j] = Script(c, p)[t + j]
        BY <3>1, <3>4, <4>3
      <4>. HIDE DEF p, w, t, g
      <4>. QED
        BY <1>2, <4>1, <4>2, <4>3, <4>4 DEF WireOK
    <3>6. wire' \in [Conn -> [Side -> Seq(Packets)]] /\ \A d \in Conn \ {c} : wire'[d] = wire[d]
      BY <1>1, <1>2, <1>4, <2>6 DEF TypeOK
    <3>. QED
      BY <2>4, <3>5, <3>6
  <2>. QED
    BY <2>5, <2>6
<1>. QED
  BY <1>3, <1>4 DEF Send

(* A side takes the first packet on its way to it: the next of the script.  *)
LEMMA Receives ==
    ASSUME NEW c \in Conn, NEW s \in Side, TypeOK, WireOK(c, s), WireOK(c, Peer(s)),
           Arrived(c, s), Receive(c, s), link' = link,
           end[c][s] = "open",
           \A x \in Side : end[c][x] = "closed" => end'[c][x] = "closed",
           at'[c][Peer(s)] = at[c][Peer(s)],
           TakenAt(s, at'[c][s]) = TakenAt(s, at[c][s]) + 1,
           GivenAt(s, at'[c][s]) = GivenAt(s, at[c][s])
    PROVE  /\ WireOK(c, s)'
           /\ WireOK(c, Peer(s))'
           /\ wire' \in [Conn -> [Side -> Seq(Packets)]]
           /\ \A d \in Conn \ {c} : wire'[d] = wire[d]
<1>. DEFINE p == Peer(s)
            w == wire[c][s]
            t == TakenAt(s, at[c][s])
<1>1. p \in Side /\ p # s /\ Peer(p) = s
  BY DEF Peer, Side
<1>2. w \in Seq(Packets) /\ w # <<>> /\ t \in Nat
  BY DEF TypeOK, TakenAt, Arrived
<1>3. /\ Tail(w) \in Seq(Packets)
      /\ Len(Tail(w)) = Len(w) - 1
      /\ \A j \in 1..Len(w) - 1 : Tail(w)[j] = w[j + 1]
  BY <1>2
<1>4. wire'[c][s] = Tail(w) /\ wire'[c][p] = wire[c][p]
  BY <1>1 DEF Receive, TypeOK
<1>5. \A x \in Side : Broken(c, x) => Broken(c, x)'
  BY BrokenStays
<1>6. WireOK(c, s)'
  <2>1. Len(w) \in Nat \ {0}
    BY <1>2
  <2>2. \A j \in 1..Len(w) - 1 : Tail(w)[j] = Script(c, s)[t + 1 + j]
    <3>1. \A j \in 1..Len(w) : w[j] = Script(c, s)[t + j]
      BY DEF WireOK
    <3>2. \A j \in 1..Len(w) - 1 : j + 1 \in 1..Len(w) /\ t + (j + 1) = t + 1 + j
      BY <1>2, <2>1
    <3>. QED
      BY <1>3, <3>1, <3>2
  <2>. QED
    BY <1>1, <1>2, <1>3, <1>4, <1>5, <2>1, <2>2 DEF WireOK
<1>7. WireOK(c, p)'
  BY <1>1, <1>4, <1>5, WireUntouched
<1>8. wire' \in [Conn -> [Side -> Seq(Packets)]] /\ \A d \in Conn \ {c} : wire'[d] = wire[d]
  BY <1>3 DEF Receive, TypeOK
<1>. QED
  BY <1>6, <1>7, <1>8

(* What arrives first is the next packet of the script, and it was sent.    *)
LEMMA Arrives ==
    ASSUME NEW c \in Conn, NEW s \in Side, TypeOK, WireOK(c, s), Arrived(c, s), end[c][s] = "open"
    PROVE  /\ Packet(c, s) = Script(c, s)[TakenAt(s, at[c][s]) + 1]
           /\ TakenAt(s, at[c][s]) < GivenAt(Peer(s), at[c][Peer(s)])
<1>1. wire[c][s] \in Seq(Packets) /\ wire[c][s] # <<>>
  BY DEF TypeOK, Arrived
<1>2. Len(wire[c][s]) \in Nat \ {0} /\ Packet(c, s) = wire[c][s][1]
  BY <1>1 DEF Packet
<1>3. TakenAt(s, at[c][s]) \in Nat /\ GivenAt(Peer(s), at[c][Peer(s)]) \in Nat
  BY DEF TakenAt, GivenAt
<1>. QED
  BY <1>2, <1>3 DEF WireOK
-----------------------------------------------------------------------------
(* A step that neither sends nor takes a packet.                            *)
LEMMA Silent ==
    ASSUME NEW c \in Conn, ConnOK(c), wire' = wire,
           \A s \in Side : /\ TakenAt(s, at'[c][s]) = TakenAt(s, at[c][s])
                           /\ GivenAt(s, at'[c][s]) = GivenAt(s, at[c][s]),
           link[c] = "cut" => link'[c] = "cut",
           \A s \in Side : end[c][s] = "closed" => end'[c][s] = "closed"
    PROVE  WireOK(c, "in")' /\ WireOK(c, "out")'
<1>1. \A s \in Side : Broken(c, s) => Broken(c, s)'
  BY BrokenStays
<1>. QED
  BY <1>1, WireUntouched DEF ConnOK, Side, Peer

(* Nothing is sent, known or decided at first.                              *)
LEMMA InitHolds == Init => IInv
<1>. SUFFICES ASSUME Init PROVE IInv
  OBVIOUS
<1>1. TypeOK
  <2>1. /\ link \in [Conn -> {"down", "up", "cut"}]
        /\ tries \in [Conn -> 0..2]
        /\ at \in [Conn -> [Side -> 1..8]]
        /\ iState \in [Conn -> [Side -> {"WAIT", "ACCEPT", "REJECT"}]]
        /\ end \in [Conn -> [Side -> {"absent", "lost", "open", "client", "closed", "leaked"}]]
    BY DEF Init
  <2>2. met \in [Conn -> [Side -> {Name(c, s) : c \in Conn, s \in Side} \cup {NoName}]]
    BY DEF Init
  <2>3. wire \in [Conn -> [Side -> Seq(Packets)]]
    <3>1. <<>> \in Seq(Packets)
      OBVIOUS
    <3>. QED
      BY <3>1 DEF Init
  <2>4. \A c \in Conn, s \in Side : at[c][s] <= Len(Line(s)) + 1
    BY LineEnds DEF Init, Side, LineEnd
  <2>. QED
    BY <2>1, <2>2, <2>3, <2>4 DEF TypeOK
<1>2. ASSUME NEW c \in Conn
      PROVE  InOK(c) /\ OutOK(c) /\ \A s \in Side : end[c][s] # "leaked"
  <2>1. /\ link[c] = "down" /\ tries[c] = 0
        /\ at[c]["in"] = 1 /\ at[c]["out"] = 1
        /\ end[c]["in"] = "absent" /\ end[c]["out"] = "open"
        /\ iState[c]["in"] = "WAIT"
    BY <1>2 DEF Init, Side
  <2>. QED
    BY <2>1 DEF InOK, OutOK, Side
<1>3. ASSUME NEW c \in Conn, NEW s \in Side PROVE WireOK(c, s)
  <2>1. wire[c][s] = <<>> /\ Len(<<>>) = 0
    BY <1>3 DEF Init
  <2>2. at[c][s] = 1 /\ at[c][Peer(s)] = 1
    BY <1>3 DEF Init, Peer, Side
  <2>3. TakenAt(s, 1) = 0 /\ GivenAt(Peer(s), 1) = 0
    BY DEF TakenAt, GivenAt
  <2>. QED
    BY <2>1, <2>2, <2>3 DEF WireOK
<1>. QED
  BY <1>1, <1>2, <1>3 DEF IInv, ConnOK, Side

(* A connection attempt that succeeds.                                      *)
LEMMA ConnectKeeps ==
    ASSUME IInv, NEW c \in Conn, Connect(c)
    PROVE  IInv'
<1>1. TypeOK /\ ConnOK(c) /\ StatesOK /\ DataOK
  BY TypeParts DEF IInv
<1>2. end[c]["out"] = "open" /\ at[c]["out"] = 1
  BY <1>1, OutPositions DEF Connect
<1>3. /\ PositionsOK' /\ at'[c]["out"] = 2 /\ at'[c]["in"] = at[c]["in"]
      /\ \A d \in Conn \ {c} : at'[d] = at[d]
  BY <1>1, <1>2, OutAdvances DEF Connect
<1>4. /\ link' = [link EXCEPT ![c] = "up"] /\ link[c] = "down"
      /\ UNCHANGED <<tries, iState, met, end, wire>>
  BY <1>1, <1>2 DEF Connect, ConnOK, OutOK
<1>5. TypeOK'
  BY <1>1, <1>3, <1>4, TypePartsNext DEF StatesOK, DataOK
<1>6. InOK(c)' /\ OutOK(c)' /\ \A s \in Side : end'[c][s] # "leaked"
  BY <1>1, <1>2, <1>3, <1>4 DEF ConnOK, InOK, OutOK
<1>7. WireOK(c, "in")' /\ WireOK(c, "out")'
  BY <1>1, <1>2, <1>3, <1>4, Silent DEF Side, TakenAt, GivenAt
<1>8. OnlyAt(c)
  BY <1>1, <1>3, <1>4 DEF StatesOK, OnlyAt
<1>. QED
  BY <1>5, <1>6, <1>7, <1>8, OneConnection DEF ConnOK

(* A connection attempt that fails.                                         *)
LEMMA ConnectFailsKeeps ==
    ASSUME IInv, NEW c \in Conn, ConnectFails(c)
    PROVE  IInv'
<1>1. TypeOK /\ ConnOK(c) /\ PositionsOK /\ StatesOK /\ DataOK
  BY TypeParts DEF IInv
<1>2. end[c]["out"] = "open" /\ at[c]["out"] = 1 /\ tries[c] \in {0, 1}
  BY <1>1, OutPositions DEF ConnectFails, ConnOK, OutOK
<1>3. /\ tries' = [tries EXCEPT ![c] = @ + 1]
      /\ end' = end \/ end' = [end EXCEPT ![c]["out"] = "closed"]
      /\ tries[c] = 1 => end'[c]["out"] = "closed"
      /\ UNCHANGED <<link, at, iState, met, wire>>
  BY <1>1 DEF ConnectFails, Fault, StatesOK, Side
<1>4. StatesOK'
  <2>1. tries' \in [Conn -> 0..2]
    <3>1. tries \in [Conn -> 0..2] /\ tries[c] + 1 \in 0..2
      BY <1>1, <1>2 DEF StatesOK
    <3>. QED
      BY <1>3, <3>1
  <2>2. end' \in [Conn -> [Side -> {"absent", "lost", "open", "client", "closed", "leaked"}]]
    <3>1. end \in [Conn -> [Side -> {"absent", "lost", "open", "client", "closed", "leaked"}]]
      BY <1>1 DEF StatesOK
    <3>2. CASE end' = end
      BY <3>1, <3>2
    <3>3. CASE end' = [end EXCEPT ![c]["out"] = "closed"]
      BY <3>1, <3>3
    <3>. QED
      BY <1>3, <3>2, <3>3
  <2>. QED
    BY <1>1, <1>3, <2>1, <2>2 DEF StatesOK
<1>5. TypeOK'
  BY <1>1, <1>3, <1>4, TypePartsNext DEF PositionsOK, DataOK
<1>6. end'[c]["in"] = end[c]["in"] /\ end'[c]["out"] \in {end[c]["out"], "closed"}
  BY <1>1, <1>3 DEF StatesOK, Side
<1>7. tries'[c] = tries[c] + 1
  BY <1>1, <1>3 DEF StatesOK
<1>8. InOK(c)' /\ OutOK(c)' /\ \A s \in Side : end'[c][s] # "leaked"
  BY <1>1, <1>2, <1>3, <1>6, <1>7 DEF ConnOK, InOK, OutOK, Side
<1>9. WireOK(c, "in")' /\ WireOK(c, "out")'
  BY <1>1, <1>2, <1>3, <1>6, Silent DEF Side
<1>10. OnlyAt(c)
  BY <1>1, <1>3 DEF StatesOK, OnlyAt
<1>. QED
  BY <1>5, <1>8, <1>9, <1>10, OneConnection DEF ConnOK

(* A round of the incoming center changes nothing of a connection but that *)
(* its incoming side appears or is lost, and may be accepted at once.       *)
Appears(c) ==
    /\ end'[c]["out"] = end[c]["out"]
    /\ iState'[c]["out"] = iState[c]["out"]
    /\ \/ end'[c]["in"] = end[c]["in"] /\ iState'[c]["in"] = iState[c]["in"]
       \/ /\ end[c]["in"] = "absent" /\ end'[c]["in"] \in {"open", "lost"}
          /\ iState'[c]["in"] \in {iState[c]["in"], "ACCEPT"}

(* That is what a round does, to each connection and to the rest; all that  *)
(* appear but one are lost.                                                 *)
LEMMA Rounds ==
    ASSUME TypeOK, ListenPorts
    PROVE  /\ StatesOK' /\ UNCHANGED <<link, tries, at, met, wire>>
           /\ \A c \in Conn : Appears(c)
           /\ \E first \in Conn : \A c \in Conn \ {first} :
                 end'[c]["in"] # end[c]["in"] => end'[c]["in"] = "lost"
<1>1. PICK pushed \in SUBSET Arriving :
         \E port \in [pushed -> Port], first \in pushed : Listen(pushed, port, first)
  BY DEF ListenPorts
<1>2. PICK port \in [pushed -> Port], first \in pushed : Listen(pushed, port, first)
  BY <1>1
<1>3. /\ end' = [c \in Conn |-> [s \in Side |->
                  IF s = "out" \/ c \notin pushed THEN end[c][s]
                  ELSE IF c = first THEN "open" ELSE "lost"]]
      /\ iState' = [c \in Conn |-> [s \in Side |->
                     IF s = "in" /\ c \in pushed /\ port[c] \in AutoAccept
                     THEN "ACCEPT" ELSE iState[c][s]]]
      /\ UNCHANGED <<link, tries, at, met, wire>>
  BY <1>2 DEF Listen
<1>4. \A c \in pushed : end[c]["in"] = "absent"
  BY DEF Arriving
<1>5. StatesOK
  BY TypeParts
<1>6. StatesOK'
  BY <1>3, <1>5 DEF StatesOK
<1>7. ASSUME NEW c \in Conn PROVE Appears(c)
  <2>1. end'[c]["out"] = end[c]["out"] /\ iState'[c]["out"] = iState[c]["out"]
    BY <1>3 DEF Side
  <2>2. CASE c \in pushed
    <3>1. end[c]["in"] = "absent" /\ end'[c]["in"] \in {"open", "lost"}
      BY <1>3, <1>4, <2>2 DEF Side
    <3>2. iState'[c]["in"] \in {iState[c]["in"], "ACCEPT"}
      BY <1>3 DEF Side
    <3>. QED
      BY <2>1, <3>1, <3>2 DEF Appears
  <2>3. CASE c \notin pushed
    <3>1. end'[c]["in"] = end[c]["in"] /\ iState'[c]["in"] = iState[c]["in"]
      BY <1>3, <2>3 DEF Side
    <3>. QED
      BY <2>1, <3>1 DEF Appears
  <2>. QED
    BY <2>2, <2>3
<1>8. \A c \in Conn \ {first} : end'[c]["in"] # end[c]["in"] => end'[c]["in"] = "lost"
  BY <1>3 DEF Side
<1>9. first \in Conn
  BY DEF Arriving
<1>. QED
  BY <1>3, <1>6, <1>7, <1>8, <1>9

(* Whatever appears has not taken a step.                                   *)
LEMMA ListenKeeps == ASSUME IInv, ListenPorts PROVE IInv'
<1>1. TypeOK /\ PositionsOK /\ DataOK /\ \A c \in Conn : ConnOK(c)
  BY TypeParts DEF IInv
<1>2. StatesOK' /\ UNCHANGED <<link, tries, at, met, wire>> /\ \A c \in Conn : Appears(c)
  BY <1>1, Rounds
<1>3. TypeOK'
  BY <1>1, <1>2, TypePartsNext DEF PositionsOK, DataOK
<1>4. ASSUME NEW c \in Conn PROVE ConnOK(c)'
  <2>1. ConnOK(c) /\ Appears(c)
    BY <1>1, <1>2
  <2>2. InOK(c)' /\ OutOK(c)' /\ \A s \in Side : end'[c][s] # "leaked"
    BY <1>2, <2>1 DEF Appears, ConnOK, InOK, OutOK, Side
  <2>3. \A s \in Side : end[c][s] = "closed" => end'[c][s] = "closed"
    BY <2>1 DEF Appears, Side
  <2>4. WireOK(c, "in")' /\ WireOK(c, "out")'
    BY <1>2, <2>1, <2>3, Silent
  <2>. QED
    BY <2>2, <2>4 DEF ConnOK
<1>. QED
  BY <1>3, <1>4 DEF IInv

(* The application decides; only a side that waits can be decided about.    *)
LEMMA DecideKeeps ==
    ASSUME IInv, NEW c \in Conn, Accept(c) \/ Reject(c)
    PROVE  IInv'
<1>1. TypeOK /\ ConnOK(c) /\ PositionsOK /\ StatesOK /\ DataOK
  BY TypeParts DEF IInv
<1>2. PICK d \in {"ACCEPT", "REJECT"} : iState' = [iState EXCEPT ![c]["in"] = d]
  BY DEF Accept, Reject
<1>3. /\ iState[c]["in"] = "WAIT" /\ end[c]["in"] = "open"
      /\ UNCHANGED <<link, tries, at, met, end, wire>>
  BY DEF Accept, Reject
<1>4. StatesOK'
  BY <1>1, <1>2, <1>3 DEF StatesOK, Side
<1>5. TypeOK'
  BY <1>1, <1>3, <1>4, TypePartsNext DEF PositionsOK, DataOK
<1>6. iState'[c]["out"] = iState[c]["out"]
  BY <1>1, <1>2 DEF StatesOK, Side
<1>7. InOK(c)' /\ OutOK(c)' /\ \A s \in Side : end'[c][s] # "leaked"
  BY <1>1, <1>3, <1>6 DEF ConnOK, InOK, OutOK
<1>8. WireOK(c, "in")' /\ WireOK(c, "out")'
  BY <1>1, <1>3, Silent
<1>9. OnlyAt(c)
  BY <1>1, <1>2, <1>3 DEF StatesOK, OnlyAt
<1>. QED
  BY <1>5, <1>7, <1>8, <1>9, OneConnection DEF ConnOK

(* The network resets the connection.                                       *)
LEMMA CutKeeps ==
    ASSUME IInv, NEW c \in Conn, Cut(c)
    PROVE  IInv'
<1>1. TypeOK /\ ConnOK(c) /\ PositionsOK /\ StatesOK /\ DataOK
  BY TypeParts DEF IInv
<1>2. /\ link[c] = "up" /\ link' = [link EXCEPT ![c] = "cut"]
      /\ UNCHANGED <<tries, at, iState, met, end, wire>>
  BY DEF Cut
<1>3. StatesOK'
  BY <1>1, <1>2 DEF StatesOK
<1>4. TypeOK'
  BY <1>1, <1>2, <1>3, TypePartsNext DEF PositionsOK, DataOK
<1>5. InOK(c)' /\ OutOK(c)' /\ \A s \in Side : end'[c][s] # "leaked"
  BY <1>1, <1>2 DEF ConnOK, InOK, OutOK
<1>6. WireOK(c, "in")' /\ WireOK(c, "out")'
  BY <1>1, <1>2, Silent
<1>7. OnlyAt(c)
  BY <1>1, <1>2 DEF StatesOK, OnlyAt
<1>. QED
  BY <1>4, <1>5, <1>6, <1>7, OneConnection DEF ConnOK
-----------------------------------------------------------------------------
(* A side sends what it is its turn to send, or finds the connection broken. *)
LEMMA SendKeeps ==
    ASSUME IInv, NEW c \in Conn, NEW s \in Side, NEW pkt \in Packets,
           end[c][s] = "open",
           s = "out" => at[c][s] \in {2, 6},
           s = "in" => at[c][s] \in {1, 4, 6},
           pkt = Script(c, Peer(s))[GivenAt(s, at[c][s]) + 1],
           Send(c, s, pkt), UNCHANGED <<link, tries, iState, met>>
    PROVE  IInv'
<1>1. TypeOK /\ ConnOK(c) /\ PositionsOK /\ StatesOK /\ DataOK
  BY TypeParts DEF IInv
<1>2. Peer(s) \in Side /\ Peer(s) # s
  BY DEF Peer, Side
<1>3. WireOK(c, s) /\ WireOK(c, Peer(s))
  BY <1>1, <1>2 DEF ConnOK, Side
<1>4. /\ GivenAt(s, at[c][s] + 1) = GivenAt(s, at[c][s]) + 1
      /\ TakenAt(s, at[c][s] + 1) = TakenAt(s, at[c][s])
  BY DEF GivenAt, TakenAt, Side
<1>5. /\ WireOK(c, s)' /\ WireOK(c, Peer(s))'
      /\ wire' \in [Conn -> [Side -> Seq(Packets)]]
      /\ \A d \in Conn \ {c} : wire'[d] = wire[d]
  BY <1>1, <1>3, <1>4, Sends
<1>6. WireOK(c, "in")' /\ WireOK(c, "out")'
  BY <1>2, <1>5 DEF Side
<1>7. DataOK'
  BY <1>1, <1>5 DEF DataOK
<1>8. CASE Advance(c, s) /\ UNCHANGED end
  <2>1. /\ PositionsOK'
        /\ at'[c][s] = at[c][s] + 1 /\ at'[c][Peer(s)] = at[c][Peer(s)]
        /\ \A d \in Conn \ {c} : at'[d] = at[d]
    <3>1. at[c][s] < LineEnd(s)
      BY DEF LineEnd, Side
    <3>. QED
      BY <1>1, <1>8, <3>1, Advances
  <2>2. TypeOK'
    BY <1>1, <1>7, <1>8, <2>1, TypePartsNext DEF StatesOK
  <2>3. InOK(c)' /\ OutOK(c)' /\ \A x \in Side : end'[c][x] # "leaked"
    BY <1>1, <1>8, <2>1 DEF ConnOK, InOK, OutOK, Side, Peer
  <2>4. OnlyAt(c)
    BY <1>5, <1>8, <2>1 DEF OnlyAt
  <2>. QED
    BY <1>6, <2>2, <2>3, <2>4, OneConnection DEF ConnOK
<1>9. CASE Fault(c, s) /\ UNCHANGED <<at, wire>>
  <2>1. /\ end' \in [Conn -> [Side -> {"absent", "lost", "open", "client", "closed", "leaked"}]]
        /\ end'[c][s] = "closed" /\ end'[c][Peer(s)] = end[c][Peer(s)]
        /\ \A d \in Conn \ {c} : end'[d] = end[d]
    BY <1>1, <1>2, <1>9 DEF Fault, StatesOK
  <2>2. TypeOK'
    BY <1>1, <1>7, <1>9, <2>1, TypePartsNext DEF StatesOK, PositionsOK
  <2>3. InOK(c)' /\ OutOK(c)' /\ \A x \in Side : end'[c][x] # "leaked"
    BY <1>1, <1>9, <2>1 DEF ConnOK, InOK, OutOK, Side, Peer
  <2>4. OnlyAt(c)
    BY <1>9, <2>1 DEF OnlyAt
  <2>. QED
    BY <1>6, <2>2, <2>3, <2>4, OneConnection DEF ConnOK
<1>. QED
  BY <1>8, <1>9 DEF Send

(* A side tells its name.                                                   *)
LEMMA MeetSendKeeps ==
    ASSUME IInv, NEW c \in Conn, NEW s \in Side, MeetSend(c, s)
    PROVE  IInv'
<1>1. TypeOK
  BY DEF IInv
<1>. DEFINE pkt == [kind |-> "meet", name |-> Name(c, s)]
<1>2. pkt \in Packets
  BY DEF Packets
<1>3. /\ end[c][s] = "open"
      /\ s = "out" => at[c][s] = 2
      /\ s = "in" => at[c][s] = 1
  BY <1>1, OutPositions, InPositions DEF MeetSend, Side
<1>4. pkt = Script(c, Peer(s))[GivenAt(s, at[c][s]) + 1]
  <2>1. GivenAt(s, at[c][s]) + 1 = 1
    BY <1>3 DEF GivenAt, Side
  <2>2. CASE s = "out"
    BY <2>1, <2>2 DEF Script, Peer
  <2>3. CASE s = "in"
    BY <2>1, <2>3 DEF Script, Peer
  <2>. QED
    BY <2>2, <2>3 DEF Side
<1>. QED
  BY <1>2, <1>3, <1>4, SendKeeps DEF MeetSend, Side

(* The outgoing side sends its keys.                                        *)
LEMMA OutContentKeeps ==
    ASSUME IInv, NEW c \in Conn, OutContent(c)
    PROVE  IInv'
<1>1. end[c]["out"] = "open" /\ at[c]["out"] = 6
  BY OutPositions DEF OutContent, IInv
<1>2. [kind |-> "content"] \in Packets
  BY DEF Packets
<1>3. [kind |-> "content"] = Script(c, Peer("out"))[GivenAt("out", 6) + 1]
  BY DEF Script, Peer, GivenAt
<1>. QED
  BY <1>1, <1>2, <1>3, SendKeeps DEF OutContent, Side

(* The incoming side signs with the name it was given.                      *)
LEMMA InSignalKeeps ==
    ASSUME IInv, NEW c \in Conn, InSignal(c)
    PROVE  IInv'
<1>. DEFINE pkt == [kind |-> "signal", hash |-> Hash(PeerName(c), Name(c, "out"))]
<1>1. end[c]["in"] = "open" /\ at[c]["in"] = 4
  BY InPositions DEF InSignal, IInv
<1>2. met[c]["in"] = Name(c, "out")
  BY <1>1 DEF IInv, ConnOK, InOK
<1>3. pkt \in Packets
  BY DEF Packets, Hash, PeerName
<1>4. pkt = Script(c, Peer("in"))[GivenAt("in", 4) + 1]
  BY DEF Script, Peer, GivenAt
<1>. QED
  BY <1>1, <1>2, <1>3, <1>4, SendKeeps DEF InSignal, Side

(* The incoming side answers.                                               *)
LEMMA InAnswerKeeps ==
    ASSUME IInv, NEW c \in Conn, InAnswer(c)
    PROVE  IInv'
<1>1. end[c]["in"] = "open" /\ at[c]["in"] = 6
  BY InPositions DEF InAnswer, IInv
<1>2. [kind |-> "answer"] \in Packets
  BY DEF Packets
<1>3. [kind |-> "answer"] = Script(c, Peer("in"))[GivenAt("in", 6) + 1]
  BY DEF Script, Peer, GivenAt
<1>. QED
  BY <1>1, <1>2, <1>3, SendKeeps DEF InAnswer, Side
-----------------------------------------------------------------------------
(* A side takes a packet and goes on.                                       *)
LEMMA ReceiveKeeps ==
    ASSUME IInv, NEW c \in Conn, NEW s \in Side,
           end[c][s] = "open",
           s = "out" => at[c][s] \in {3, 5, 7},
           s = "in" => at[c][s] \in {2, 5},
           Arrived(c, s), Receive(c, s), Advance(c, s),
           UNCHANGED <<link, tries, end>>,
           iState' \in [Conn -> [Side -> {"WAIT", "ACCEPT", "REJECT"}]],
           met' \in [Conn -> [Side -> Names]],
           \A d \in Conn \ {c} : iState'[d] = iState[d] /\ met'[d] = met[d],
           InOK(c)', OutOK(c)'
    PROVE  IInv'
<1>1. TypeOK /\ ConnOK(c) /\ StatesOK /\ DataOK
  BY TypeParts DEF IInv
<1>2. Peer(s) \in Side /\ Peer(s) # s
  BY DEF Peer, Side
<1>3. /\ PositionsOK'
      /\ at'[c][s] = at[c][s] + 1 /\ at'[c][Peer(s)] = at[c][Peer(s)]
      /\ \A d \in Conn \ {c} : at'[d] = at[d]
  <2>1. at[c][s] < LineEnd(s)
    BY DEF LineEnd, Side
  <2>. QED
    BY <1>1, <2>1, Advances
<1>4. /\ TakenAt(s, at[c][s] + 1) = TakenAt(s, at[c][s]) + 1
      /\ GivenAt(s, at[c][s] + 1) = GivenAt(s, at[c][s])
  BY DEF GivenAt, TakenAt, Side
<1>5. WireOK(c, s) /\ WireOK(c, Peer(s))
  BY <1>1, <1>2 DEF ConnOK, Side
<1>6. /\ WireOK(c, s)' /\ WireOK(c, Peer(s))'
      /\ wire' \in [Conn -> [Side -> Seq(Packets)]]
      /\ \A d \in Conn \ {c} : wire'[d] = wire[d]
  BY <1>1, <1>3, <1>4, <1>5, Receives
<1>7. WireOK(c, "in")' /\ WireOK(c, "out")'
  BY <1>2, <1>6 DEF Side
<1>8. StatesOK' /\ DataOK'
  BY <1>1, <1>6 DEF StatesOK, DataOK
<1>9. TypeOK'
  BY <1>3, <1>8, TypePartsNext
<1>10. OnlyAt(c) /\ \A x \in Side : end'[c][x] # "leaked"
  BY <1>1, <1>3, <1>6 DEF OnlyAt, ConnOK
<1>. QED
  BY <1>7, <1>9, <1>10, OneConnection DEF ConnOK

(* A side keeps the name it is told.                                        *)
LEMMA MeetReceiveKeeps ==
    ASSUME IInv, NEW c \in Conn, NEW s \in Side, MeetReceive(c, s)
    PROVE  IInv'
<1>1. TypeOK /\ ConnOK(c) /\ PositionsOK /\ StatesOK /\ DataOK
  BY TypeParts DEF IInv
<1>2. /\ Arrived(c, s) /\ Receive(c, s) /\ Advance(c, s)
      /\ met' = [met EXCEPT ![c][s] = Packet(c, s).name]
      /\ UNCHANGED <<link, tries, iState, end>>
  BY DEF MeetReceive
<1>3. /\ end[c][s] = "open"
      /\ s = "out" => at[c][s] = 3
      /\ s = "in" => at[c][s] = 2
  BY <1>1, OutPositions, InPositions DEF MeetReceive, Side
<1>4. Packet(c, s).name = Name(c, Peer(s))
  <2>1. TakenAt(s, at[c][s]) + 1 = 1
    BY <1>3 DEF TakenAt, Side
  <2>2. Packet(c, s) = Script(c, s)[1]
    BY <1>1, <1>2, <1>3, <2>1, Arrives DEF ConnOK, Side
  <2>3. CASE s = "out"
    BY <2>2, <2>3 DEF Script, Peer
  <2>4. CASE s = "in"
    BY <2>2, <2>4 DEF Script, Peer
  <2>. QED
    BY <2>3, <2>4 DEF Side
<1>5. /\ met' \in [Conn -> [Side -> Names]]
      /\ met'[c][s] = Name(c, Peer(s)) /\ met'[c][Peer(s)] = met[c][Peer(s)]
      /\ \A d \in Conn \ {c} : met'[d] = met[d]
  <2>1. Name(c, Peer(s)) \in Names
    BY DEF Names, Side, Peer
  <2>2. Peer(s) # s /\ Peer(s) \in Side
    BY DEF Side, Peer
  <2>. QED
    BY <1>1, <1>2, <1>4, <2>1, <2>2 DEF DataOK
<1>6. CASE s = "out"
  <2>1. at'[c]["out"] = 4 /\ at'[c]["in"] = at[c]["in"]
    BY <1>1, <1>2, <1>3, <1>6, OutAdvances
  <2>2. met'[c]["out"] = Name(c, "in") /\ met'[c]["in"] = met[c]["in"]
    BY <1>5, <1>6 DEF Peer
  <2>3. InOK(c)' /\ OutOK(c)'
    BY <1>1, <1>2, <1>3, <1>6, <2>1, <2>2 DEF ConnOK, InOK, OutOK
  <2>. QED
    BY <1>1, <1>2, <1>3, <1>5, <1>6, <2>3, ReceiveKeeps DEF StatesOK
<1>7. CASE s = "in"
  <2>1. at'[c]["in"] = 3 /\ at'[c]["out"] = at[c]["out"]
    BY <1>1, <1>2, <1>3, <1>7, InAdvances
  <2>2. met'[c]["in"] = Name(c, "out") /\ met'[c]["out"] = met[c]["out"]
    BY <1>5, <1>7 DEF Peer
  <2>3. InOK(c)' /\ OutOK(c)'
    BY <1>1, <1>2, <1>3, <1>7, <2>1, <2>2 DEF ConnOK, InOK, OutOK
  <2>. QED
    BY <1>1, <1>2, <1>3, <1>5, <1>7, <2>3, ReceiveKeeps DEF StatesOK
<1>. QED
  BY <1>6, <1>7 DEF Side

(* The incoming side takes the keys.                                        *)
LEMMA InContentKeeps ==
    ASSUME IInv, NEW c \in Conn, InContent(c)
    PROVE  IInv'
<1>1. TypeOK /\ ConnOK(c) /\ PositionsOK /\ StatesOK /\ DataOK
  BY TypeParts DEF IInv
<1>2. end[c]["in"] = "open" /\ at[c]["in"] = 5
  BY <1>1, InPositions DEF InContent
<1>3. /\ Arrived(c, "in") /\ Receive(c, "in") /\ Advance(c, "in")
      /\ UNCHANGED <<link, tries, iState, met, end>>
  BY DEF InContent
<1>4. at'[c]["in"] = 6 /\ at'[c]["out"] = at[c]["out"]
  BY <1>1, <1>2, <1>3, InAdvances
<1>5. InOK(c)' /\ OutOK(c)'
  BY <1>1, <1>2, <1>3, <1>4 DEF ConnOK, InOK, OutOK
<1>. QED
  BY <1>1, <1>2, <1>3, <1>5, ReceiveKeeps DEF StatesOK, DataOK, Side

(* The outgoing side takes the answer.                                      *)
LEMMA OutAnswerKeeps ==
    ASSUME IInv, NEW c \in Conn, OutAnswer(c)
    PROVE  IInv'
<1>1. TypeOK /\ ConnOK(c) /\ PositionsOK /\ StatesOK /\ DataOK
  BY TypeParts DEF IInv
<1>2. end[c]["out"] = "open" /\ at[c]["out"] = 7
  BY <1>1, OutPositions DEF OutAnswer
<1>3. /\ Arrived(c, "out") /\ Receive(c, "out") /\ Advance(c, "out")
      /\ UNCHANGED <<link, tries, iState, met, end>>
  BY DEF OutAnswer
<1>4. at'[c]["out"] = 8 /\ at'[c]["in"] = at[c]["in"]
  BY <1>1, <1>2, <1>3, OutAdvances
<1>5. InOK(c)' /\ OutOK(c)'
  BY <1>1, <1>2, <1>3, <1>4 DEF ConnOK, InOK, OutOK
<1>. QED
  BY <1>1, <1>2, <1>3, <1>5, ReceiveKeeps DEF StatesOK, DataOK, Side

(* A side that gives up; what was on its way to it no longer matters.       *)
LEMMA GivesUp ==
    ASSUME IInv, NEW c \in Conn, NEW s \in Side, end[c][s] = "open",
           s = "in" => at[c][s] # 7,
           Fault(c, s), UNCHANGED <<link, tries, at, met>>,
           iState' \in [Conn -> [Side -> {"WAIT", "ACCEPT", "REJECT"}]],
           wire' \in [Conn -> [Side -> Seq(Packets)]],
           iState'[c][Peer(s)] = iState[c][Peer(s)],
           at[c][s] < 6 \/ iState'[c][s] = iState[c][s],
           s = "in" => iState'[c][s] = iState[c][s],
           wire'[c][Peer(s)] = wire[c][Peer(s)],
           \A d \in Conn \ {c} : iState'[d] = iState[d] /\ wire'[d] = wire[d]
    PROVE  IInv'
<1>1. TypeOK /\ ConnOK(c) /\ PositionsOK /\ StatesOK /\ DataOK
  BY TypeParts DEF IInv
<1>2. Peer(s) \in Side /\ Peer(s) # s /\ Peer(Peer(s)) = s
  BY DEF Peer, Side
<1>3. /\ end' \in [Conn -> [Side -> {"absent", "lost", "open", "client", "closed", "leaked"}]]
      /\ end'[c][s] = "closed" /\ end'[c][Peer(s)] = end[c][Peer(s)]
      /\ \A d \in Conn \ {c} : end'[d] = end[d]
  BY <1>1, <1>2 DEF Fault, StatesOK
<1>4. StatesOK' /\ DataOK' /\ PositionsOK'
  BY <1>1, <1>3 DEF StatesOK, DataOK, PositionsOK
<1>5. TypeOK'
  BY <1>4, TypePartsNext
<1>6. InOK(c)' /\ OutOK(c)' /\ \A x \in Side : end'[c][x] # "leaked"
  <2>1. InOK(c) /\ OutOK(c) /\ \A x \in Side : end[c][x] # "leaked"
    BY <1>1 DEF ConnOK
  <2>2. CASE s = "in"
    BY <1>3, <2>1, <2>2 DEF InOK, OutOK, Side, Peer
  <2>3. CASE s = "out"
    <3>1. at[c]["out"] \in 1..8
      BY <1>1 DEF PositionsOK, Side
    <3>. QED
      BY <1>3, <2>1, <2>3, <3>1 DEF InOK, OutOK, Side, Peer
  <2>. QED
    BY <2>2, <2>3 DEF Side
<1>7. WireOK(c, s)'
  BY <1>3 DEF WireOK
<1>8. WireOK(c, Peer(s))'
  <2>1. Broken(c, s) => Broken(c, s)'
    BY <1>2, <1>3 DEF Broken
  <2>2. WireOK(c, Peer(s))
    BY <1>1, <1>2 DEF ConnOK, Side
  <2>. QED
    BY <1>2, <1>3, <2>1, <2>2, WireUntouched
<1>9. WireOK(c, "in")' /\ WireOK(c, "out")'
  BY <1>2, <1>7, <1>8 DEF Side
<1>10. OnlyAt(c)
  BY <1>3 DEF OnlyAt
<1>. QED
  BY <1>5, <1>6, <1>9, <1>10, OneConnection DEF ConnOK

(* The outgoing side compares the signal.                                   *)
LEMMA OutSignalKeeps ==
    ASSUME IInv, NEW c \in Conn, OutSignal(c)
    PROVE  IInv'
<1>1. TypeOK /\ ConnOK(c) /\ PositionsOK /\ StatesOK /\ DataOK
  BY TypeParts DEF IInv
<1>2. end[c]["out"] = "open" /\ at[c]["out"] = 5
  BY <1>1, OutPositions DEF OutSignal
<1>3. Arrived(c, "out") /\ Receive(c, "out") /\ UNCHANGED <<link, tries, met>>
  BY DEF OutSignal
<1>4. Packet(c, "out").hash = Hash(PeerName(c), Name(c, "out"))
  <2>1. TakenAt("out", at[c]["out"]) + 1 = 2
    BY <1>2 DEF TakenAt
  <2>2. Packet(c, "out") = Script(c, "out")[2]
    BY <1>1, <1>2, <1>3, <2>1, Arrives DEF ConnOK, Side
  <2>. QED
    BY <2>2 DEF Script
<1>5. CASE Packet(c, "out").hash = Hash(LocalName(c), Name(c, "out"))
  <2>1. /\ iState' = [iState EXCEPT ![c]["out"] = "ACCEPT"]
        /\ Advance(c, "out") /\ UNCHANGED end
    BY <1>5 DEF OutSignal
  <2>2. c \notin Translated
    BY <1>4, <1>5 DEF Hash, LocalName, PeerName
  <2>3. at'[c]["out"] = 6 /\ at'[c]["in"] = at[c]["in"]
    BY <1>1, <1>2, <2>1, OutAdvances
  <2>4. /\ iState' \in [Conn -> [Side -> {"WAIT", "ACCEPT", "REJECT"}]]
        /\ iState'[c]["out"] = "ACCEPT" /\ iState'[c]["in"] = iState[c]["in"]
        /\ \A d \in Conn \ {c} : iState'[d] = iState[d]
    BY <1>1, <2>1 DEF StatesOK, Side
  <2>5. InOK(c)' /\ OutOK(c)'
    BY <1>1, <1>2, <1>3, <2>1, <2>2, <2>3, <2>4 DEF ConnOK, InOK, OutOK
  <2>. QED
    BY <1>1, <1>2, <1>3, <2>1, <2>4, <2>5, ReceiveKeeps DEF DataOK, Side
<1>6. CASE Packet(c, "out").hash # Hash(LocalName(c), Name(c, "out"))
  <2>1. /\ iState' = [iState EXCEPT ![c]["out"] = "REJECT"]
        /\ Fault(c, "out") /\ UNCHANGED at
    BY <1>6 DEF OutSignal
  <2>2. Peer("out") = "in" /\ "out" \in Side /\ "in" \in Side
    BY DEF Peer, Side
  <2>3. /\ iState' \in [Conn -> [Side -> {"WAIT", "ACCEPT", "REJECT"}]]
        /\ iState'[c]["in"] = iState[c]["in"]
        /\ \A d \in Conn \ {c} : iState'[d] = iState[d]
    BY <1>1, <2>1 DEF StatesOK, Side
  <2>4. /\ wire' \in [Conn -> [Side -> Seq(Packets)]]
        /\ wire'[c]["in"] = wire[c]["in"]
        /\ \A d \in Conn \ {c} : wire'[d] = wire[d]
    <3>1. wire[c]["out"] \in Seq(Packets) /\ wire[c]["out"] # <<>>
      BY <1>1, <1>3, <2>2 DEF Arrived, DataOK
    <3>2. Tail(wire[c]["out"]) \in Seq(Packets)
      BY <3>1
    <3>. QED
      BY <1>1, <1>3, <2>2, <3>2 DEF Receive, DataOK
  <2>5. /\ at[c]["out"] < 6
        /\ \A d \in Conn \ {c} : iState'[d] = iState[d] /\ wire'[d] = wire[d]
        /\ UNCHANGED <<link, tries, at, met>>
    BY <1>2, <1>3, <2>1, <2>3, <2>4
  <2>. QED
    BY <1>2, <2>1, <2>2, <2>3, <2>4, <2>5, GivesUp
<1>. QED
  BY <1>5, <1>6

(* A read fails.                                                            *)
LEMMA ReadFailsKeeps ==
    ASSUME IInv, NEW c \in Conn, NEW s \in Side, ReadFails(c, s)
    PROVE  IInv'
<1>1. TypeOK /\ ConnOK(c) /\ PositionsOK /\ StatesOK /\ DataOK
  BY TypeParts DEF IInv
<1>2. PICK step \in Reads(s) : Standing(c, s, step)
  BY DEF ReadFails
<1>3. end[c][s] = "open" /\ (s = "in" => at[c][s] # 7)
  BY <1>1, <1>2, OutPositions, InPositions DEF Side
<1>4. Fault(c, s) /\ UNCHANGED <<link, tries, at, iState, met, wire>>
  BY DEF ReadFails
<1>. QED
  BY <1>1, <1>3, <1>4, GivesUp DEF StatesOK, DataOK

(* A step that moves a side along without a packet.                         *)
LEMMA WaitKeeps ==
    ASSUME IInv, NEW c \in Conn, NEW s \in Side, end[c][s] = "open",
           s = "out" => at[c][s] = 4,
           s = "in" => at[c][s] = 3 /\ iState[c]["in"] = "ACCEPT",
           Advance(c, s), UNCHANGED <<link, tries, iState, met, end, wire>>
    PROVE  IInv'
<1>1. TypeOK /\ ConnOK(c) /\ PositionsOK /\ StatesOK /\ DataOK
  BY TypeParts DEF IInv
<1>2. /\ PositionsOK'
      /\ at'[c][s] = at[c][s] + 1 /\ at'[c][Peer(s)] = at[c][Peer(s)]
      /\ \A d \in Conn \ {c} : at'[d] = at[d]
  <2>1. at[c][s] < LineEnd(s)
    BY DEF LineEnd, Side
  <2>. QED
    BY <1>1, <2>1, Advances
<1>3. TypeOK'
  BY <1>1, <1>2, TypePartsNext DEF StatesOK, DataOK
<1>4. InOK(c)' /\ OutOK(c)' /\ \A x \in Side : end'[c][x] # "leaked"
  BY <1>1, <1>2 DEF ConnOK, InOK, OutOK, Side, Peer
<1>5. /\ TakenAt(s, at[c][s] + 1) = TakenAt(s, at[c][s])
      /\ GivenAt(s, at[c][s] + 1) = GivenAt(s, at[c][s])
  BY DEF TakenAt, GivenAt, Side
<1>6. \A x \in Side : /\ TakenAt(x, at'[c][x]) = TakenAt(x, at[c][x])
                      /\ GivenAt(x, at'[c][x]) = GivenAt(x, at[c][x])
  BY <1>2, <1>5 DEF Side, Peer
<1>7. WireOK(c, "in")' /\ WireOK(c, "out")'
  BY <1>1, <1>6, Silent
<1>8. OnlyAt(c)
  BY <1>2 DEF OnlyAt
<1>. QED
  BY <1>3, <1>4, <1>7, <1>8, OneConnection DEF ConnOK

(* The outgoing side sees the dialog begin.                                 *)
LEMMA OutWaitingKeeps ==
    ASSUME IInv, NEW c \in Conn, OutWaiting(c)
    PROVE  IInv'
<1>1. end[c]["out"] = "open" /\ at[c]["out"] = 4
  BY OutPositions DEF OutWaiting, IInv
<1>. QED
  BY <1>1, WaitKeeps DEF OutWaiting, Side

(* The incoming side acts on the decision.                                  *)
LEMMA InWaitingKeeps ==
    ASSUME IInv, NEW c \in Conn, InWaiting(c)
    PROVE  IInv'
<1>1. TypeOK /\ StatesOK /\ DataOK
  BY TypeParts DEF IInv
<1>2. end[c]["in"] = "open" /\ at[c]["in"] = 3
  BY <1>1, InPositions DEF InWaiting
<1>3. CASE iState[c]["in"] = "ACCEPT"
  BY <1>2, <1>3, WaitKeeps DEF InWaiting, Side
<1>4. CASE iState[c]["in"] # "ACCEPT"
  <2>1. Fault(c, "in") /\ UNCHANGED <<link, tries, at, iState, met, wire>>
    BY <1>4 DEF InWaiting
  <2>2. /\ Peer("in") = "out" /\ "in" \in Side
        /\ iState' \in [Conn -> [Side -> {"WAIT", "ACCEPT", "REJECT"}]]
        /\ wire' \in [Conn -> [Side -> Seq(Packets)]]
        /\ at[c]["in"] # 7
    BY <1>1, <1>2, <2>1 DEF Peer, StatesOK, DataOK, Side
  <2>3. \A d \in Conn \ {c} : iState'[d] = iState[d] /\ wire'[d] = wire[d]
    BY <2>1
  <2>. QED
    BY <1>2, <2>1, <2>2, <2>3, GivesUp
<1>. QED
  BY <1>3, <1>4

(* The end of a line: whoever gets there was accepted.                      *)
LEMMA FinishKeeps ==
    ASSUME IInv, NEW c \in Conn, NEW s \in Side, Finish(c, s)
    PROVE  IInv'
<1>1. TypeOK /\ ConnOK(c) /\ PositionsOK /\ StatesOK /\ DataOK
  BY TypeParts DEF IInv
<1>2. end[c][s] = "open" /\ at[c][s] = LineEnd(s)
  BY LineEnds DEF Finish
<1>3. iState[c][s] = "ACCEPT"
  BY <1>1, <1>2 DEF ConnOK, InOK, OutOK, LineEnd, Side
<1>4. end' = [end EXCEPT ![c][s] = "client"] /\ UNCHANGED <<link, tries, at, iState, met, wire>>
  BY <1>3 DEF Finish
<1>5. Peer(s) \in Side /\ Peer(s) # s
  BY DEF Peer, Side
<1>6. /\ end' \in [Conn -> [Side -> {"absent", "lost", "open", "client", "closed", "leaked"}]]
      /\ end'[c][s] = "client" /\ end'[c][Peer(s)] = end[c][Peer(s)]
      /\ \A d \in Conn \ {c} : end'[d] = end[d]
  BY <1>1, <1>4, <1>5 DEF StatesOK
<1>7. TypeOK'
  BY <1>1, <1>4, <1>6, TypePartsNext DEF StatesOK, DataOK, PositionsOK
<1>8. InOK(c)' /\ OutOK(c)' /\ \A x \in Side : end'[c][x] # "leaked"
  BY <1>1, <1>2, <1>4, <1>6 DEF ConnOK, InOK, OutOK, Side, Peer, LineEnd
<1>9. \A x \in Side : end[c][x] = "closed" => end'[c][x] = "closed"
  BY <1>2, <1>6 DEF Side, Peer
<1>10. WireOK(c, "in")' /\ WireOK(c, "out")'
  BY <1>1, <1>4, <1>9, Silent
<1>11. OnlyAt(c)
  BY <1>4, <1>6 DEF OnlyAt
<1>. QED
  BY <1>7, <1>8, <1>10, <1>11, OneConnection DEF ConnOK
-----------------------------------------------------------------------------
(* The invariant is inductive.                                              *)
LEMMA StepKeeps == IInv /\ [Next]_vars => IInv'
<1>. SUFFICES ASSUME IInv, [Next]_vars PROVE IInv'
  OBVIOUS
<1>1. CASE UNCHANGED vars
  BY <1>1 DEF vars, IInv, TypeOK, ConnOK, InOK, OutOK, WireOK, Broken, Standing
<1>2. ASSUME NEW c \in Conn, NEW s \in Side, Process(c, s) PROVE IInv'
  BY <1>2, MeetSendKeeps, MeetReceiveKeeps, ReadFailsKeeps, FinishKeeps DEF Process
<1>3. ASSUME NEW c \in Conn, OutStep(c) PROVE IInv'
  BY <1>2, <1>3, ConnectKeeps, ConnectFailsKeeps, OutWaitingKeeps, OutSignalKeeps,
     OutContentKeeps, OutAnswerKeeps DEF OutStep, Side
<1>4. ASSUME NEW c \in Conn, InStep(c) PROVE IInv'
  BY <1>2, <1>4, InWaitingKeeps, InSignalKeeps, InContentKeeps, InAnswerKeeps DEF InStep, Side
<1>. QED
  BY <1>1, <1>3, <1>4, ListenKeeps, DecideKeeps, CutKeeps DEF Next

(* The invariant holds of every behaviour.                                  *)
LEMMA Invariance == Spec => []IInv
<1>1. Init => IInv
  BY InitHolds
<1>2. IInv /\ [Next]_vars => IInv'
  BY StepKeeps
<1>. QED
  BY <1>1, <1>2, PTL DEF Spec

(* The variables keep their types, whatever the connections.                *)
THEOREM TypeCorrect == Spec => []TypeOK
<1>1. IInv => TypeOK
  BY DEF IInv
<1>. QED
  BY <1>1, Invariance, PTL

(* No connection object is deleted with its connector open: whoever reaches *)
(* the end of its line has been accepted.                                   *)
THEOREM NothingLeaks == Spec => []NothingLeaked
<1>1. IInv => NothingLeaked
  BY DEF IInv, ConnOK, NothingLeaked
<1>. QED
  BY <1>1, Invariance, PTL

(* Whoever became a client on the outgoing side was accepted, by a peer     *)
(* that knows its name, sees its address and has reached the end as well.   *)
THEOREM MutualHolds == Spec => []Mutual
<1>1. IInv => Mutual
  <2>. SUFFICES ASSUME IInv, NEW c \in Conn, end[c]["out"] = "client"
                PROVE  /\ iState[c]["in"] = "ACCEPT"
                       /\ met[c]["in"] = Name(c, "out") /\ met[c]["out"] = Name(c, "in")
                       /\ c \notin Translated
                       /\ end[c]["in"] \in {"open", "client"} /\ at[c]["in"] > Len(InLine)
    BY DEF Mutual
  <2>1. TypeOK /\ ConnOK(c)
    BY DEF IInv
  <2>2. at[c]["out"] = 8 /\ at[c]["in"] \in 1..7
    BY <2>1, TypeParts DEF ConnOK, OutOK, PositionsOK, Side, LineEnd
  <2>3. at[c]["in"] = 7
    <3>1. wire[c]["out"] \in Seq(Packets)
      BY <2>1 DEF TypeOK, Side
    <3>2. TakenAt("out", 8) + Len(wire[c]["out"]) <= GivenAt("in", at[c]["in"])
      BY <2>1, <2>2 DEF ConnOK, WireOK, Peer
    <3>3. 3 <= GivenAt("in", at[c]["in"])
      BY <2>2, <3>1, <3>2 DEF TakenAt, GivenAt
    <3>. QED
      BY <2>2, <3>3 DEF GivenAt
  <2>4. Len(InLine) = 6
    BY DEF InLine
  <2>. QED
    BY <2>1, <2>2, <2>3, <2>4 DEF ConnOK, InOK, OutOK
<1>. QED
  BY <1>1, Invariance, PTL
-----------------------------------------------------------------------------
(* The dialog follows its contract.  The two scripts pace the sides: nobody *)
(* stands past a packet the other side has not given, closed or not.        *)
Paced(c) == \A s \in Side : TakenAt(s, at[c][s]) <= GivenAt(Peer(s), at[c][Peer(s)])

RInv == IInv /\ \A c \in Conn : Paced(c)

(* What a step is to the contract: a side goes on along its line, a side    *)
(* gives up, a side ends its line, the application decides, or nothing.     *)
DecisionsStay == \A d \in Conn : iState'[d]["in"] = iState[d]["in"]

Goes(c, s) ==
    /\ end[c][s] = "open" /\ at[c][s] < LineEnd(s)
    /\ Advance(c, s) /\ UNCHANGED end /\ DecisionsStay

Leaves(c, s) ==
    /\ end[c][s] = "open" /\ at[c][s] < LineEnd(s)
    /\ Fault(c, s) /\ UNCHANGED at /\ DecisionsStay

Answers(c) ==
    /\ iState[c]["in"] = "WAIT"
    /\ \E d \in {"ACCEPT", "REJECT"} : iState' = [iState EXCEPT ![c]["in"] = d]
    /\ UNCHANGED <<at, end>>

Rests == UNCHANGED <<at, end>> /\ DecisionsStay

(* A side standing at a step has not reached the end of its line.           *)
LEMMA BeforeEnd ==
    ASSUME TypeOK, NEW c \in Conn, NEW s \in Side, NEW step, Standing(c, s, step)
    PROVE  end[c][s] = "open" /\ at[c][s] < LineEnd(s)
<1>1. CASE s = "out"
  BY <1>1, OutPositions DEF LineEnd
<1>2. CASE s = "in"
  BY <1>2, InPositions DEF LineEnd
<1>. QED
  BY <1>1, <1>2 DEF Side

(* A side that sends goes on or gives up.                                   *)
LEMMA SendKind ==
    ASSUME TypeOK, NEW c \in Conn, NEW s \in Side, NEW step, Standing(c, s, step),
           NEW pkt, Send(c, s, pkt), UNCHANGED iState
    PROVE  Goes(c, s) \/ Leaves(c, s)
BY BeforeEnd DEF Send, Goes, Leaves, DecisionsStay

(* What the two sides do in their lines.                                    *)
LEMMA ProcessKind ==
    ASSUME TypeOK, NEW c \in Conn, NEW s \in Side, Process(c, s)
    PROVE  Goes(c, s) \/ Leaves(c, s) \/ Finish(c, s)
<1>1. CASE MeetSend(c, s)
  BY <1>1, SendKind DEF MeetSend
<1>2. CASE MeetReceive(c, s)
  BY <1>2, BeforeEnd DEF MeetReceive, Goes, DecisionsStay
<1>3. CASE ReadFails(c, s)
  BY <1>3, BeforeEnd DEF ReadFails, Leaves, DecisionsStay
<1>. QED
  BY <1>1, <1>2, <1>3 DEF Process

(* The outgoing side.                                                       *)
LEMMA OutKind ==
    ASSUME TypeOK, NEW c \in Conn, OutStep(c)
    PROVE  Goes(c, "out") \/ Leaves(c, "out") \/ Finish(c, "out") \/ Rests
<1>. "out" \in Side
  BY DEF Side
<1>1. CASE Connect(c)
  BY <1>1, BeforeEnd DEF Connect, Goes, DecisionsStay
<1>2. CASE ConnectFails(c)
  BY <1>2, BeforeEnd DEF ConnectFails, Leaves, Rests, DecisionsStay
<1>3. CASE OutWaiting(c)
  BY <1>3, BeforeEnd DEF OutWaiting, Goes, DecisionsStay
<1>4. CASE OutSignal(c)
  <2>1. PICK x \in {"ACCEPT", "REJECT"} : iState' = [iState EXCEPT ![c]["out"] = x]
    BY <1>4 DEF OutSignal
  <2>2. iState \in [Conn -> [Side -> {"WAIT", "ACCEPT", "REJECT"}]]
    BY DEF TypeOK
  <2>3. DecisionsStay
    BY <2>1, <2>2 DEF Side, DecisionsStay
  <2>. QED
    BY <1>4, <2>3, BeforeEnd DEF OutSignal, Goes, Leaves
<1>5. CASE OutContent(c)
  BY <1>5, SendKind DEF OutContent
<1>6. CASE OutAnswer(c)
  BY <1>6, BeforeEnd DEF OutAnswer, Goes, DecisionsStay
<1>. QED
  BY <1>1, <1>2, <1>3, <1>4, <1>5, <1>6, ProcessKind DEF OutStep

(* The incoming side.                                                       *)
LEMMA InKind ==
    ASSUME TypeOK, NEW c \in Conn, InStep(c)
    PROVE  Goes(c, "in") \/ Leaves(c, "in") \/ Finish(c, "in")
<1>. "in" \in Side
  BY DEF Side
<1>1. CASE InWaiting(c)
  BY <1>1, BeforeEnd DEF InWaiting, Goes, Leaves, DecisionsStay
<1>2. CASE InSignal(c)
  BY <1>2, SendKind DEF InSignal
<1>3. CASE InContent(c)
  BY <1>3, BeforeEnd DEF InContent, Goes, DecisionsStay
<1>4. CASE InAnswer(c)
  BY <1>4, SendKind DEF InAnswer
<1>. QED
  BY <1>1, <1>2, <1>3, <1>4, ProcessKind DEF InStep

(* Every step is of one of these kinds.                                     *)
LEMMA Kinds ==
    ASSUME TypeOK, Next
    PROVE  \/ ListenPorts
           \/ \E c \in Conn : \/ \E s \in Side : Goes(c, s) \/ Leaves(c, s) \/ Finish(c, s)
                              \/ Answers(c) \/ Rests
<1>. SUFFICES ASSUME ~ListenPorts
              PROVE  \E c \in Conn : \/ \E s \in Side : Goes(c, s) \/ Leaves(c, s) \/ Finish(c, s)
                                     \/ Answers(c) \/ Rests
  OBVIOUS
<1>. "in" \in Side /\ "out" \in Side
  BY DEF Side
<1>1. PICK c \in Conn : OutStep(c) \/ InStep(c) \/ Accept(c) \/ Reject(c) \/ Cut(c)
  BY DEF Next
<1>2. CASE Accept(c) \/ Reject(c)
  BY <1>2 DEF Accept, Reject, Answers
<1>3. CASE Cut(c)
  BY <1>3 DEF Cut, Rests, DecisionsStay
<1>. QED
  BY <1>1, <1>2, <1>3, OutKind, InKind
-----------------------------------------------------------------------------
(* Where the two sides can stand together, and what has then been said.     *)
LEMMA Dialog ==
    ASSUME IInv, NEW c \in Conn, Paced(c)
    PROVE  /\ at[c]["out"] \in 1..8 /\ at[c]["in"] \in 1..7
           /\ at[c]["out"] >= 6 => at[c]["in"] >= 5
           /\ at[c]["in"] >= 6 => at[c]["out"] >= 7
           /\ at[c]["out"] = 8 => at[c]["in"] = 7
<1>1. at[c]["out"] \in 1..8 /\ at[c]["in"] \in 1..7
  BY TypeParts DEF IInv, PositionsOK, LineEnd, Side
<1>2. /\ TakenAt("out", at[c]["out"]) <= GivenAt("in", at[c]["in"])
      /\ TakenAt("in", at[c]["in"]) <= GivenAt("out", at[c]["out"])
  BY DEF Paced, Side, Peer
<1>. QED
  BY <1>1, <1>2 DEF TakenAt, GivenAt

(* The same of the next state.                                              *)
LEMMA DialogNext ==
    ASSUME IInv', NEW c \in Conn, Paced(c)'
    PROVE  /\ at'[c]["out"] \in 1..8 /\ at'[c]["in"] \in 1..7
           /\ at'[c]["out"] >= 6 => at'[c]["in"] >= 5
           /\ at'[c]["in"] >= 6 => at'[c]["out"] >= 7
           /\ at'[c]["out"] = 8 => at'[c]["in"] = 7
<1>1. at'[c]["out"] \in 1..8 /\ at'[c]["in"] \in 1..7
  BY TypePartsNext DEF IInv, PositionsOK, LineEnd, Side
<1>2. /\ TakenAt("out", at'[c]["out"]) <= GivenAt("in", at'[c]["in"])
      /\ TakenAt("in", at'[c]["in"]) <= GivenAt("out", at'[c]["out"])
  BY DEF Paced, Side, Peer
<1>. QED
  BY <1>1, <1>2 DEF TakenAt, GivenAt

(* The pace is kept: a side that goes on took a packet that was given.      *)
LEMMA PaceKept ==
    ASSUME IInv, IInv', NEW c \in Conn, Paced(c),
           \A s \in Side : \/ at'[c][s] = at[c][s]
                           \/ at'[c][s] = at[c][s] + 1 /\ end'[c][s] = "open"
    PROVE  Paced(c)'
<1>. SUFFICES ASSUME NEW s \in Side
              PROVE  TakenAt(s, at'[c][s]) <= GivenAt(Peer(s), at'[c][Peer(s)])
  BY DEF Paced
<1>. DEFINE p == Peer(s)
<1>1. p \in Side /\ at[c][s] \in 1..8 /\ at[c][p] \in 1..8 /\ at'[c][p] \in 1..8
  BY TypeParts, TypePartsNext DEF IInv, PositionsOK, Peer, Side
<1>2. CASE at'[c][s] = at[c][s]
  <2>1. at'[c][p] = at[c][p] \/ at'[c][p] = at[c][p] + 1
    BY <1>1
  <2>2. GivenAt(p, at[c][p]) <= GivenAt(p, at'[c][p])
    BY <1>1, <2>1 DEF GivenAt
  <2>3. TakenAt(s, at[c][s]) <= GivenAt(p, at[c][p])
    BY DEF Paced
  <2>4. TakenAt(s, at[c][s]) \in Nat /\ GivenAt(p, at[c][p]) \in Nat
        /\ GivenAt(p, at'[c][p]) \in Nat
    BY DEF TakenAt, GivenAt
  <2>. QED
    BY <1>2, <2>2, <2>3, <2>4
<1>3. CASE end'[c][s] = "open"
  <2>1. WireOK(c, s)' /\ wire'[c][s] \in Seq(Packets)
    BY DEF IInv, ConnOK, TypeOK, Side
  <2>2. TakenAt(s, at'[c][s]) + Len(wire'[c][s]) <= GivenAt(p, at'[c][p])
    BY <1>3, <2>1 DEF WireOK
  <2>3. Len(wire'[c][s]) \in Nat
    BY <2>1
  <2>4. TakenAt(s, at'[c][s]) \in Nat /\ GivenAt(p, at'[c][p]) \in Nat
    BY DEF TakenAt, GivenAt
  <2>. QED
    BY <2>2, <2>3, <2>4
<1>. QED
  BY <1>2, <1>3

(* Nothing of connection c changes that the contract sees.                  *)
Quiet(c) ==
    /\ Decision(c)' = Decision(c)
    /\ Said(c)' = Said(c)
    /\ \A s \in Side : Result(c, s)' = Result(c, s)

(* The steps of the contract at one connection.                             *)
Decides(c) ==
    /\ Decision(c) = "WAIT" /\ Decision(c)' \in {"ACCEPT", "REJECT"}
    /\ Said(c)' = Said(c) /\ \A s \in Side : Result(c, s)' = Result(c, s)

Says(c) ==
    /\ Decision(c) = "ACCEPT" /\ Said(c) < 3 /\ Said(c)' = Said(c) + 1
    /\ Result(c, IF Said(c) = 1 THEN "out" ELSE "in") = "open"
    /\ Decision(c)' = Decision(c) /\ \A s \in Side : Result(c, s)' = Result(c, s)

Ends(c, s) ==
    /\ Result(c, s) = "open"
    /\ \/ Result(c, s)' = "client" /\ Said(c) = 3
       \/ Result(c, s)' = "closed" /\ (s = "in" => Said(c) < 3)
    /\ Result(c, Peer(s))' = Result(c, Peer(s))
    /\ Decision(c)' = Decision(c) /\ Said(c)' = Said(c)

ContractVars == <<[c \in Conn |-> Decision(c)], [c \in Conn |-> Said(c)],
                  [c \in Conn |-> [s \in Side |-> Result(c, s)]]>>

(* If the other connections are quiet, they are steps of the contract.      *)
LEMMA ContractStep ==
    ASSUME NEW c \in Conn, \A d \in Conn \ {c} : Quiet(d),
           Quiet(c) \/ Decides(c) \/ Says(c) \/ \E s \in Side : Ends(c, s)
    PROVE  [Contract!Next]_ContractVars
<1>. DEFINE D == [d \in Conn |-> Decision(d)]
            S == [d \in Conn |-> Said(d)]
            R == [d \in Conn |-> [s \in Side |-> Result(d, s)]]
<1>1. CASE Quiet(c)
  <2>1. \A d \in Conn : Quiet(d)
    BY <1>1
  <2>. QED
    BY <2>1 DEF Quiet, ContractVars
<1>2. CASE Decides(c)
  <2>1. S' = S /\ R' = R
    BY <1>2 DEF Quiet, Decides
  <2>2. D' = [D EXCEPT ![c] = Decision(c)']
    BY DEF Quiet
  <2>. QED
    BY <1>2, <2>1, <2>2 DEF Decides, Contract!Next, Contract!Decide
<1>3. CASE Says(c)
  <2>1. D' = D /\ R' = R
    BY <1>3 DEF Quiet, Says
  <2>2. S' = [S EXCEPT ![c] = @ + 1]
    BY <1>3 DEF Quiet, Says
  <2>3. R[c][IF S[c] = 1 THEN "out" ELSE "in"] = "open"
    BY <1>3 DEF Says, Side
  <2>. QED
    BY <1>3, <2>1, <2>2, <2>3 DEF Says, Contract!Next, Contract!Say
<1>4. ASSUME NEW s \in Side, Ends(c, s) PROVE Contract!Next
  <2>1. D' = D /\ S' = S
    BY <1>4 DEF Quiet, Ends
  <2>2. R' = [R EXCEPT ![c][s] = Result(c, s)']
    <3>1. \A x \in Side : x = s \/ x = Peer(s)
      BY DEF Side, Peer
    <3>2. \A d \in Conn, x \in Side :
             Result(d, x)' = IF d = c /\ x = s THEN Result(c, s)' ELSE Result(d, x)
      BY <1>4, <3>1 DEF Quiet, Ends
    <3>. QED
      BY <3>2
  <2>3. R[c][s] = "open" /\ S[c] = Said(c) /\ s \in Contract!Side
    BY <1>4 DEF Ends, Contract!Side, Side
  <2>4. Contract!Join(c, s) \/ Contract!Close(c, s)
    BY <1>4, <2>1, <2>2, <2>3 DEF Ends, Contract!Join, Contract!Close
  <2>. QED
    BY <2>3, <2>4 DEF Contract!Next
<1>. QED
  BY <1>1, <1>2, <1>3, <1>4
-----------------------------------------------------------------------------
(* A connection where nobody moved is quiet.                                *)
LEMMA Still ==
    ASSUME NEW c \in Conn, at'[c] = at[c], end'[c] = end[c], iState'[c]["in"] = iState[c]["in"]
    PROVE  Quiet(c)
BY DEF Quiet, Decision, Processed, Said, Result

(* A side goes on: it says the next word of the dialog or nothing.          *)
LEMMA GoesFollows ==
    ASSUME IInv, IInv', NEW c \in Conn, NEW s \in Side, Paced(c), Goes(c, s)
    PROVE  Paced(c)' /\ (Quiet(c) \/ Says(c)) /\ \A d \in Conn \ {c} : Quiet(d)
<1>1. TypeOK /\ InOK(c) /\ end' = end /\ DecisionsStay /\ end[c][s] = "open"
  BY DEF IInv, ConnOK, Goes
<1>2. /\ at'[c][s] = at[c][s] + 1 /\ at'[c][Peer(s)] = at[c][Peer(s)]
      /\ \A d \in Conn \ {c} : at'[d] = at[d]
  BY <1>1, Advances DEF Goes
<1>3. Paced(c)'
  BY <1>1, <1>2, PaceKept DEF Side, Peer
<1>4. /\ at[c]["out"] \in 1..8 /\ at[c]["in"] \in 1..7
      /\ at[c]["out"] >= 6 => at[c]["in"] >= 5
      /\ at[c]["in"] >= 6 => at[c]["out"] >= 7
      /\ at[c]["out"] = 8 => at[c]["in"] = 7
  BY Dialog
<1>5. /\ at'[c]["out"] \in 1..8 /\ at'[c]["in"] \in 1..7
      /\ at'[c]["out"] >= 6 => at'[c]["in"] >= 5
      /\ at'[c]["in"] >= 6 => at'[c]["out"] >= 7
      /\ at'[c]["out"] = 8 => at'[c]["in"] = 7
  BY <1>3, DialogNext
<1>6. /\ Decision(c)' = Decision(c)
      /\ \A x \in Side : Result(c, x)' = Result(c, x)
  BY <1>1 DEF DecisionsStay, Decision, Processed, Result
<1>7. at[c]["in"] >= 4 => Decision(c) = "ACCEPT"
  BY <1>1 DEF InOK, Decision, Processed
<1>8. ASSUME s = "out" PROVE Quiet(c) \/ Says(c)
  <2>1. at'[c]["out"] = at[c]["out"] + 1 /\ at'[c]["in"] = at[c]["in"]
    BY <1>2, <1>8 DEF Peer
  <2>2. CASE at[c]["out"] = 6
    <3>1. at[c]["in"] = 5
      BY <1>4, <2>2
    <3>2. Said(c) = 1 /\ Said(c)' = 2
      BY <2>1, <2>2, <3>1 DEF Said
    <3>3. Decision(c) = "ACCEPT" /\ Result(c, "out") = "open"
      BY <1>1, <1>7, <1>8, <3>1 DEF Result
    <3>. QED
      BY <1>6, <3>2, <3>3 DEF Says
  <2>3. CASE at[c]["out"] # 6
    <3>1. Said(c)' = Said(c)
      BY <1>4, <1>5, <2>1, <2>3 DEF Said
    <3>. QED
      BY <1>6, <3>1 DEF Quiet
  <2>. QED
    BY <2>2, <2>3
<1>9. ASSUME s = "in" PROVE Quiet(c) \/ Says(c)
  <2>1. at'[c]["in"] = at[c]["in"] + 1 /\ at'[c]["out"] = at[c]["out"]
    BY <1>2, <1>9 DEF Peer
  <2>2. CASE at[c]["in"] \in {4, 6}
    <3>1. /\ at[c]["in"] = 4 => Said(c) = 0 /\ Said(c)' = 1
          /\ at[c]["in"] = 6 => Said(c) = 2 /\ Said(c)' = 3
      BY <1>4, <1>5, <2>1 DEF Said
    <3>2. Decision(c) = "ACCEPT" /\ Result(c, "in") = "open"
      BY <1>1, <1>7, <1>9, <2>2 DEF Result
    <3>. QED
      BY <1>6, <2>2, <3>1, <3>2 DEF Says
  <2>3. CASE at[c]["in"] \notin {4, 6}
    <3>1. Said(c)' = Said(c)
      BY <1>4, <1>5, <2>1, <2>3 DEF Said
    <3>. QED
      BY <1>6, <3>1 DEF Quiet
  <2>. QED
    BY <2>2, <2>3
<1>10. \A d \in Conn \ {c} : Quiet(d)
  BY <1>1, <1>2, Still DEF DecisionsStay
<1>. QED
  BY <1>3, <1>8, <1>9, <1>10 DEF Side

(* A side gives up; the incoming one only before its answer.                *)
LEMMA LeavesFollows ==
    ASSUME IInv, NEW c \in Conn, NEW s \in Side, Paced(c), Leaves(c, s)
    PROVE  Ends(c, s) /\ \A d \in Conn \ {c} : Quiet(d)
<1>1. TypeOK /\ at' = at /\ DecisionsStay /\ end[c][s] = "open" /\ Fault(c, s)
  BY DEF IInv, Leaves
<1>2. /\ end'[c][s] = "closed" /\ end'[c][Peer(s)] = end[c][Peer(s)]
      /\ \A d \in Conn \ {c} : end'[d] = end[d]
  BY <1>1 DEF Fault, TypeOK, Side, Peer
<1>3. s = "in" => Said(c) < 3
  <2>1. at[c]["in"] \in 1..7 /\ (s = "in" => at[c]["in"] < 7)
    BY Dialog DEF Leaves, LineEnd
  <2>. QED
    BY <2>1 DEF Said
<1>4. /\ Decision(c)' = Decision(c) /\ Said(c)' = Said(c)
      /\ Result(c, Peer(s))' = Result(c, Peer(s))
      /\ Result(c, s) = "open" /\ Result(c, s)' = "closed"
  <2>1. end'[c]["in"] = "lost" <=> end[c]["in"] = "lost"
    BY <1>1, <1>2 DEF Side, Peer
  <2>2. Decision(c)' = Decision(c)
    BY <1>1, <2>1 DEF DecisionsStay, Decision, Processed
  <2>. QED
    BY <1>1, <1>2, <2>2 DEF Said, Result
<1>5. \A d \in Conn \ {c} : Quiet(d)
  BY <1>1, <1>2, Still DEF DecisionsStay
<1>. QED
  BY <1>3, <1>4, <1>5 DEF Ends

(* A side that ends its line joins; the answer was sent.                    *)
LEMMA FinishFollows ==
    ASSUME IInv, IInv', NEW c \in Conn, NEW s \in Side, Paced(c), Finish(c, s)
    PROVE  at' = at /\ Ends(c, s) /\ \A d \in Conn \ {c} : Quiet(d)
<1>1. TypeOK /\ at' = at /\ DecisionsStay /\ end[c][s] = "open"
  BY DEF IInv, Finish, DecisionsStay
<1>2. /\ end'[c][s] \in {"client", "leaked"} /\ end'[c][Peer(s)] = end[c][Peer(s)]
      /\ \A d \in Conn \ {c} : end'[d] = end[d]
  BY <1>1 DEF Finish, TypeOK, Side, Peer
<1>3. end'[c][s] = "client"
  BY <1>2 DEF IInv, ConnOK
<1>4. Said(c) = 3
  <2>1. at[c][s] = LineEnd(s)
    BY LineEnds DEF Finish
  <2>2. at[c]["in"] = 7
    BY <2>1, Dialog DEF LineEnd, Side
  <2>. QED
    BY <2>2 DEF Said
<1>5. /\ Decision(c)' = Decision(c) /\ Said(c)' = Said(c)
      /\ Result(c, Peer(s))' = Result(c, Peer(s))
      /\ Result(c, s) = "open" /\ Result(c, s)' = "client"
  <2>1. end'[c]["in"] = "lost" <=> end[c]["in"] = "lost"
    BY <1>1, <1>2, <1>3 DEF Side, Peer
  <2>2. Decision(c)' = Decision(c)
    BY <1>1, <2>1 DEF DecisionsStay, Decision, Processed
  <2>. QED
    BY <1>1, <1>2, <1>3, <2>2 DEF Said, Result
<1>6. \A d \in Conn \ {c} : Quiet(d)
  BY <1>1, <1>2, Still DEF DecisionsStay
<1>. QED
  BY <1>1, <1>4, <1>5, <1>6 DEF Ends

(* Incoming sides appear; the one that is processed may be decided about.   *)
LEMMA ListenFollows ==
    ASSUME IInv, ListenPorts
    PROVE  /\ at' = at
           /\ \E c \in Conn : (Quiet(c) \/ Decides(c)) /\ \A d \in Conn \ {c} : Quiet(d)
<1>1. TypeOK /\ at' = at /\ \A c \in Conn : Appears(c) /\ InOK(c)
  BY Rounds DEF IInv, ConnOK
<1>2. PICK first \in Conn : \A c \in Conn \ {first} :
         end'[c]["in"] # end[c]["in"] => end'[c]["in"] = "lost"
  BY <1>1, Rounds
<1>3. ASSUME NEW c \in Conn
      PROVE  Said(c)' = Said(c) /\ \A s \in Side : Result(c, s)' = Result(c, s)
  <2>1. Said(c)' = Said(c)
    BY <1>1 DEF Said
  <2>2. \A s \in Side : Result(c, s)' = Result(c, s)
    BY <1>1 DEF Appears, Result, Side
  <2>. QED
    BY <2>1, <2>2
<1>4. ASSUME NEW c \in Conn
      PROVE  \/ Decision(c)' = Decision(c)
             \/ Decision(c) = "WAIT" /\ Decision(c)' = "ACCEPT" /\ end'[c]["in"] = "open"
  BY <1>1 DEF Appears, InOK, Decision, Processed
<1>5. ASSUME NEW c \in Conn \ {first} PROVE Decision(c)' = Decision(c)
  BY <1>1, <1>2 DEF Appears, InOK, Decision, Processed
<1>6. Quiet(first) \/ Decides(first)
  BY <1>3, <1>4 DEF Quiet, Decides
<1>7. \A c \in Conn \ {first} : Quiet(c)
  BY <1>3, <1>5 DEF Quiet
<1>. QED
  BY <1>1, <1>6, <1>7

(* The application decides, where the port did not.                         *)
LEMMA AnswersFollows ==
    ASSUME TypeOK, NEW c \in Conn, Answers(c)
    PROVE  at' = at /\ (Quiet(c) \/ Decides(c)) /\ \A d \in Conn \ {c} : Quiet(d)
<1>1. at' = at /\ end' = end /\ iState[c]["in"] = "WAIT"
  BY DEF Answers
<1>2. /\ iState'[c]["in"] \in {"ACCEPT", "REJECT"}
      /\ \A d \in Conn \ {c} : iState'[d] = iState[d]
  BY DEF Answers, TypeOK, Side
<1>3. Said(c)' = Said(c) /\ \A s \in Side : Result(c, s)' = Result(c, s)
  BY <1>1 DEF Said, Result
<1>4. Quiet(c) \/ Decides(c)
  BY <1>1, <1>2, <1>3 DEF Decision, Processed, Quiet, Decides
<1>5. \A d \in Conn \ {c} : Quiet(d)
  BY <1>1, <1>2, Still
<1>. QED
  BY <1>1, <1>4, <1>5

(* Every step keeps the pace and is a step of the contract.                 *)
LEMMA StepFollows ==
    ASSUME RInv, IInv', [Next]_vars
    PROVE  RInv' /\ [Contract!Next]_ContractVars
<1>1. TypeOK /\ \A c \in Conn : Paced(c)
  BY DEF RInv, IInv
<1>2. ASSUME at' = at PROVE \A c \in Conn : Paced(c)'
  BY <1>1, <1>2 DEF Paced
<1>4. CASE UNCHANGED vars
  <2>1. \A c \in Conn : Quiet(c)
    BY <1>4, Still DEF vars
  <2>2. UNCHANGED ContractVars
    BY <2>1 DEF Quiet, ContractVars
  <2>. QED
    BY <1>2, <1>4, <2>2 DEF vars, RInv
<1>5. ASSUME NEW c \in Conn, NEW s \in Side, Goes(c, s)
      PROVE  RInv' /\ [Contract!Next]_ContractVars
  <2>1. Paced(c)' /\ (Quiet(c) \/ Says(c)) /\ \A d \in Conn \ {c} : Quiet(d)
    BY <1>1, <1>5, GoesFollows DEF RInv
  <2>2. \A d \in Conn \ {c} : at'[d] = at[d]
    BY <1>1, <1>5, Advances DEF Goes
  <2>3. \A d \in Conn \ {c} : Paced(d)'
    BY <1>1, <2>2 DEF Paced
  <2>. QED
    BY <2>1, <2>3, ContractStep DEF RInv
<1>6. ASSUME NEW c \in Conn, NEW s \in Side, Leaves(c, s)
      PROVE  RInv' /\ [Contract!Next]_ContractVars
  <2>1. Ends(c, s) /\ \A d \in Conn \ {c} : Quiet(d)
    BY <1>1, <1>6, LeavesFollows DEF RInv
  <2>. QED
    BY <1>2, <1>6, <2>1, ContractStep DEF RInv, Leaves
<1>7. ASSUME NEW c \in Conn, NEW s \in Side, Finish(c, s)
      PROVE  RInv' /\ [Contract!Next]_ContractVars
  <2>1. at' = at /\ Ends(c, s) /\ \A d \in Conn \ {c} : Quiet(d)
    BY <1>1, <1>7, FinishFollows DEF RInv
  <2>. QED
    BY <1>2, <2>1, ContractStep DEF RInv
<1>8. CASE ListenPorts
  <2>1. PICK c \in Conn : (Quiet(c) \/ Decides(c)) /\ \A d \in Conn \ {c} : Quiet(d)
    BY <1>8, ListenFollows DEF RInv
  <2>2. at' = at
    BY <1>8, ListenFollows DEF RInv
  <2>. QED
    BY <1>2, <2>1, <2>2, ContractStep DEF RInv
<1>9. ASSUME NEW c \in Conn, Answers(c)
      PROVE  RInv' /\ [Contract!Next]_ContractVars
  <2>1. at' = at /\ (Quiet(c) \/ Decides(c)) /\ \A d \in Conn \ {c} : Quiet(d)
    BY <1>1, <1>9, AnswersFollows
  <2>. QED
    BY <1>2, <2>1, ContractStep DEF RInv
<1>10. ASSUME Rests, NEW c \in Conn PROVE RInv' /\ [Contract!Next]_ContractVars
  <2>1. at' = at /\ \A d \in Conn : Quiet(d)
    BY <1>10, Still DEF Rests, DecisionsStay
  <2>. QED
    BY <1>2, <2>1, ContractStep DEF RInv
<1>. QED
  BY <1>1, <1>4, <1>5, <1>6, <1>7, <1>8, <1>9, <1>10, Kinds

(* At the start nothing is said and every side is open.                     *)
LEMMA StartFollows == Init => RInv /\ Contract!Init
<1>. SUFFICES ASSUME Init PROVE RInv /\ Contract!Init
  OBVIOUS
<1>1. IInv
  BY InitHolds
<1>2. \A c \in Conn, s \in Side : at[c][s] = 1 /\ Peer(s) \in Side
  BY DEF Init, Peer, Side
<1>3. \A c \in Conn : Paced(c)
  BY <1>2 DEF Paced, TakenAt, GivenAt
<1>4. \A c \in Conn : /\ Decision(c) = "WAIT"
                      /\ Said(c) = 0
                      /\ \A s \in Side : Result(c, s) = "open"
  <2>1. \A c \in Conn, s \in Side : Result(c, s) = "open"
    BY DEF Init, Result
  <2>2. \A c \in Conn : Said(c) = 0
    <3>. SUFFICES ASSUME NEW c \in Conn PROVE Said(c) = 0
      OBVIOUS
    <3>1. at[c]["in"] = 1 /\ at[c]["out"] = 1
      BY <1>2 DEF Side
    <3>. QED
      BY <3>1 DEF Said
  <2>3. \A c \in Conn : iState[c]["in"] = "WAIT"
    BY DEF Init, Side
  <2>. QED
    BY <2>1, <2>2, <2>3 DEF Decision
<1>5. Contract!Init
  BY <1>4 DEF Contract!Init, Contract!Side, Side
<1>. QED
  BY <1>1, <1>3, <1>5 DEF RInv

(* Whatever the connections, two peers that meet keep the contract of the   *)
(* dialog: one decision, then signal, content and answer in this order, and *)
(* no client before the answer.                                             *)
THEOREM KeepsContract == Spec => ContractSpec
<1>1. Init => RInv /\ Contract!Init
  BY StartFollows
<1>2. RInv /\ [Next]_vars => RInv' /\ [Contract!Next]_ContractVars
  BY StepFollows, StepKeeps DEF RInv
<1>. QED
  BY <1>1, <1>2, PTL DEF Spec, ContractSpec, Contract!Spec, ContractVars
-----------------------------------------------------------------------------
(* The indexes of one connection whose peers call send() from any number of *)
(* threads.                                                                *)
USE DEF Party

(* The conditions under which the indexes are promised to be distinct.     *)
Promised == Roomy /\ ~overlapped

(* Under them, of each peer: the transactions it started lie between its    *)
(* minimum and the size of its map; those it serves were started by the     *)
(* other; and the index being used by the one thread inside send() is       *)
(* above all it started, whatever was registered since it was computed.     *)
StartedBelow(p) == \A k \in Known(p) :
    iMap[p][k] = "HOST" =>
        MinIndex(p) <= k /\ k < MinIndex(p) + Cardinality(Known(p))
ServedStarted(p) == \A k \in Known(p) :
    iMap[p][k] = "SERVER" => k \in Known(Other(p)) /\ iMap[Other(p)][k] = "HOST"
PendingAbove(p) == \A t \in Inside(p) :
    /\ MinIndex(p) <= pending[p][t]
    /\ pending[p][t] <= MinIndex(p) + Cardinality(Known(p))
    /\ \A k \in Known(p) : iMap[p][k] = "HOST" => k < pending[p][t]
OneCaller(p) == \A t, u \in Inside(p) : t = u

Ordered(p) == StartedBelow(p) /\ ServedStarted(p) /\ PendingAbove(p) /\ OneCaller(p)
IndexInv == IndexTypeOK /\ (Promised => \A p \in Party : Ordered(p))
-----------------------------------------------------------------------------
(* The halves fit in the ints.                                             *)
LEMMA HalfFits == Half \in Nat /\ IntMax \in Nat /\ 2 * Half <= IntMax
<1>1. IntMax \in Nat
  BY BoundAssumption
<1>2. QED
  BY <1>1, SMT DEF Half

(* The other peer of a peer is the other one.                              *)
LEMMA OtherParty ==
    \A p \in Party : Other(p) \in Party /\ Other(p) # p /\ Other(Other(p)) = p
BY DEF Other

(* A map with an entry more: its domain, its entries, its size.            *)
LEMMA PutFacts ==
    ASSUME NEW f, NEW k, NEW v, IsFiniteSet(DOMAIN f)
    PROVE  /\ DOMAIN Put(f, k, v) = DOMAIN f \cup {k}
           /\ Put(f, k, v)[k] = v
           /\ \A x \in DOMAIN f : x # k => Put(f, k, v)[x] = f[x]
           /\ IsFiniteSet(DOMAIN Put(f, k, v))
           /\ Cardinality(DOMAIN f) \in Nat
           /\ Cardinality(DOMAIN Put(f, k, v)) \in Nat
           /\ Cardinality(DOMAIN f) <= Cardinality(DOMAIN Put(f, k, v))
           /\ k \notin DOMAIN f =>
                 Cardinality(DOMAIN Put(f, k, v)) = Cardinality(DOMAIN f) + 1
<1>1. DOMAIN Put(f, k, v) = DOMAIN f \cup {k}
  BY DEF Put
<1>2. Put(f, k, v)[k] = v /\ \A x \in DOMAIN f : x # k => Put(f, k, v)[x] = f[x]
  BY DEF Put
<1>3. /\ IsFiniteSet(DOMAIN f \cup {k})
      /\ Cardinality(DOMAIN f \cup {k}) =
            IF k \in DOMAIN f THEN Cardinality(DOMAIN f) ELSE Cardinality(DOMAIN f) + 1
  BY FS_AddElement
<1>4. Cardinality(DOMAIN f) \in Nat
  BY FS_CardinalityType
<1>5. QED
  BY <1>1, <1>2, <1>3, <1>4

(* While there is room the next index is the sum, and in the peer's half.   *)
LEMMA NextInHalf ==
    ASSUME IndexTypeOK, Roomy, NEW p \in Party
    PROVE  /\ Cardinality(Known(p)) \in Nat
           /\ Cardinality(Known(p)) < Half
           /\ NextIndex(p) = MinIndex(p) + Cardinality(Known(p))
           /\ MinIndex(p) \in Nat
<1>1. Cardinality(Known(p)) \in Nat
  BY FS_CardinalityType DEF IndexTypeOK
<1>2. Cardinality(Known(p)) < Half
  BY DEF Roomy
<1>3. MinIndex(p) \in Nat /\ MinIndex(p) <= Half + 1
  BY <1>1, <1>2, HalfFits DEF MinIndex
<1>4. Cardinality(Known(p)) + MinIndex(p) <= IntMax
  BY <1>1, <1>2, <1>3, HalfFits
<1>5. QED
  BY <1>1, <1>2, <1>3, <1>4, HalfFits DEF NextIndex, ToInt
-----------------------------------------------------------------------------
(* What the strengthening says implies what it is for.                     *)
LEMMA OrderedDistinct ==
    ASSUME IndexInv, Promised, NEW p \in Party
    PROVE  /\ \A t \in Inside(p) : pending[p][t] \notin Known(p) \cup Known(Other(p))
           /\ \A k \in Known(p) \cap Known(Other(p)) :
                  iMap[p][k] # iMap[Other(p)][k]
<1> DEFINE q == Other(p)
<1>1. q \in Party /\ q # p /\ Other(q) = p
  BY OtherParty
<1>2. IndexTypeOK /\ Roomy /\ Ordered(p) /\ Ordered(q)
  BY <1>1 DEF IndexInv, Promised
<1>3. /\ Cardinality(Known(p)) \in Nat /\ Cardinality(Known(p)) < Half
      /\ Cardinality(Known(q)) \in Nat /\ Cardinality(Known(q)) < Half
  BY <1>1, <1>2, NextInHalf
<1>4. /\ \A k \in Known(p) : k \in Int /\ iMap[p][k] \in {"HOST", "SERVER"}
      /\ \A k \in Known(q) : k \in Int /\ iMap[q][k] \in {"HOST", "SERVER"}
      /\ \A t \in Inside(p) : pending[p][t] \in Int
  BY <1>1, <1>2 DEF IndexTypeOK
<1>5. \/ MinIndex(p) = 1 /\ MinIndex(q) = Half + 1
      \/ MinIndex(p) = Half + 1 /\ MinIndex(q) = 1
  BY <1>1 DEF MinIndex, Other
<1> HIDE DEF q
<1>6. \A t \in Inside(p) : pending[p][t] \notin Known(p) \cup Known(q)
  <2> SUFFICES ASSUME NEW t \in Inside(p), pending[p][t] \in Known(p) \cup Known(q)
               PROVE  FALSE
    OBVIOUS
  <2> DEFINE k == pending[p][t]
  <2>1. /\ k \in Int /\ MinIndex(p) <= k /\ k <= MinIndex(p) + Cardinality(Known(p))
        /\ \A j \in Known(p) : iMap[p][j] = "HOST" => j < k
    BY <1>2, <1>4 DEF Ordered, PendingAbove
  <2>2. ~(k \in Known(p) /\ iMap[p][k] = "HOST")
    <3> HIDE DEF k
    <3>1. QED
      BY <2>1
  <2>3. ~(k \in Known(q) /\ iMap[q][k] = "HOST")
    <3>1. k \in Known(q) /\ iMap[q][k] = "HOST" =>
             MinIndex(q) <= k /\ k < MinIndex(q) + Cardinality(Known(q))
      BY <1>2 DEF Ordered, StartedBelow
    <3> HIDE DEF k
    <3>2. QED
      BY <3>1, <1>3, <1>5, <2>1, HalfFits
  <2>4. k \in Known(p) /\ iMap[p][k] = "SERVER" => k \in Known(q) /\ iMap[q][k] = "HOST"
    BY <1>2 DEF Ordered, ServedStarted, q
  <2>5. k \in Known(q) /\ iMap[q][k] = "SERVER" => k \in Known(p) /\ iMap[p][k] = "HOST"
    BY <1>1, <1>2 DEF Ordered, ServedStarted
  <2>6. QED
    BY <1>4, <2>2, <2>3, <2>4, <2>5
<1>7. \A k \in Known(p) \cap Known(q) : iMap[p][k] # iMap[q][k]
  <2> SUFFICES ASSUME NEW k \in Known(p) \cap Known(q), iMap[p][k] = iMap[q][k]
               PROVE  FALSE
    OBVIOUS
  <2>1. iMap[p][k] = "SERVER" => iMap[q][k] = "HOST"
    BY <1>2 DEF Ordered, ServedStarted, q
  <2>2. iMap[p][k] = "HOST" =>
            MinIndex(p) <= k /\ k < MinIndex(p) + Cardinality(Known(p))
    BY <1>2 DEF Ordered, StartedBelow
  <2>3. iMap[q][k] = "HOST" =>
            MinIndex(q) <= k /\ k < MinIndex(q) + Cardinality(Known(q))
    BY <1>2 DEF Ordered, StartedBelow
  <2>4. k \in Int /\ iMap[p][k] = "HOST" /\ iMap[q][k] = "HOST"
    BY <1>4, <2>1
  <2>5. QED
    BY <1>3, <1>5, <2>2, <2>3, <2>4, HalfFits
<1>8. QED
  BY <1>6, <1>7 DEF q

(* The initial state.                                                      *)
LEMMA IndexStart == IndexInit => IndexInv
<1> SUFFICES ASSUME IndexInit PROVE IndexInv
  OBVIOUS
<1>1. \A p \in Party : Known(p) = {} /\ Inside(p) = {}
  BY DEF IndexInit, Known, Inside
<1>2. IndexTypeOK
  <2>1. IsFiniteSet({})
    BY FS_EmptySet
  <2>2. \A p \in Party : iMap[p] \in [Known(p) -> {"HOST", "SERVER"}]
                           /\ pending[p] \in [Inside(p) -> Int]
    BY DEF IndexInit, Known, Inside
  <2>3. QED
    BY <1>1, <2>1, <2>2 DEF IndexTypeOK, IndexInit
<1>3. \A p \in Party : Ordered(p)
  BY <1>1 DEF Ordered, StartedBelow, ServedStarted, PendingAbove, OneCaller
<1>4. QED
  BY <1>2, <1>3 DEF IndexInv
-----------------------------------------------------------------------------
(* A map with an entry more keeps the type of its entries.                 *)
LEMMA PutType ==
    ASSUME NEW S, NEW T, NEW f \in [S -> T], NEW k, NEW v \in T
    PROVE  Put(f, k, v) \in [S \cup {k} -> T]
BY DEF Put

(* A step that adds one transaction to one map: the type of the maps, what  *)
(* is in them, and the promise's condition, which held before if it holds   *)
(* after.                                                                   *)
LEMMA Grows ==
    ASSUME IndexTypeOK, NEW p \in Party, NEW k \in Int, NEW v \in {"HOST", "SERVER"},
           iMap' = [iMap EXCEPT ![p] = Put(@, k, v)], UNCHANGED overlapped
    PROVE  /\ DOMAIN iMap' = Party
           /\ \A r \in Party : /\ Known(r)' \subseteq Int /\ IsFiniteSet(Known(r)')
                                 /\ iMap'[r] \in [Known(r)' -> {"HOST", "SERVER"}]
           /\ Known(p)' = Known(p) \cup {k}
           /\ iMap'[p][k] = v /\ \A x \in Known(p) : x # k => iMap'[p][x] = iMap[p][x]
           /\ \A r \in Party \ {p} : Known(r)' = Known(r) /\ iMap'[r] = iMap[r]
           /\ Cardinality(Known(p)) \in Nat /\ Cardinality(Known(p)') \in Nat
           /\ Cardinality(Known(p)) <= Cardinality(Known(p)')
           /\ k \notin Known(p) =>
                 Cardinality(Known(p)') = Cardinality(Known(p)) + 1
           /\ Promised' => Promised
<1>1. /\ DOMAIN iMap' = Party
      /\ iMap'[p] = Put(iMap[p], k, v)
      /\ \A r \in Party \ {p} : iMap'[r] = iMap[r]
  BY DEF IndexTypeOK
<1>2. /\ IsFiniteSet(DOMAIN iMap[p]) /\ Known(p) = DOMAIN iMap[p]
      /\ Known(p)' = DOMAIN Put(iMap[p], k, v)
  BY <1>1 DEF IndexTypeOK, Known
<1>3. /\ DOMAIN Put(iMap[p], k, v) = DOMAIN iMap[p] \cup {k}
      /\ Put(iMap[p], k, v)[k] = v
      /\ \A x \in DOMAIN iMap[p] : x # k => Put(iMap[p], k, v)[x] = iMap[p][x]
      /\ IsFiniteSet(DOMAIN Put(iMap[p], k, v))
      /\ Cardinality(DOMAIN iMap[p]) \in Nat
      /\ Cardinality(DOMAIN Put(iMap[p], k, v)) \in Nat
      /\ Cardinality(DOMAIN iMap[p]) <= Cardinality(DOMAIN Put(iMap[p], k, v))
      /\ k \notin DOMAIN iMap[p] =>
            Cardinality(DOMAIN Put(iMap[p], k, v)) = Cardinality(DOMAIN iMap[p]) + 1
  <2>1. PICK m : m = iMap[p]
    OBVIOUS
  <2>2. /\ DOMAIN Put(m, k, v) = DOMAIN m \cup {k}
        /\ Put(m, k, v)[k] = v
        /\ \A x \in DOMAIN m : x # k => Put(m, k, v)[x] = m[x]
        /\ IsFiniteSet(DOMAIN Put(m, k, v))
        /\ Cardinality(DOMAIN m) \in Nat
        /\ Cardinality(DOMAIN Put(m, k, v)) \in Nat
        /\ Cardinality(DOMAIN m) <= Cardinality(DOMAIN Put(m, k, v))
        /\ k \notin DOMAIN m =>
              Cardinality(DOMAIN Put(m, k, v)) = Cardinality(DOMAIN m) + 1
    <3>1. IsFiniteSet(DOMAIN m)
      BY <1>2, <2>1
    <3>2. QED
      BY ONLY <3>1, PutFacts, Zenon
  <2>3. QED
    BY ONLY <2>1, <2>2, Zenon
<1>4. \A r \in Party \ {p} : Known(r)' = Known(r)
  BY <1>1 DEF Known
<1>5. Put(iMap[p], k, v) \in [Known(p) \cup {k} -> {"HOST", "SERVER"}]
  BY PutType DEF IndexTypeOK
<1>6. \A r \in Party : /\ Known(r)' \subseteq Int /\ IsFiniteSet(Known(r)')
                         /\ iMap'[r] \in [Known(r)' -> {"HOST", "SERVER"}]
  <2>1. /\ Known(p)' \subseteq Int /\ IsFiniteSet(Known(p)')
        /\ iMap'[p] \in [Known(p)' -> {"HOST", "SERVER"}]
    BY <1>1, <1>2, <1>3, <1>5 DEF IndexTypeOK
  <2>2. \A r \in Party \ {p} : /\ Known(r)' \subseteq Int /\ IsFiniteSet(Known(r)')
                                 /\ iMap'[r] \in [Known(r)' -> {"HOST", "SERVER"}]
    BY <1>1, <1>4 DEF IndexTypeOK
  <2>3. QED
    BY <2>1, <2>2
<1>7. Promised' => Promised
  <2> SUFFICES ASSUME Promised' PROVE Promised
    OBVIOUS
  <2>1. \A r \in Party : Cardinality(Known(r)') < Half
    BY DEF Promised, Roomy, Half
  <2>2. Cardinality(Known(p)) < Half
    BY <1>2, <1>3, <2>1, HalfFits
  <2>3. \A r \in Party \ {p} : Cardinality(Known(r)) < Half
    BY <1>4, <2>1
  <2>4. QED
    BY <2>2, <2>3 DEF Promised, Roomy
<1>8. QED
  BY <1>1, <1>2, <1>3, <1>4, <1>6, <1>7
-----------------------------------------------------------------------------
(* A thread that computes an index: nobody of its peer is inside (or the    *)
(* history says so), and all the peer started lies below the sum.           *)
LEMMA ComputeKeeps ==
    ASSUME IndexInv, NEW p \in Party, NEW t \in Thread, Compute(p, t)
    PROVE  IndexInv'
<1>1. /\ IndexTypeOK /\ iMap' = iMap /\ t \notin Inside(p)
      /\ pending' = [pending EXCEPT ![p] = Put(@, t, NextIndex(p))]
      /\ sends' = sends + 1 /\ overlapped' = (overlapped \/ Inside(p) # {})
  BY DEF IndexInv, Compute
<1>2. NextIndex(p) \in Int
  <2>1. Cardinality(Known(p)) \in Nat
    BY <1>1, FS_CardinalityType DEF IndexTypeOK
  <2>2. MinIndex(p) \in Nat
    BY HalfFits DEF MinIndex
  <2>3. QED
    BY <2>1, <2>2, HalfFits DEF NextIndex, ToInt
<1>3. /\ DOMAIN pending' = Party
      /\ pending'[p] = Put(pending[p], t, NextIndex(p))
      /\ \A r \in Party \ {p} : pending'[r] = pending[r]
  BY <1>1 DEF IndexTypeOK
<1>4. /\ Inside(p)' = Inside(p) \cup {t} /\ pending'[p][t] = NextIndex(p)
      /\ pending'[p] \in [Inside(p)' -> Int]
  <2>1. Put(pending[p], t, NextIndex(p)) \in [Inside(p) \cup {t} -> Int]
    BY <1>1, <1>2, PutType DEF IndexTypeOK
  <2>2. Put(pending[p], t, NextIndex(p))[t] = NextIndex(p)
    BY DEF Put
  <2>3. QED
    BY <1>3, <2>1, <2>2 DEF Inside
<1>5. \A r \in Party : Known(r)' = Known(r)
  BY <1>1 DEF Known
<1>6. \A r \in Party \ {p} : Inside(r)' = Inside(r)
  BY <1>3 DEF Inside
<1>7. IndexTypeOK'
  <2>1. \A r \in Party :
            Inside(r)' \subseteq Thread /\ pending'[r] \in [Inside(r)' -> Int]
    <3>1. Inside(p)' \subseteq Thread
      BY <1>1, <1>4 DEF IndexTypeOK
    <3>2. \A r \in Party \ {p} :
             Inside(r)' \subseteq Thread /\ pending'[r] \in [Inside(r)' -> Int]
      BY <1>1, <1>3, <1>6 DEF IndexTypeOK
    <3>3. QED
      BY <1>4, <3>1, <3>2
  <2>2. QED
    BY <1>1, <1>3, <1>5, <2>1 DEF IndexTypeOK
<1>8. ASSUME Promised' PROVE \A r \in Party : Ordered(r)'
  <2>1. Promised /\ Inside(p) = {}
    BY <1>1, <1>5, <1>8 DEF Promised, Roomy, Half
  <2>2. \A r \in Party : Ordered(r)
    BY <2>1 DEF IndexInv
  <2>3. \A r \in Party : StartedBelow(r)' /\ ServedStarted(r)'
    BY <1>1, <2>2, OtherParty
       DEF Ordered, StartedBelow, ServedStarted, Known, MinIndex, Half, Other
  <2>4. PendingAbove(p)' /\ OneCaller(p)'
    <3>1. NextIndex(p) = MinIndex(p) + Cardinality(Known(p))
          /\ MinIndex(p) \in Nat /\ Cardinality(Known(p)) \in Nat
      BY <1>1, <2>1, NextInHalf DEF Promised
    <3>2. Inside(p)' = {t}
      BY <1>4, <2>1
    <3>3. \A k \in Known(p) : iMap[p][k] = "HOST" => k < NextIndex(p)
      BY <2>2, <3>1 DEF Ordered, StartedBelow
    <3>4. MinIndex(p)' = MinIndex(p)
      BY DEF MinIndex, Half
    <3>5. QED
      BY <1>1, <1>4, <1>5, <3>1, <3>2, <3>3, <3>4 DEF PendingAbove, OneCaller
  <2>5. \A r \in Party \ {p} : PendingAbove(r)' /\ OneCaller(r)'
    BY <1>1, <1>3, <1>5, <1>6, <2>2
       DEF Ordered, PendingAbove, OneCaller, MinIndex, Half
  <2>6. QED
    BY <2>3, <2>4, <2>5 DEF Ordered
<1>9. QED
  BY <1>7, <1>8 DEF IndexInv

(* The processor is inserted: its index is new to the map, so that the size *)
(* grows and stays above it.                                                *)
LEMMA InsertKeeps ==
    ASSUME IndexInv, NEW p \in Party, NEW t \in Thread, Insert(p, t)
    PROVE  IndexInv'
<1> DEFINE key == pending[p][t]
<1>1. /\ IndexTypeOK /\ t \in Inside(p)
      /\ iMap' = [iMap EXCEPT ![p] = Put(@, key, "HOST")]
      /\ pending' = [pending EXCEPT ![p] = Drop(@, t)]
      /\ sends' = sends /\ overlapped' = overlapped
  BY DEF IndexInv, Insert
<1>2. PICK k \in Int : k = key
  BY <1>1 DEF IndexTypeOK
<1> HIDE DEF key
<1>3. iMap' = [iMap EXCEPT ![p] = Put(@, k, "HOST")]
  BY <1>1, <1>2
<1>4. /\ DOMAIN iMap' = Party
      /\ \A r \in Party : /\ Known(r)' \subseteq Int /\ IsFiniteSet(Known(r)')
                            /\ iMap'[r] \in [Known(r)' -> {"HOST", "SERVER"}]
      /\ Known(p)' = Known(p) \cup {k}
      /\ iMap'[p][k] = "HOST" /\ \A x \in Known(p) : x # k => iMap'[p][x] = iMap[p][x]
      /\ \A r \in Party \ {p} : Known(r)' = Known(r) /\ iMap'[r] = iMap[r]
      /\ Cardinality(Known(p)) \in Nat /\ Cardinality(Known(p)') \in Nat
      /\ k \notin Known(p) => Cardinality(Known(p)') = Cardinality(Known(p)) + 1
      /\ Promised' => Promised
  BY <1>1, <1>3, Grows
<1>5. /\ DOMAIN pending' = Party
      /\ pending'[p] = Drop(pending[p], t)
      /\ \A r \in Party \ {p} : pending'[r] = pending[r] /\ Inside(r)' = Inside(r)
      /\ Inside(p)' = Inside(p) \ {t}
      /\ pending'[p] \in [Inside(p)' -> Int]
  <2>1. /\ DOMAIN pending' = Party
        /\ pending'[p] = Drop(pending[p], t)
        /\ \A r \in Party \ {p} : pending'[r] = pending[r]
    BY <1>1 DEF IndexTypeOK
  <2>2. pending[p] \in [Inside(p) -> Int]
    BY <1>1 DEF IndexTypeOK
  <2>3. QED
    BY <2>1, <2>2 DEF Drop, Inside
<1>6. IndexTypeOK'
  <2>1. \A r \in Party :
            Inside(r)' \subseteq Thread /\ pending'[r] \in [Inside(r)' -> Int]
    BY <1>1, <1>5 DEF IndexTypeOK
  <2>2. QED
    BY <1>1, <1>4, <1>5, <2>1 DEF IndexTypeOK
<1>7. ASSUME Promised' PROVE \A r \in Party : Ordered(r)'
  <2>1. Promised /\ \A r \in Party : Ordered(r)
    BY <1>4, <1>7 DEF IndexInv
  <2>2. k \notin Known(p)
    BY <1>1, <1>2, <2>1, OrderedDistinct DEF key
  <2>3. Inside(p)' = {}
    BY <1>1, <1>5, <2>1 DEF Ordered, OneCaller
  <2>4. /\ MinIndex(p) \in Nat /\ MinIndex(p) <= k
        /\ k <= MinIndex(p) + Cardinality(Known(p))
    BY <1>1, <1>2, <2>1, NextInHalf DEF Ordered, PendingAbove, Promised, key
  <2>5. \A r \in Party : MinIndex(r)' = MinIndex(r)
    BY DEF MinIndex, Half
  <2>6. StartedBelow(p)'
    <3>1. \A x \in Known(p) : iMap[p][x] = "HOST" =>
              x \in Int /\ MinIndex(p) <= x /\ x < MinIndex(p) + Cardinality(Known(p))
      BY <1>1, <2>1 DEF Ordered, StartedBelow, IndexTypeOK
    <3>2. \A x \in Known(p) \cup {k} : iMap'[p][x] = "HOST" =>
              MinIndex(p) <= x /\ x < MinIndex(p) + Cardinality(Known(p)')
      BY <1>4, <2>2, <2>4, <3>1
    <3>3. QED
      BY <1>4, <2>5, <3>2 DEF StartedBelow
  <2>7. \A r \in Party : ServedStarted(r)'
    <3>1. \A r \in Party : Known(r) \subseteq Known(r)'
      BY <1>4
    <3>2. \A r \in Party :
              \A x \in Known(r) : iMap[r][x] = "HOST" => iMap'[r][x] = "HOST"
      BY <1>4
    <3>3. \A r \in Party : \A x \in Known(r)' :
              iMap'[r][x] = "SERVER" => x \in Known(r) /\ iMap[r][x] = "SERVER"
      BY <1>4
    <3>4. QED
      BY <2>1, <3>1, <3>2, <3>3, OtherParty DEF Ordered, ServedStarted, Other
  <2>8. PendingAbove(p)' /\ OneCaller(p)'
    BY <2>3 DEF PendingAbove, OneCaller
  <2>9. \A r \in Party \ {p} : StartedBelow(r)' /\ PendingAbove(r)' /\ OneCaller(r)'
    BY <1>4, <1>5, <2>1, <2>5 DEF Ordered, StartedBelow, PendingAbove, OneCaller
  <2>10. QED
    BY <2>6, <2>7, <2>8, <2>9 DEF Ordered
<1>8. QED
  BY <1>6, <1>7 DEF IndexInv

(* The first packet of a transaction: the map grows by an entry that the    *)
(* other peer holds as host, since a transaction it serves would be here.   *)
LEMMA RegisterKeeps ==
    ASSUME IndexInv, NEW p \in Party, NEW k \in Int, Register(p, k)
    PROVE  IndexInv'
<1>1. /\ IndexTypeOK /\ k \in Known(Other(p)) /\ k \notin Known(p) /\ pending' = pending
      /\ iMap' = [iMap EXCEPT ![p] = Put(@, k, "SERVER")]
      /\ sends' = sends /\ overlapped' = overlapped
  BY DEF IndexInv, Register
<1>2. Other(p) \in Party /\ Other(p) # p /\ k \in Int
  BY <1>1, OtherParty DEF IndexTypeOK
<1>3. /\ DOMAIN iMap' = Party
      /\ \A r \in Party : /\ Known(r)' \subseteq Int /\ IsFiniteSet(Known(r)')
                            /\ iMap'[r] \in [Known(r)' -> {"HOST", "SERVER"}]
      /\ Known(p)' = Known(p) \cup {k}
      /\ iMap'[p][k] = "SERVER" /\ \A x \in Known(p) : x # k => iMap'[p][x] = iMap[p][x]
      /\ \A r \in Party \ {p} : Known(r)' = Known(r) /\ iMap'[r] = iMap[r]
      /\ Cardinality(Known(p)) \in Nat /\ Cardinality(Known(p)') \in Nat
      /\ Cardinality(Known(p)') = Cardinality(Known(p)) + 1
      /\ Promised' => Promised
  <2>1. /\ IndexTypeOK /\ UNCHANGED overlapped
        /\ iMap' = [iMap EXCEPT ![p] = Put(@, k, "SERVER")]
        /\ "SERVER" \in {"HOST", "SERVER"}
    BY <1>1
  <2>2. /\ DOMAIN iMap' = Party
        /\ \A r \in Party : /\ Known(r)' \subseteq Int /\ IsFiniteSet(Known(r)')
                              /\ iMap'[r] \in [Known(r)' -> {"HOST", "SERVER"}]
    BY <2>1, Grows
  <2>3. /\ Known(p)' = Known(p) \cup {k}
        /\ iMap'[p][k] = "SERVER"
        /\ \A x \in Known(p) : x # k => iMap'[p][x] = iMap[p][x]
    <3>1. iMap'[p] = Put(iMap[p], k, "SERVER")
      BY <2>1 DEF IndexTypeOK
    <3>2. QED
      BY <3>1 DEF Put, Known
  <2>4. \A r \in Party \ {p} : Known(r)' = Known(r) /\ iMap'[r] = iMap[r]
    BY <2>1, Grows
  <2>5. /\ Cardinality(Known(p)) \in Nat /\ Cardinality(Known(p)') \in Nat
        /\ k \notin Known(p) => Cardinality(Known(p)') = Cardinality(Known(p)) + 1
    BY <2>1, Grows
  <2>6. Promised' => Promised
    BY <2>1, Grows
  <2>7. QED
    BY <1>1, <2>2, <2>3, <2>4, <2>5, <2>6
<1>4. \A r \in Party : Inside(r)' = Inside(r)
  BY <1>1 DEF Inside
<1>5. IndexTypeOK'
  <2>1. \A r \in Party :
            Inside(r)' \subseteq Thread /\ pending'[r] \in [Inside(r)' -> Int]
    BY <1>1, <1>4 DEF IndexTypeOK
  <2>2. QED
    BY <1>1, <1>3, <2>1 DEF IndexTypeOK
<1>6. ASSUME Promised' PROVE \A r \in Party : Ordered(r)'
  <2>1. Promised /\ \A r \in Party : Ordered(r)
    BY <1>3, <1>6 DEF IndexInv
  <2>2. iMap[Other(p)][k] = "HOST"
    <3>1. iMap[Other(p)][k] \in {"HOST", "SERVER"}
      BY <1>1, <1>2 DEF IndexTypeOK
    <3>2. iMap[Other(p)][k] # "SERVER"
      BY <1>1, <1>2, <2>1, OtherParty DEF Ordered, ServedStarted
    <3>3. QED
      BY <3>1, <3>2
  <2>3. \A r \in Party : MinIndex(r)' = MinIndex(r) /\ MinIndex(r) \in Nat
    BY HalfFits DEF MinIndex, Half
  <2>4. StartedBelow(p)'
    <3>1. \A x \in Known(p) : iMap[p][x] = "HOST" =>
              x \in Int /\ MinIndex(p) <= x /\ x < MinIndex(p) + Cardinality(Known(p))
      BY <1>1, <2>1 DEF Ordered, StartedBelow, IndexTypeOK
    <3>2. \A x \in Known(p) \cup {k} : iMap'[p][x] = "HOST" =>
              MinIndex(p) <= x /\ x < MinIndex(p) + Cardinality(Known(p)')
      BY <1>1, <1>3, <2>3, <3>1
    <3>3. QED
      BY <1>3, <2>3, <3>2 DEF StartedBelow
  <2>5. ServedStarted(p)'
    <3>1. \A x \in Known(p) : iMap[p][x] = "SERVER" =>
              x \in Known(Other(p)) /\ iMap[Other(p)][x] = "HOST"
      BY <2>1 DEF Ordered, ServedStarted
    <3>2. \A x \in Known(p)' : iMap'[p][x] = "SERVER" =>
              x \in Known(Other(p)) /\ iMap[Other(p)][x] = "HOST"
      BY <1>1, <1>3, <2>2, <3>1
    <3>3. /\ Known(Other(p))' = Known(Other(p))
          /\ iMap'[Other(p)] = iMap[Other(p)]
      BY <1>2, <1>3
    <3>4. QED
      BY <3>2, <3>3 DEF ServedStarted, Known, Other
  <2>6. ServedStarted(Other(p))'
    <3>1. \A x \in Known(Other(p)) : iMap[Other(p)][x] = "SERVER" =>
              x \in Known(p) /\ iMap[p][x] = "HOST"
      BY <1>2, <2>1, OtherParty DEF Ordered, ServedStarted
    <3>2. \A x \in Known(Other(p)) : iMap[Other(p)][x] = "SERVER" =>
              x \in Known(p)' /\ iMap'[p][x] = "HOST"
      BY <1>1, <1>3, <3>1
    <3>3. /\ Known(Other(p))' = Known(Other(p))
          /\ iMap'[Other(p)] = iMap[Other(p)]
      BY <1>2, <1>3
    <3>4. Other(Other(p)) = p
      BY OtherParty
    <3>5. QED
      BY <3>2, <3>3, <3>4 DEF ServedStarted, Known, Other
  <2>7. PendingAbove(p)'
    <3>1. \A t \in Inside(p) :
             /\ pending[p][t] \in Int /\ MinIndex(p) <= pending[p][t]
             /\ pending[p][t] <= MinIndex(p) + Cardinality(Known(p))
             /\ \A x \in Known(p) : iMap[p][x] = "HOST" => x < pending[p][t]
      BY <1>1, <2>1 DEF Ordered, PendingAbove, IndexTypeOK
    <3>2. \A t \in Inside(p) : pending[p][t] <= MinIndex(p) + Cardinality(Known(p)')
      BY <1>3, <2>3, <3>1
    <3>3. \A t \in Inside(p) : \A x \in Known(p)' :
              iMap'[p][x] = "HOST" => x < pending[p][t]
      BY <1>3, <3>1
    <3>4. QED
      BY <1>1, <1>4, <2>3, <3>1, <3>2, <3>3 DEF PendingAbove
  <2>8. \A r \in Party \ {p} : StartedBelow(r)' /\ PendingAbove(r)'
    BY <1>1, <1>3, <1>4, <2>1, <2>3 DEF Ordered, StartedBelow, PendingAbove
  <2>9. \A r \in Party : OneCaller(r)'
    BY <1>4, <2>1 DEF Ordered, OneCaller
  <2>10. \A r \in Party : r = p \/ r = Other(p)
    BY DEF Other
  <2>11. QED
    BY <2>4, <2>5, <2>6, <2>7, <2>8, <2>9, <2>10 DEF Ordered
<1>7. QED
  BY <1>5, <1>6 DEF IndexInv

(* No step.                                                                *)
LEMMA StutterKeeps == ASSUME IndexInv, UNCHANGED indexVars PROVE IndexInv'
BY DEF IndexInv, indexVars, IndexTypeOK, Promised, Roomy, Ordered, StartedBelow, ServedStarted,
       PendingAbove, OneCaller, Known, Inside, MinIndex, Half, Other
-----------------------------------------------------------------------------
(* Every state of every behaviour satisfies the strengthening.             *)
LEMMA IndexInvariant == IndexSpec => []IndexInv
<1>1. IndexInit => IndexInv
  BY IndexStart
<1>2. IndexInv /\ [IndexNext]_indexVars => IndexInv'
  <2> SUFFICES ASSUME IndexInv, [IndexNext]_indexVars PROVE IndexInv'
    OBVIOUS
  <2>1. ASSUME NEW p \in Party, NEW t \in Thread, Compute(p, t) PROVE IndexInv'
    BY <2>1, ComputeKeeps
  <2>2. ASSUME NEW p \in Party, NEW t \in Thread, Insert(p, t) PROVE IndexInv'
    BY <2>2, InsertKeeps
  <2>3. ASSUME NEW p \in Party, NEW k \in Known(Other(p)), Register(p, k) PROVE IndexInv'
    <3>1. k \in Int
      BY OtherParty DEF IndexInv, IndexTypeOK
    <3>2. QED
      BY <2>3, <3>1, RegisterKeeps
  <2>4. CASE UNCHANGED indexVars
    BY <2>4, StutterKeeps
  <2>5. QED
    BY <2>1, <2>2, <2>3, <2>4 DEF IndexNext
<1>3. QED
  BY <1>1, <1>2, PTL DEF IndexSpec

(* The variables keep their types.                                         *)
THEOREM IndexTypes == IndexSpec => []IndexTypeOK
<1>1. IndexInv => IndexTypeOK
  BY DEF IndexInv
<1>2. QED
  BY <1>1, IndexInvariant, PTL

(* registerTransaction, for every range of the ints and any number of       *)
(* threads: while the calls of one peer do not overlap and the map is       *)
(* smaller than half the range, no index is given twice, by either peer,    *)
(* and one that both know is of one transaction.                            *)
THEOREM IndexesDistinct == IndexSpec => []Distinct
<1>1. IndexInv => Distinct
  BY OrderedDistinct DEF Distinct, Promised
<1>2. QED
  BY <1>1, IndexInvariant, PTL
=============================================================================
