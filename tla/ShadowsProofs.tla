---------------------------- MODULE ShadowsProofs ----------------------------
(***************************************************************************)
(* Theorems about Shadows, for every pool of UDP ports of the two peers    *)
(* and any number of shadows and reservations.                             *)
(***************************************************************************)
EXTENDS Shadows, SequenceTheorems, WellFoundedInduction, TLAPS

In(s) == {s[i] : i \in DOMAIN s}

(* The packets of a MakeShadow: there is at most one, on a wire or about to *)
(* be queued by a backward unit.                                           *)
Of(m, t) == IsShadow(m) /\ m.shadow = t
Once(s, t) == \A i, j \in DOMAIN s : Of(s[i], t) /\ Of(s[j], t) => i = j
OnWire(p, t) == \E m \in In(wire[p]) : Of(m, t)
Queues(p, t) == reply[p] # Nothing /\ Of(reply[p], t)
Token(t) ==
    /\ \A p \in Peer : Once(wire[p], t) /\ ~(OnWire(p, t) /\ Queues(p, t))
    /\ \A p \in Peer : OnWire(p, t) \/ Queues(p, t) =>
          ~OnWire(Other(p), t) /\ ~Queues(Other(p), t)

(* How far the two sides are when p's packet m is under way.               *)
Fits(p, m) ==
    LET t == m.shadow
        h == at[t]["HOST"]
        s == at[t]["SERVER"]
    IN  /\ owner[t] # Nothing
        /\ owner[t] = p =>
              \/ h = "asked" /\ s = "none" /\ ~m.failed
              \/ h = "offered" /\ s = "agreed" /\ ~m.failed
                    /\ (iType[t] = "UDP" => m.port = pPort[t])
              \/ h = "fault" /\ s = "agreed" /\ m.failed
        /\ owner[t] # p =>
              \/ h = "asked" /\ s = "agreed" /\ ~m.failed
              \/ h = "offered" /\ s = "open" /\ ~m.failed
                    /\ (iType[t] = "UDP" =>
                           [of |-> t, port |-> m.port, peer |-> pPort[t]] \in In(channels[p]))
              \/ h = "offered" /\ s = "fault" /\ m.failed

Under(t) ==
    /\ Token(t)
    /\ \A p \in Peer :
          /\ \A m \in In(wire[p]) : Of(m, t) => Fits(p, m)
          /\ Queues(p, t) => Fits(p, reply[p])
    /\ owner[t] = Nothing => at[t]["HOST"] = "none" /\ at[t]["SERVER"] = "none"
    /\ at[t]["HOST"] \in {"none", "asked"} => pPort[t] = 0
    /\ at[t]["HOST"] = "offered" => (pPort[t] # 0 <=> iType[t] = "UDP")

(* The transactions whose processor object holds a port of p.              *)
Object(p, t) ==
    owner[t] = p /\ pPort[t] # 0 /\ at[t]["HOST"] \in {"offered", "fault"}

Ports(p) ==
    /\ bound[p] = ChannelPorts(p) \cup ObjectPorts(p)
    /\ ChannelPorts(p) \cap ObjectPorts(p) = {}
    /\ \A i, j \in DOMAIN channels[p] : channels[p][i].port = channels[p][j].port => i = j
    /\ \A t, u \in Shadow : Object(p, t) /\ Object(p, u) /\ pPort[t] = pPort[u] => t = u

Joined(p) ==
    \A c \in In(channels[p]) :
        /\ owner[c.of] # Nothing
        /\ owner[c.of] = p =>
              [of |-> c.of, port |-> c.peer, peer |-> c.port] \in In(channels[Other(p)])

(* A reservation names its host and a channel the host has.                *)
Names(r, p) ==
    /\ wChannel[r] # Nothing /\ wChannel[r].host = p
    /\ \E c \in In(channels[p]) : c.of = wChannel[r].of
Theirs(r) == owner[wChannel[r].of] # wChannel[r].host

(* What the step j of a host's forward unit, of a server's backward unit,  *)
(* was begun with.                                                         *)
Hosts(p, j) == j.of # Nothing /\ j.users \in Users /\ Names(j.reserve, p)
Serves(p, j) == Names(j.reserve, Other(p)) /\ (j.of = Nothing => Theirs(j.reserve))

Reserves(p) ==
    /\ \A m \in In(wire[p]) : ~IsShadow(m) => Names(m.reserve, p)
    /\ ~Idle(p, "forward") => Hosts(p, job[p]["forward"])
    /\ ~Idle(p, "backward") => Serves(p, job[p]["backward"])

Given ==
    \A use \in uses : /\ \E p \in Peer : Names(use.reserve, p)
                      /\ use.of = Nothing => Theirs(use.reserve)

IInv ==
    /\ TypeOK
    /\ \A t \in Shadow : Under(t)
    /\ \A p \in Peer : Ports(p) /\ Joined(p) /\ Reserves(p)
    /\ Given
    /\ OneHolder
-----------------------------------------------------------------------------
LEMMA Smallest ==
    ASSUME NEW S \in SUBSET Nat, S # {}
    PROVE  Min(S) \in S
<1>1. PICK R : R = {pair \in Nat \X Nat : pair[1] < pair[2]}
  OBVIOUS
<1>2. IsWellFoundedOn(R, Nat)
  BY <1>1, NatLessThanWellFounded DEF OpToRel
<1>3. PICK x \in S : \A y \in S : <<y, x>> \notin R
  BY <1>2, WFMin
<1>4. ASSUME NEW y \in S PROVE x <= y
  <2>1. <<y, x>> \in Nat \X Nat /\ <<y, x>>[1] = y /\ <<y, x>>[2] = x
    OBVIOUS
  <2>2. ~(y < x)
    BY <1>1, <1>3, <2>1
  <2>3. QED
    BY <2>2
<1>5. QED
  BY <1>4 DEF Min

LEMMA TwoPeers ==
    ASSUME NEW p \in Peer
    PROVE  /\ Other(p) \in Peer /\ Other(p) # p /\ Other(Other(p)) = p
           /\ \A x \in Peer : x = p \/ x = Other(p)
BY DEF Peer, Other

LEMMA TwoSides ==
    /\ "HOST" \in Side /\ "SERVER" \in Side /\ "HOST" # "SERVER"
    /\ \A s \in Side : s = "HOST" \/ s = "SERVER"
    /\ "forward" \in Unit /\ "backward" \in Unit /\ "forward" # "backward"
    /\ \A u \in Unit : u = "forward" \/ u = "backward"
BY DEF Side, Unit

(* The two kinds of packets.                                               *)
LEMMA Kinds ==
    /\ \A m \in ShadowPacket : IsShadow(m) /\ m # Nothing
    /\ \A m \in ReservePacket : ~IsShadow(m)
<1>1. ASSUME NEW m \in ShadowPacket PROVE IsShadow(m) /\ m # Nothing
  <2>1. DOMAIN m = {"shadow", "port", "failed"}
    BY DEF ShadowPacket
  <2>2. IsShadow(m)
    BY <2>1 DEF IsShadow
  <2>3. QED
    BY <2>2, NothingAssumption
<1>2. ASSUME NEW m \in ReservePacket PROVE ~IsShadow(m)
  <2>1. DOMAIN m = {"reserve", "users"}
    BY DEF ReservePacket
  <2>2. QED
    BY <2>1 DEF IsShadow
<1>3. QED
  BY <1>1, <1>2

LEMMA PacketFields ==
    ASSUME NEW m \in ShadowPacket
    PROVE  /\ m.shadow \in Shadow /\ m.port \in AnyPort \cup {0} /\ m.failed \in BOOLEAN
           /\ [m EXCEPT !.failed = TRUE] \in ShadowPacket
           /\ [m EXCEPT !.failed = TRUE].shadow = m.shadow /\ [m EXCEPT !.failed = TRUE].failed = TRUE
BY DEF ShadowPacket

LEMMA PortSet ==
    ASSUME NEW m \in ShadowPacket, NEW x \in AnyPort
    PROVE  /\ [m EXCEPT !.port = x] \in ShadowPacket
           /\ [m EXCEPT !.port = x].shadow = m.shadow /\ [m EXCEPT !.port = x].port = x
           /\ [m EXCEPT !.port = x].failed = m.failed
BY DEF ShadowPacket

(* Sequences of packets: t is s without its first element, or with one     *)
(* more.                                                                   *)
Left(s, m, t) ==
    /\ In(s) = In(t) \cup {m}
    /\ \A u : Once(s, u) => Once(t, u)
    /\ \A u : Of(m, u) /\ Once(s, u) => \A x \in In(t) : ~Of(x, u)

Longer(s, m, t) ==
    /\ In(t) = In(s) \cup {m}
    /\ \A u : Once(s, u) /\ (Of(m, u) => \A x \in In(s) : ~Of(x, u)) => Once(t, u)

LEMMA LeftIs ==
    ASSUME NEW T, NEW s \in Seq(T), s # <<>>
    PROVE  Left(s, Head(s), Tail(s)) /\ Tail(s) \in Seq(T) /\ Head(s) \in T
<1>1. PICK r, h : r = Tail(s) /\ h = Head(s)
  OBVIOUS
<1>2. /\ r \in Seq(T) /\ h \in T /\ Len(s) \in Nat \ {0} /\ DOMAIN s = 1..Len(s)
      /\ DOMAIN r = 1..Len(s) - 1 /\ h = s[1]
      /\ \A i \in 1..Len(s) - 1 : r[i] = s[i + 1]
  BY <1>1, EmptySeq, HeadTailProperties, LenProperties
<1>3. /\ \A i \in DOMAIN s : i = 1 \/ (i - 1 \in DOMAIN r /\ s[i] = r[i - 1])
      /\ \A i \in DOMAIN r : i + 1 \in DOMAIN s /\ r[i] = s[i + 1] /\ i + 1 # 1
      /\ \A i, j \in DOMAIN r : i + 1 = j + 1 => i = j
      /\ 1 \in DOMAIN s /\ h = s[1]
  BY <1>2
<1>4. In(s) = In(r) \cup {h}
  <2>1. In(s) \subseteq In(r) \cup {h}
    BY <1>3 DEF In
  <2>2. In(r) \subseteq In(s)
    <3>1. ASSUME NEW i \in DOMAIN r PROVE \E j \in DOMAIN s : r[i] = s[j]
      BY <1>3
    <3>2. QED
      BY <3>1 DEF In
  <2>3. h \in In(s)
    BY <1>3 DEF In
  <2>4. QED
    BY <2>1, <2>2, <2>3
<1>5. ASSUME NEW u, Once(s, u)
      PROVE  Once(r, u) /\ (Of(h, u) => \A x \in In(r) : ~Of(x, u))
  <2>1. ASSUME NEW i \in DOMAIN r, NEW j \in DOMAIN r, Of(r[i], u), Of(r[j], u) PROVE i = j
    <3>1. i + 1 \in DOMAIN s /\ j + 1 \in DOMAIN s /\ Of(s[i + 1], u) /\ Of(s[j + 1], u)
      BY <1>3, <2>1
    <3>2. i + 1 = j + 1
      BY <1>5, <3>1 DEF Once
    <3>3. QED
      BY <1>3, <3>2
  <2>2. ASSUME Of(h, u), NEW i \in DOMAIN r PROVE ~Of(r[i], u)
    <3>1. i + 1 \in DOMAIN s /\ 1 \in DOMAIN s /\ i + 1 # 1 /\ Of(s[1], u) /\ r[i] = s[i + 1]
      BY <1>3, <2>2
    <3>2. ~Of(s[i + 1], u)
      BY <1>5, <3>1 DEF Once
    <3>3. QED
      BY <3>1, <3>2
  <2>3. QED
    BY <2>1, <2>2 DEF Once, In
<1>6. Left(s, h, r)
  BY <1>4, <1>5 DEF Left
<1>7. QED
  BY <1>1, <1>2, <1>6

LEMMA LongerIs ==
    ASSUME NEW T, NEW s \in Seq(T), NEW m \in T
    PROVE  Longer(s, m, Append(s, m)) /\ Append(s, m) \in Seq(T)
<1>1. PICK r : r = Append(s, m)
  OBVIOUS
<1>2. /\ r \in Seq(T) /\ Len(s) \in Nat /\ DOMAIN s = 1..Len(s)
      /\ DOMAIN r = 1..Len(s) + 1 /\ r[Len(s) + 1] = m
      /\ \A i \in 1..Len(s) : r[i] = s[i]
  BY <1>1, AppendProperties, LenProperties
<1>3. PICK n : n = Len(s) + 1
  OBVIOUS
<1>4. /\ \A i \in DOMAIN r : (i \in DOMAIN s /\ r[i] = s[i]) \/ i = n
      /\ \A i \in DOMAIN s : i \in DOMAIN r /\ r[i] = s[i]
      /\ n \in DOMAIN r /\ r[n] = m
  BY <1>2, <1>3
<1>5. In(r) = In(s) \cup {m}
  <2>1. In(r) \subseteq In(s) \cup {m}
    BY <1>4 DEF In
  <2>2. In(s) \subseteq In(r)
    BY <1>4 DEF In
  <2>3. m \in In(r)
    BY <1>4 DEF In
  <2>4. QED
    BY <2>1, <2>2, <2>3
<1>6. ASSUME NEW u, Once(s, u), Of(m, u) => \A x \in In(s) : ~Of(x, u)
      PROVE  Once(r, u)
  <2>1. \A i \in DOMAIN s : Of(m, u) => ~Of(s[i], u)
    BY <1>6 DEF In
  <2>2. QED
    BY <1>4, <1>6, <2>1 DEF Once
<1>7. Longer(s, m, r)
  BY <1>5, <1>6 DEF Longer
<1>8. QED
  BY <1>1, <1>2, <1>7

LEMMA InTyped ==
    ASSUME NEW T, NEW s \in Seq(T)
    PROVE  In(s) \subseteq T
<1>1. \A i \in DOMAIN s : s[i] \in T
  BY LenProperties
<1>2. QED
  BY <1>1 DEF In
-----------------------------------------------------------------------------
(* What no step takes back.                                                *)
Grows ==
    /\ \A p \in Peer : In(channels[p]) \subseteq In(channels'[p])
    /\ \A t \in Shadow : owner[t] # Nothing => owner'[t] = owner[t]
    /\ \A r \in Reserve : wChannel[r] # Nothing => wChannel'[r] = wChannel[r]

(* A step that does not touch t.                                           *)
Steady(t) ==
    owner'[t] = owner[t] /\ iType'[t] = iType[t] /\ pPort'[t] = pPort[t] /\ at'[t] = at[t]

LEMMA FitsKept ==
    ASSUME NEW p \in Peer, NEW t \in Shadow, NEW m, m.shadow = t, Fits(p, m), Grows, Steady(t)
    PROVE  Fits(p, m)'
BY DEF Fits, Grows, Steady

LEMMA UnderKept ==
    ASSUME NEW t \in Shadow, Under(t), Grows, Steady(t),
           \A p \in Peer : Once(wire[p], t)',
           \A p \in Peer : \A m \in In(wire'[p]) : Of(m, t) => m \in In(wire[p]),
           \A p \in Peer : Queues(p, t)' => Queues(p, t) /\ reply'[p] = reply[p]
    PROVE  Under(t)'
<1>1. \A p \in Peer : Other(p) \in Peer
  BY TwoPeers
<1>2. \A p \in Peer : OnWire(p, t)' => OnWire(p, t)
  BY DEF OnWire
<1>3. Token(t)'
  BY <1>1, <1>2 DEF Under, Token
<1>4. ASSUME NEW p \in Peer, NEW m \in In(wire'[p]), Of(m, t) PROVE Fits(p, m)'
  <2>1. Fits(p, m) /\ m.shadow = t
    BY <1>4 DEF Under, Of
  <2>2. QED
    BY <2>1, FitsKept
<1>5. ASSUME NEW p \in Peer, Queues(p, t)' PROVE Fits(p, reply[p])'
  <2>1. PICK m : m = reply[p]
    OBVIOUS
  <2>2. Fits(p, m) /\ m.shadow = t /\ reply'[p] = m
    BY <1>5, <2>1 DEF Under, Queues, Of
  <2>3. Fits(p, m)'
    BY <2>2, FitsKept
  <2>4. QED
    BY <2>2, <2>3
<1>6. /\ (owner[t] = Nothing)' => (at[t]["HOST"] = "none" /\ at[t]["SERVER"] = "none")'
      /\ (at[t]["HOST"] \in {"none", "asked"})' => (pPort[t] = 0)'
      /\ (at[t]["HOST"] = "offered")' => (pPort[t] # 0 <=> iType[t] = "UDP")'
  BY DEF Under, Steady
<1>7. QED
  BY <1>3, <1>4, <1>5, <1>6 DEF Under

(* p's backward unit has taken the packet of t, and is about to queue n or *)
(* nothing.                                                                *)
Reacted(p, t, n) ==
    /\ wire' \in [Peer -> Seq(ShadowPacket \cup ReservePacket)]
    /\ reply' \in [Peer -> ShadowPacket \cup {Nothing}]
    /\ \A x \in Peer : In(wire'[x]) \subseteq In(wire[x]) /\ \A m \in In(wire'[x]) : ~Of(m, t)
    /\ \A x \in Peer, u \in Shadow : Once(wire[x], u) => Once(wire'[x], u)
    /\ reply'[Other(p)] = reply[Other(p)] /\ ~Queues(Other(p), t)
    /\ reply'[p] = Nothing \/ (reply'[p] = n /\ n.shadow = t)

LEMMA Reading ==
    ASSUME TypeOK, NEW p \in Peer, NEW m, Reads(p, m)
    PROVE  /\ m \in ShadowPacket \cup ReservePacket /\ m \in In(wire[Other(p)])
           /\ reply[p] = Nothing /\ Idle(p, "backward")
           /\ ReadNext(p) => /\ wire' \in [Peer -> Seq(ShadowPacket \cup ReservePacket)]
                             /\ Left(wire[Other(p)], m, wire'[Other(p)]) /\ wire'[p] = wire[p]
<1>1. PICK q, s, T : q = Other(p) /\ s = wire[q] /\ T = ShadowPacket \cup ReservePacket
  OBVIOUS
<1>2. /\ q \in Peer /\ q # p /\ wire \in [Peer -> Seq(T)] /\ s \in Seq(T)
      /\ s # <<>> /\ m = Head(s) /\ reply[p] = Nothing /\ Idle(p, "backward")
  BY <1>1, TwoPeers DEF TypeOK, Reads
<1>3. PICK r : r = Tail(s)
  OBVIOUS
<1>4. Left(s, m, r) /\ r \in Seq(T) /\ m \in T
  BY <1>2, <1>3, LeftIs
<1>5. m \in In(s)
  BY <1>4 DEF Left
<1>6. ASSUME ReadNext(p)
      PROVE  wire' \in [Peer -> Seq(T)] /\ wire'[q] = r /\ wire'[p] = wire[p]
  <2>1. PICK Q : Q = Seq(T)
    OBVIOUS
  <2>2. wire' = [wire EXCEPT ![q] = r]
    BY <1>1, <1>3, <1>6 DEF ReadNext
  <2>3. wire \in [Peer -> Q] /\ r \in Q
    BY <1>2, <1>4, <2>1
  <2>4. wire' \in [Peer -> Q] /\ wire'[q] = r /\ wire'[p] = wire[p]
    BY <1>2, <2>2, <2>3
  <2>5. QED
    BY <2>1, <2>4
<1>7. QED
  BY <1>1, <1>2, <1>4, <1>5, <1>6

LEMMA ReactedIs ==
    ASSUME IInv, NEW p \in Peer, NEW t \in Shadow, NEW m, Reads(p, m), IsShadow(m), m.shadow = t,
           ReadNext(p), NEW n \in ShadowPacket, n.shadow = t,
           reply' = reply \/ reply' = [reply EXCEPT ![p] = n]
    PROVE  Reacted(p, t, n)
<1>1. PICK q : q = Other(p)
  OBVIOUS
<1>2. q \in Peer /\ q # p /\ Other(q) = p /\ \A x \in Peer : x = p \/ x = q
  BY <1>1, TwoPeers
<1>3. /\ m \in In(wire[q]) /\ reply[p] = Nothing
      /\ wire' \in [Peer -> Seq(ShadowPacket \cup ReservePacket)]
      /\ Left(wire[q], m, wire'[q]) /\ wire'[p] = wire[p]
  BY <1>1, Reading DEF IInv
<1>4. Token(t) /\ Of(m, t)
  BY DEF IInv, Under, Of
<1>5. OnWire(q, t)
  BY <1>3, <1>4 DEF OnWire
<1>6. ~Queues(q, t) /\ ~OnWire(p, t) /\ Once(wire[q], t)
  BY <1>2, <1>4, <1>5 DEF Token
<1>7. /\ reply' \in [Peer -> ShadowPacket \cup {Nothing}] /\ reply'[q] = reply[q]
      /\ reply'[p] = Nothing \/ reply'[p] = n
  <2>1. reply \in [Peer -> ShadowPacket \cup {Nothing}]
    BY DEF IInv, TypeOK
  <2>2. QED
    BY <1>2, <1>3, <2>1
<1>8. ASSUME NEW x \in Peer
      PROVE  /\ In(wire'[x]) \subseteq In(wire[x]) /\ \A y \in In(wire'[x]) : ~Of(y, t)
             /\ \A u \in Shadow : Once(wire[x], u) => Once(wire'[x], u)
  <2>1. CASE x = p
    BY <1>3, <1>6, <2>1 DEF OnWire
  <2>2. CASE x = q
    BY <1>3, <1>4, <1>6, <2>2 DEF Left
  <2>3. QED
    BY <1>2, <2>1, <2>2
<1>9. QED
  BY <1>1, <1>3, <1>6, <1>7, <1>8 DEF Reacted

LEMMA OtherUnder ==
    ASSUME NEW p \in Peer, NEW t \in Shadow, NEW n, Reacted(p, t, n), Grows,
           NEW u \in Shadow, u # t, Under(u), Steady(u)
    PROVE  Under(u)'
<1>1. \A x \in Peer : Once(wire[x], u)
  BY DEF Under, Token
<1>2. \A x \in Peer : Once(wire[x], u)'
  BY <1>1 DEF Reacted
<1>3. ASSUME NEW x \in Peer, Queues(x, u)' PROVE Queues(x, u) /\ reply'[x] = reply[x]
  <2>1. x = p \/ x = Other(p)
    BY TwoPeers
  <2>2. x # p
    BY <1>3 DEF Reacted, Queues, Of
  <2>3. QED
    BY <1>3, <2>1, <2>2 DEF Reacted, Queues
<1>4. \A x \in Peer : \A m \in In(wire'[x]) : Of(m, u) => m \in In(wire[x])
  BY DEF Reacted
<1>5. QED
  BY <1>2, <1>3, <1>4, UnderKept

LEMMA ThisUnder ==
    ASSUME NEW p \in Peer, NEW t \in Shadow, NEW n, Reacted(p, t, n), Under(t),
           reply'[p] = n => Fits(p, n)',
           owner'[t] # Nothing,
           at'[t]["HOST"] \in {"none", "asked"} => pPort'[t] = 0,
           at'[t]["HOST"] = "offered" => (pPort'[t] # 0 <=> iType'[t] = "UDP")
    PROVE  Under(t)'
<1>1. Other(p) \in Peer /\ \A x \in Peer : (x = p \/ x = Other(p)) /\ Other(x) \in Peer
  BY TwoPeers
<1>2. \A x \in Peer : ~OnWire(x, t)' /\ Once(wire[x], t)'
  BY DEF Reacted, OnWire, Under, Token
<1>3. ~Queues(Other(p), t)'
  BY DEF Reacted, Queues
<1>4. \A x \in Peer : Queues(x, t)' => x = p /\ Other(x) = Other(p)
  BY <1>1, <1>3
<1>5. Token(t)'
  BY <1>1, <1>2, <1>3, <1>4 DEF Token
<1>6. ASSUME NEW x \in Peer, Queues(x, t)' PROVE Fits(x, reply[x])'
  <2>1. x = p /\ reply'[x] # Nothing
    BY <1>4, <1>6 DEF Queues
  <2>2. reply'[p] = n
    BY <2>1 DEF Reacted
  <2>3. QED
    BY <2>1, <2>2
<1>7. \A x \in Peer : \A m \in In(wire'[x]) : ~Of(m, t)
  BY DEF Reacted
<1>8. QED
  BY <1>5, <1>6, <1>7 DEF Under
-----------------------------------------------------------------------------
(* Channels and reservations.                                              *)
LEMMA JoinedKept ==
    ASSUME TypeOK, NEW p \in Peer, Joined(p), Grows,
           \A c \in In(channels'[p]) :
              \/ c \in In(channels[p])
              \/ /\ owner'[c.of] # Nothing
                 /\ owner'[c.of] = p =>
                       [of |-> c.of, port |-> c.peer, peer |-> c.port] \in In(channels'[Other(p)])
    PROVE  Joined(p)'
<1>1. Other(p) \in Peer
  BY TwoPeers
<1>2. \A c \in In(channels[p]) : c.of \in Shadow
  <2>1. channels[p] \in Seq(Channel)
    BY DEF TypeOK
  <2>2. In(channels[p]) \subseteq Channel
    BY <2>1, InTyped
  <2>3. QED
    BY <2>2 DEF Channel
<1>3. \A c \in In(channels[p]) :
         /\ owner'[c.of] # Nothing
         /\ owner'[c.of] = p =>
               [of |-> c.of, port |-> c.peer, peer |-> c.port] \in In(channels'[Other(p)])
  BY <1>1, <1>2 DEF Joined, Grows
<1>4. QED
  BY <1>3 DEF Joined

LEMMA NamesKept ==
    ASSUME NEW p \in Peer, NEW r \in Reserve, Names(r, p), Grows
    PROVE  Names(r, p)'
BY DEF Names, Grows

LEMMA TheirsKept ==
    ASSUME TypeOK, NEW p \in Peer, NEW r \in Reserve, Names(r, p), Joined(p), Theirs(r), Grows
    PROVE  Theirs(r)'
<1>1. PICK c \in In(channels[p]) : c.of = wChannel[r].of
  BY DEF Names
<1>2. In(channels[p]) \subseteq Channel
  BY InTyped DEF TypeOK
<1>3. c.of \in Shadow /\ owner[c.of] # Nothing
  BY <1>1, <1>2 DEF Joined, Channel
<1>4. wChannel'[r] = wChannel[r] /\ owner'[wChannel[r].of] = owner[wChannel[r].of]
  BY <1>1, <1>3 DEF Grows, Names
<1>5. QED
  BY <1>4 DEF Theirs

LEMMA PacketsTyped ==
    ASSUME TypeOK, NEW p \in Peer, NEW m \in In(wire[p])
    PROVE  /\ IsShadow(m) => m \in ShadowPacket
           /\ ~IsShadow(m) => m \in ReservePacket /\ m.reserve \in Reserve /\ m.users \in Users
<1>1. wire[p] \in Seq(ShadowPacket \cup ReservePacket)
  BY DEF TypeOK
<1>2. m \in ShadowPacket \cup ReservePacket
  BY <1>1, InTyped
<1>3. m \in ReservePacket => m.reserve \in Reserve /\ m.users \in Users
  BY DEF ReservePacket
<1>4. QED
  BY <1>2, <1>3, Kinds

LEMMA JobTyped ==
    ASSUME TypeOK, NEW p \in Peer, NEW u \in Unit, ~Idle(p, u)
    PROVE  /\ job[p][u] \in Job /\ job[p][u].reserve \in Reserve
           /\ job[p][u].of \in Shadow \cup {Nothing} /\ job[p][u].users \in SUBSET Direction
           /\ job[p][u].todo \in SUBSET Direction /\ job[p][u].lent \in Direction \cup {"no", "bad"}
<1>1. job[p][u] \in Job
  BY DEF TypeOK, Idle
<1>2. QED
  BY <1>1 DEF Job

(* What a step of ReserveChannel was begun with stays.                     *)
LEMMA BegunKept ==
    ASSUME IInv, NEW p \in Peer, Grows
    PROVE  /\ \A m \in In(wire[p]) : ~IsShadow(m) => Names(m.reserve, p)'
           /\ \A j : ~Idle(p, "forward") /\ j = job[p]["forward"] => Hosts(p, j)'
           /\ \A j : ~Idle(p, "backward") /\ j = job[p]["backward"] => Serves(p, j)'
<1>1. TypeOK /\ Reserves(p) /\ Joined(Other(p)) /\ Other(p) \in Peer
  BY TwoPeers DEF IInv
<1>2. ASSUME NEW m \in In(wire[p]), ~IsShadow(m) PROVE Names(m.reserve, p)'
  <2>1. m.reserve \in Reserve /\ Names(m.reserve, p)
    BY <1>1, <1>2, PacketsTyped DEF Reserves
  <2>2. QED
    BY <2>1, NamesKept
<1>3. ASSUME NEW j, ~Idle(p, "forward"), j = job[p]["forward"] PROVE Hosts(p, j)'
  <2>1. j.reserve \in Reserve /\ Names(j.reserve, p) /\ j.of # Nothing /\ j.users \in Users
    BY <1>1, <1>3, JobTyped, TwoSides DEF Reserves, Hosts
  <2>2. Names(j.reserve, p)'
    BY <2>1, NamesKept
  <2>3. QED
    BY <2>1, <2>2 DEF Hosts
<1>4. ASSUME NEW j, ~Idle(p, "backward"), j = job[p]["backward"] PROVE Serves(p, j)'
  <2>1. j.reserve \in Reserve /\ Names(j.reserve, Other(p)) /\ (j.of = Nothing => Theirs(j.reserve))
    BY <1>1, <1>4, JobTyped, TwoSides DEF Reserves, Serves
  <2>2. Names(j.reserve, Other(p))'
    BY <1>1, <2>1, NamesKept
  <2>3. j.of = Nothing => Theirs(j.reserve)'
    BY <1>1, <2>1, TheirsKept
  <2>4. QED
    BY <2>2, <2>3 DEF Serves
<1>5. QED
  BY <1>2, <1>3, <1>4

LEMMA ReservesSet ==
    ASSUME IInv, NEW p \in Peer, Grows,
           \A m \in In(wire'[p]) : ~IsShadow(m) => m \in In(wire[p]) \/ Names(m.reserve, p)',
           NEW f, f = job'[p]["forward"], NEW b, b = job'[p]["backward"],
           f = Nothing \/ f = job[p]["forward"] \/ Hosts(p, f)',
           b = Nothing \/ b = job[p]["backward"] \/ Serves(p, b)'
    PROVE  Reserves(p)'
<1>1. \A m \in In(wire'[p]) : ~IsShadow(m) => Names(m.reserve, p)'
  BY BegunKept
<1>2. f # Nothing => Hosts(p, f)'
  BY BegunKept DEF Idle
<1>3. b # Nothing => Serves(p, b)'
  BY BegunKept DEF Idle
<1>4. Hosts(p, job[p]["forward"])' <=> Hosts(p, f)'
  OBVIOUS
<1>5. Serves(p, job[p]["backward"])' <=> Serves(p, b)'
  OBVIOUS
<1>6. QED
  BY <1>1, <1>2, <1>3, <1>4, <1>5 DEF Reserves, Idle

(* The jobs, and what is on the wires of ReserveChannel, are as they were. *)
LEMMA ReservesKept ==
    ASSUME IInv, NEW p \in Peer, Grows, job' = job,
           \A m \in In(wire'[p]) : ~IsShadow(m) => m \in In(wire[p])
    PROVE  Reserves(p)'
<1>1. PICK f, b : f = job[p]["forward"] /\ b = job[p]["backward"]
  OBVIOUS
<1>2. f = job'[p]["forward"] /\ b = job'[p]["backward"]
  BY <1>1
<1>3. QED
  BY <1>1, <1>2, ReservesSet

LEMMA GivenKept ==
    ASSUME IInv, Grows, uses' = uses
    PROVE  Given'
<1>1. ASSUME NEW use \in uses
      PROVE  /\ \E p \in Peer : Names(use.reserve, p)'
             /\ use.of = Nothing => Theirs(use.reserve)'
  <2>1. use.reserve \in Reserve /\ TypeOK
    BY DEF IInv, TypeOK, Use
  <2>2. PICK p \in Peer : Names(use.reserve, p)
    BY DEF IInv, Given
  <2>3. use.of = Nothing => Theirs(use.reserve)
    BY DEF IInv, Given
  <2>4. Joined(p)
    BY DEF IInv
  <2>5. QED
    BY <2>1, <2>2, <2>3, <2>4, NamesKept, TheirsKept
<1>2. QED
  BY <1>1 DEF Given
-----------------------------------------------------------------------------
(* Ports.                                                                  *)
LEMMA ObjectsAre ==
    ASSUME NEW p \in Peer, NEW x
    PROVE  /\ x \in ObjectPorts(p) <=> \E t \in Shadow : Object(p, t) /\ pPort[t] = x
           /\ x \in ObjectPorts(p)' <=> \E t \in Shadow : Object(p, t)' /\ pPort'[t] = x
BY DEF ObjectPorts, Object

LEMMA ChannelMore ==
    ASSUME TypeOK, NEW p \in Peer, NEW c \in Channel,
           channels' = [channels EXCEPT ![p] = Append(@, c)]
    PROVE  /\ channels' \in [Peer -> Seq(Channel)]
           /\ channels'[Other(p)] = channels[Other(p)]
           /\ In(channels'[p]) = In(channels[p]) \cup {c}
           /\ ChannelPorts(p)' = ChannelPorts(p) \cup {c.port}
           /\ /\ c.port \notin ChannelPorts(p)
              /\ \A i, j \in DOMAIN channels[p] : channels[p][i].port = channels[p][j].port => i = j
              => \A i, j \in DOMAIN channels'[p] : channels'[p][i].port = channels'[p][j].port => i = j
<1>1. PICK s, Q : s = channels[p] /\ Q = Seq(Channel)
  OBVIOUS
<1>2. channels \in [Peer -> Q] /\ s \in Seq(Channel) /\ Other(p) \in Peer /\ Other(p) # p
  BY <1>1, TwoPeers DEF TypeOK
<1>3. PICK r : r = Append(s, c)
  OBVIOUS
<1>4. /\ r \in Q /\ Len(s) \in Nat /\ DOMAIN s = 1..Len(s)
      /\ DOMAIN r = 1..Len(s) + 1 /\ r[Len(s) + 1] = c
      /\ \A i \in 1..Len(s) : r[i] = s[i]
  BY <1>1, <1>2, <1>3, AppendProperties, LenProperties
<1>5. channels' = [channels EXCEPT ![p] = r]
  BY <1>1, <1>3
<1>6. /\ channels' \in [Peer -> Q] /\ channels'[p] = r
      /\ channels'[Other(p)] = channels[Other(p)]
  BY <1>2, <1>4, <1>5
<1>7. PICK n : n = Len(s) + 1
  OBVIOUS
<1>8. /\ \A i \in DOMAIN r : (i \in DOMAIN s /\ r[i] = s[i]) \/ i = n
      /\ \A i \in DOMAIN s : i \in DOMAIN r /\ r[i] = s[i]
      /\ n \in DOMAIN r /\ r[n] = c
  BY <1>4, <1>7
<1>9. In(r) = In(s) \cup {c}
  <2>1. In(r) \subseteq In(s) \cup {c}
    BY <1>8 DEF In
  <2>2. In(s) \subseteq In(r)
    BY <1>8 DEF In
  <2>3. c \in In(r)
    BY <1>8 DEF In
  <2>4. QED
    BY <2>1, <2>2, <2>3
<1>10. {r[i].port : i \in DOMAIN r} = {s[i].port : i \in DOMAIN s} \cup {c.port}
  <2>1. \A i \in DOMAIN r : r[i].port \in {s[j].port : j \in DOMAIN s} \cup {c.port}
    BY <1>8
  <2>2. \A i \in DOMAIN s : s[i].port \in {r[j].port : j \in DOMAIN r}
    BY <1>8
  <2>3. c.port \in {r[j].port : j \in DOMAIN r}
    BY <1>8
  <2>4. QED
    BY <2>1, <2>2, <2>3
<1>11. ASSUME c.port \notin {s[i].port : i \in DOMAIN s},
              \A i, j \in DOMAIN s : s[i].port = s[j].port => i = j
       PROVE  \A i, j \in DOMAIN r : r[i].port = r[j].port => i = j
  <2>1. \A i \in DOMAIN s : s[i].port # c.port
    BY <1>11
  <2>2. QED
    BY <1>8, <1>11, <2>1
<1>12. /\ ChannelPorts(p) = {s[i].port : i \in DOMAIN s}
       /\ ChannelPorts(p)' = {r[i].port : i \in DOMAIN r}
  BY <1>1, <1>6 DEF ChannelPorts
<1>13. QED
  BY <1>1, <1>6, <1>9, <1>10, <1>11, <1>12

(* The objects of p other than t's hold what they held.                    *)
Elsewhere(p, t) ==
    \A u \in Shadow : u # t => (Object(p, u)' <=> Object(p, u)) /\ pPort'[u] = pPort[u]

LEMMA ObjectsKept ==
    ASSUME NEW p \in Peer, Ports(p),
           \A t \in Shadow : Object(p, t)' <=> Object(p, t),
           \A t \in Shadow : Object(p, t) => pPort'[t] = pPort[t]
    PROVE  /\ ObjectPorts(p)' = ObjectPorts(p)
           /\ \A u, v \in Shadow : Object(p, u)' /\ Object(p, v)' /\ pPort'[u] = pPort'[v] => u = v
BY ObjectsAre DEF Ports

LEMMA PortsKept ==
    ASSUME NEW p \in Peer, Ports(p), bound'[p] = bound[p], channels'[p] = channels[p],
           \A t \in Shadow : Object(p, t)' <=> Object(p, t),
           \A t \in Shadow : Object(p, t) => pPort'[t] = pPort[t]
    PROVE  Ports(p)'
<1>1. ChannelPorts(p)' = ChannelPorts(p)
  BY DEF ChannelPorts
<1>2. QED
  BY <1>1, ObjectsKept DEF Ports

LEMMA PortsOffered ==
    ASSUME NEW p \in Peer, NEW t \in Shadow, NEW x, Ports(p), Elsewhere(p, t),
           x \notin bound[p], bound'[p] = bound[p] \cup {x}, channels'[p] = channels[p],
           ~Object(p, t), Object(p, t)', pPort'[t] = x
    PROVE  Ports(p)'
<1>1. ChannelPorts(p)' = ChannelPorts(p)
  BY DEF ChannelPorts
<1>2. ObjectPorts(p)' = ObjectPorts(p) \cup {x}
  <2>1. ASSUME NEW y PROVE y \in ObjectPorts(p)' <=> y \in ObjectPorts(p) \/ y = x
    <3>1. (\E u \in Shadow : Object(p, u)' /\ pPort'[u] = y)
             <=> (\E u \in Shadow : Object(p, u) /\ pPort[u] = y) \/ y = x
      BY DEF Elsewhere
    <3>2. QED
      BY <3>1, ObjectsAre
  <2>2. QED
    BY <2>1
<1>3. x \notin ChannelPorts(p) /\ x \notin ObjectPorts(p)
  BY DEF Ports
<1>4. \A u \in Shadow : Object(p, u) => pPort[u] # x
  BY <1>3, ObjectsAre
<1>5. \A u, v \in Shadow : Object(p, u)' /\ Object(p, v)' /\ pPort'[u] = pPort'[v] => u = v
  BY <1>4 DEF Ports, Elsewhere
<1>6. QED
  BY <1>1, <1>2, <1>3, <1>5 DEF Ports

LEMMA PortsLost ==
    ASSUME NEW p \in Peer, NEW t \in Shadow, Ports(p), Elsewhere(p, t), Object(p, t), ~Object(p, t)'
    PROVE  /\ ObjectPorts(p)' = ObjectPorts(p) \ {pPort[t]}
           /\ pPort[t] \in ObjectPorts(p) /\ pPort[t] \notin ChannelPorts(p)
           /\ \A u, v \in Shadow : Object(p, u)' /\ Object(p, v)' /\ pPort'[u] = pPort'[v] => u = v
<1>1. ASSUME NEW y PROVE y \in ObjectPorts(p)' <=> y \in ObjectPorts(p) /\ y # pPort[t]
  <2>1. (\E u \in Shadow : Object(p, u)' /\ pPort'[u] = y)
           <=> (\E u \in Shadow : Object(p, u) /\ pPort[u] = y) /\ y # pPort[t]
    BY DEF Elsewhere, Ports
  <2>2. QED
    BY <2>1, ObjectsAre
<1>2. pPort[t] \in ObjectPorts(p)
  BY ObjectsAre
<1>3. \A u, v \in Shadow : Object(p, u)' /\ Object(p, v)' /\ pPort'[u] = pPort'[v] => u = v
  BY DEF Elsewhere, Ports
<1>4. QED
  BY <1>1, <1>2, <1>3 DEF Ports

LEMMA PortsClosed ==
    ASSUME NEW p \in Peer, NEW t \in Shadow, Ports(p), Elsewhere(p, t), Object(p, t), ~Object(p, t)',
           bound'[p] = bound[p] \ {pPort[t]}, channels'[p] = channels[p]
    PROVE  Ports(p)'
<1>1. ChannelPorts(p)' = ChannelPorts(p)
  BY DEF ChannelPorts
<1>2. QED
  BY <1>1, PortsLost DEF Ports

LEMMA PortsPassed ==
    ASSUME TypeOK, NEW p \in Peer, NEW t \in Shadow, Ports(p), Elsewhere(p, t),
           Object(p, t), ~Object(p, t)', bound'[p] = bound[p], NEW c \in Channel, c.port = pPort[t],
           channels' = [channels EXCEPT ![p] = Append(@, c)]
    PROVE  Ports(p)'
<1>1. /\ ObjectPorts(p)' = ObjectPorts(p) \ {c.port}
      /\ c.port \in ObjectPorts(p) /\ c.port \notin ChannelPorts(p)
      /\ \A u, v \in Shadow : Object(p, u)' /\ Object(p, v)' /\ pPort'[u] = pPort'[v] => u = v
  BY PortsLost
<1>2. /\ ChannelPorts(p)' = ChannelPorts(p) \cup {c.port}
      /\ \A i, j \in DOMAIN channels'[p] : channels'[p][i].port = channels'[p][j].port => i = j
  BY <1>1, ChannelMore DEF Ports
<1>3. QED
  BY <1>1, <1>2 DEF Ports

LEMMA PortsOpened ==
    ASSUME TypeOK, NEW p \in Peer, Ports(p), NEW c \in Channel, c.port \notin bound[p],
           bound'[p] = bound[p] \cup {c.port},
           channels' = [channels EXCEPT ![p] = Append(@, c)],
           \A t \in Shadow : Object(p, t)' <=> Object(p, t),
           \A t \in Shadow : Object(p, t) => pPort'[t] = pPort[t]
    PROVE  Ports(p)'
<1>1. /\ ObjectPorts(p)' = ObjectPorts(p)
      /\ \A u, v \in Shadow : Object(p, u)' /\ Object(p, v)' /\ pPort'[u] = pPort'[v] => u = v
  BY ObjectsKept
<1>2. c.port \notin ChannelPorts(p) /\ c.port \notin ObjectPorts(p)
  BY DEF Ports
<1>3. /\ ChannelPorts(p)' = ChannelPorts(p) \cup {c.port}
      /\ \A i, j \in DOMAIN channels'[p] : channels'[p][i].port = channels'[p][j].port => i = j
  BY <1>2, ChannelMore DEF Ports
<1>4. QED
  BY <1>1, <1>2, <1>3 DEF Ports
-----------------------------------------------------------------------------
(* The steps of MakeShadow.                                                *)
LEMMA Reaches ==
    ASSUME TypeOK, NEW t \in Shadow, NEW side \in Side, NEW step \in Step, Reach(t, side, step)
    PROVE  /\ at' \in [Shadow -> [Side -> Step]] /\ at'[t][side] = step
           /\ \A s \in Side : s # side => at'[t][s] = at[t][s]
           /\ \A u \in Shadow : u # t => at'[u] = at[u]
BY DEF TypeOK, Reach

LEMMA MakeStep ==
    ASSUME IInv, NEW p \in Peer, NEW t \in Shadow, NEW n, Reacted(p, t, n), Grows,
           UNCHANGED <<owner, iType, job, wChannel, uses>>,
           bound' \in [Peer -> SUBSET AnyPort], channels' \in [Peer -> Seq(Channel)],
           pPort' \in [Shadow -> AnyPort \cup {0}], at' \in [Shadow -> [Side -> Step]],
           \A u \in Shadow : u # t => at'[u] = at[u] /\ pPort'[u] = pPort[u],
           Under(t)', \A x \in Peer : Ports(x)' /\ Joined(x)'
    PROVE  IInv'
<1>1. TypeOK'
  BY DEF IInv, TypeOK, Reacted
<1>2. ASSUME NEW u \in Shadow PROVE Under(u)'
  <2>1. CASE u = t
    BY <2>1
  <2>2. CASE u # t
    <3>1. Steady(u) /\ Under(u)
      BY <2>2 DEF Steady, IInv
    <3>2. QED
      BY <2>2, <3>1, OtherUnder
  <2>3. QED
    BY <2>1, <2>2
<1>3. ASSUME NEW x \in Peer PROVE Reserves(x)'
  <2>1. In(wire'[x]) \subseteq In(wire[x])
    BY DEF Reacted
  <2>2. QED
    BY <2>1, ReservesKept
<1>4. Given'
  BY GivenKept
<1>5. OneHolder'
  BY DEF IInv, OneHolder, Idle
<1>6. QED
  BY <1>1, <1>2, <1>3, <1>4, <1>5 DEF IInv

(* The step binds no port and makes no channel.                            *)
LEMMA QuietStep ==
    ASSUME IInv, NEW p \in Peer, NEW t \in Shadow, NEW n, Reacted(p, t, n),
           UNCHANGED <<owner, iType, job, wChannel, uses, bound, channels, pPort>>,
           at' \in [Shadow -> [Side -> Step]],
           \A u \in Shadow : u # t => at'[u] = at[u],
           \A x \in Peer : Object(x, t)' <=> Object(x, t),
           reply'[p] = n => Fits(p, n)', owner[t] # Nothing,
           at'[t]["HOST"] \in {"none", "asked"} => pPort[t] = 0,
           at'[t]["HOST"] = "offered" => (pPort[t] # 0 <=> iType[t] = "UDP")
    PROVE  IInv'
<1>1. Grows
  BY DEF Grows
<1>2. Under(t)'
  BY ThisUnder DEF IInv
<1>3. ASSUME NEW x \in Peer PROVE Ports(x)' /\ Joined(x)'
  <2>1. \A u \in Shadow : Object(x, u)' <=> Object(x, u)
    BY DEF Object
  <2>2. Ports(x)'
    BY <2>1, PortsKept DEF IInv
  <2>3. Joined(x)'
    BY <1>1, JoinedKept DEF IInv
  <2>4. QED
    BY <2>2, <2>3
<1>4. /\ bound' \in [Peer -> SUBSET AnyPort] /\ channels' \in [Peer -> Seq(Channel)]
      /\ pPort' \in [Shadow -> AnyPort \cup {0}]
  BY DEF IInv, TypeOK
<1>5. QED
  BY <1>1, <1>2, <1>3, <1>4, MakeStep

(* What p's unit finds when it runs a step for the packet m of t.          *)
Runs(p, m, t, side, step) ==
    /\ TypeOK /\ Under(t) /\ Reads(p, m) /\ IsShadow(m) /\ m.shadow = t /\ ~m.failed
    /\ owner' = owner /\ iType' = iType /\ job' = job /\ wChannel' = wChannel /\ uses' = uses
    /\ m \in ShadowPacket /\ reply[p] = Nothing
    /\ Fits(Other(p), m) /\ at[t][side] = step
    /\ side = "HOST" => owner[t] = p
    /\ side = "SERVER" => owner[t] = Other(p)

LEMMA Reacting ==
    ASSUME IInv, NEW p \in Peer, NEW m, NEW t \in Shadow, NEW side \in Side, NEW step,
           Reacts(p, m, t, side, step)
    PROVE  Runs(p, m, t, side, step)
<1>1. /\ Reads(p, m) /\ IsShadow(m) /\ m.shadow = t /\ ~m.failed
      /\ Role(p, t) = side /\ at[t][side] = step
      /\ UNCHANGED <<owner, iType, job, wChannel, uses>>
  BY DEF Reacts
<1>2. TypeOK /\ Under(t) /\ Other(p) \in Peer
  BY TwoPeers DEF IInv
<1>3. m \in In(wire[Other(p)]) /\ reply[p] = Nothing
  BY <1>1, <1>2, Reading
<1>4. m \in ShadowPacket
  BY <1>1, <1>2, <1>3, PacketsTyped
<1>5. Fits(Other(p), m)
  BY <1>1, <1>2, <1>3 DEF Under, Of
<1>6. owner[t] \in Peer
  BY <1>1, <1>2, <1>5 DEF Fits, TypeOK
<1>7. owner[t] = p \/ owner[t] = Other(p)
  BY <1>6, TwoPeers
<1>8. QED
  BY <1>1, <1>2, <1>3, <1>4, <1>5, <1>7 DEF Role, Runs

(* A step that fails before the last.                                      *)
LEMMA FailStepHolds ==
    ASSUME IInv, NEW p \in Peer, NEW m, NEW t \in Shadow, NEW side \in Side, NEW step,
           Reacts(p, m, t, side, step), FailStep(p, m, t, side),
           UNCHANGED <<bound, channels, pPort>>,
           \/ side = "HOST" /\ step = "asked"
           \/ side = "SERVER" /\ step = "agreed"
    PROVE  IInv'
<1>1. /\ TypeOK /\ Under(t) /\ Reads(p, m) /\ IsShadow(m) /\ m.shadow = t /\ ~m.failed
      /\ UNCHANGED <<owner, iType, job, wChannel, uses>>
      /\ m \in ShadowPacket /\ Fits(Other(p), m) /\ at[t][side] = step
      /\ side = "HOST" => owner[t] = p
      /\ side = "SERVER" => owner[t] = Other(p)
  <2>1. Runs(p, m, t, side, step)
    BY Reacting
  <2>2. QED
    BY <2>1 DEF Runs
<1>2. Other(p) # p /\ Other(p) \in Peer /\ "fault" \in Step
  BY TwoPeers DEF Step
<1>3. PICK n : n = [m EXCEPT !.failed = TRUE]
  OBVIOUS
<1>4. n \in ShadowPacket /\ n.shadow = t /\ n.failed = TRUE
  BY <1>1, <1>3, PacketFields
<1>5. Reach(t, side, "fault") /\ ReadNext(p) /\ reply' = [reply EXCEPT ![p] = n]
  BY <1>3 DEF FailStep, Answer
<1>6. Reacted(p, t, n)
  BY <1>1, <1>4, <1>5, ReactedIs
<1>7. /\ at' \in [Shadow -> [Side -> Step]] /\ at'[t][side] = "fault"
      /\ \A s \in Side : s # side => at'[t][s] = at[t][s]
      /\ \A u \in Shadow : u # t => at'[u] = at[u]
  BY <1>1, <1>2, <1>5, Reaches
<1>8. CASE side = "HOST"
  <2>1. /\ owner[t] = p /\ at[t]["HOST"] = "asked" /\ at[t]["SERVER"] = "agreed" /\ pPort[t] = 0
    BY <1>1, <1>2, <1>8 DEF Fits, Under
  <2>2. at'[t]["HOST"] = "fault" /\ at'[t]["SERVER"] = "agreed"
    BY <1>7, <1>8, <2>1, TwoSides
  <2>3. Fits(p, n)'
    BY <1>1, <1>4, <2>1, <2>2, NothingAssumption DEF Fits
  <2>4. \A x \in Peer : ~Object(x, t) /\ ~Object(x, t)'
    BY <2>1 DEF Object
  <2>5. owner[t] # Nothing
    BY <2>1, NothingAssumption
  <2>6. QED
    BY <1>1, <1>6, <1>7, <2>2, <2>3, <2>4, <2>5, QuietStep
<1>9. CASE side = "SERVER"
  <2>1. /\ owner[t] = Other(p) /\ at[t]["SERVER"] = "agreed" /\ at[t]["HOST"] = "offered"
    BY <1>1, <1>2, <1>9 DEF Fits
  <2>2. at'[t]["HOST"] = "offered" /\ at'[t]["SERVER"] = "fault"
    BY <1>7, <1>9, <2>1, TwoSides
  <2>3. Fits(p, n)'
    BY <1>1, <1>2, <1>4, <2>1, <2>2, NothingAssumption DEF Fits
  <2>4. \A x \in Peer : Object(x, t)' <=> Object(x, t)
    BY <1>1, <2>1, <2>2 DEF Object
  <2>5. owner[t] # Nothing /\ (pPort[t] # 0 <=> iType[t] = "UDP")
    BY <1>1, <1>2, <2>1, NothingAssumption DEF Under
  <2>6. QED
    BY <1>1, <1>6, <1>7, <2>2, <2>3, <2>4, <2>5, QuietStep
<1>10. QED
  BY <1>8, <1>9

LEMMA ProcessShadowHolds ==
    ASSUME IInv, NEW p \in Peer, NEW m, NEW t \in Shadow, ProcessShadow(p, m, t)
    PROVE  IInv'
<1>1. /\ Reacts(p, m, t, "SERVER", "none") /\ Reach(t, "SERVER", "agreed")
      /\ ReadNext(p) /\ reply' = [reply EXCEPT ![p] = m]
      /\ UNCHANGED <<bound, channels, pPort>>
  BY DEF ProcessShadow, Answer
<1>2. /\ TypeOK /\ Under(t) /\ Reads(p, m) /\ IsShadow(m) /\ m.shadow = t /\ ~m.failed
      /\ UNCHANGED <<owner, iType, job, wChannel, uses>>
      /\ m \in ShadowPacket /\ Fits(Other(p), m) /\ at[t]["SERVER"] = "none"
      /\ owner[t] = Other(p)
  <2>1. Runs(p, m, t, "SERVER", "none")
    BY <1>1, TwoSides, Reacting
  <2>2. QED
    BY <2>1 DEF Runs
<1>3. Other(p) # p /\ Other(p) \in Peer /\ "agreed" \in Step
  BY TwoPeers DEF Step
<1>4. Reacted(p, t, m)
  BY <1>1, <1>2, ReactedIs
<1>5. at[t]["HOST"] = "asked" /\ pPort[t] = 0
  BY <1>2, <1>3 DEF Fits, Under
<1>6. /\ at' \in [Shadow -> [Side -> Step]] /\ at'[t]["SERVER"] = "agreed" /\ at'[t]["HOST"] = "asked"
      /\ \A u \in Shadow : u # t => at'[u] = at[u]
  BY <1>1, <1>2, <1>3, <1>5, TwoSides, Reaches
<1>7. Fits(p, m)'
  BY <1>2, <1>3, <1>6, NothingAssumption DEF Fits
<1>8. \A x \in Peer : ~Object(x, t) /\ ~Object(x, t)'
  BY <1>5, <1>6 DEF Object
<1>9. owner[t] # Nothing
  BY <1>2, <1>3, NothingAssumption
<1>10. QED
  BY <1>1, <1>2, <1>4, <1>5, <1>6, <1>7, <1>8, <1>9, QuietStep

LEMMA PortOpened ==
    ASSUME NEW p \in Peer, FreePorts(p) # {}
    PROVE  /\ OpenPort(p) \in AnyPort /\ OpenPort(p) # 0 /\ OpenPort(p) \notin bound[p]
<1>1. FreePorts(p) \in SUBSET Nat /\ Port[p] \subseteq Nat \ {0}
  BY PortAssumption DEF FreePorts
<1>2. OpenPort(p) \in FreePorts(p)
  BY <1>1, Smallest DEF OpenPort
<1>3. Port[p] \subseteq AnyPort
  BY DEF AnyPort, Peer
<1>4. QED
  BY <1>1, <1>2, <1>3 DEF FreePorts

LEMMA BoundIs ==
    ASSUME TypeOK, NEW p \in Peer, NEW S \in SUBSET AnyPort, bound' = [bound EXCEPT ![p] = S]
    PROVE  /\ bound' \in [Peer -> SUBSET AnyPort] /\ bound'[p] = S
           /\ \A x \in Peer : x # p => bound'[x] = bound[x]
BY DEF TypeOK

LEMMA OfferPortHolds ==
    ASSUME IInv, NEW p \in Peer, NEW m, NEW t \in Shadow, OfferPort(p, m, t)
    PROVE  IInv'
<1>1. Reacts(p, m, t, "HOST", "asked") /\ channels' = channels
  BY DEF OfferPort
<1>2. /\ TypeOK /\ Under(t) /\ Reads(p, m) /\ IsShadow(m) /\ m.shadow = t /\ ~m.failed
      /\ UNCHANGED <<owner, iType, job, wChannel, uses>>
      /\ m \in ShadowPacket /\ Fits(Other(p), m) /\ at[t]["HOST"] = "asked"
      /\ owner[t] = p
  <2>1. Runs(p, m, t, "HOST", "asked")
    BY <1>1, TwoSides, Reacting
  <2>2. QED
    BY <2>1 DEF Runs
<1>3. Other(p) # p /\ Other(p) \in Peer /\ "offered" \in Step /\ owner[t] # Nothing
  BY <1>2, TwoPeers, NothingAssumption DEF Step
<1>4. at[t]["SERVER"] = "agreed" /\ pPort[t] = 0
  BY <1>2, <1>3 DEF Fits, Under
<1>5. CASE FailStep(p, m, t, "HOST") /\ UNCHANGED <<bound, pPort>>
  BY <1>1, <1>5, TwoSides, FailStepHolds
<1>6. CASE iType[t] = "TCP" /\ Reach(t, "HOST", "offered") /\ Answer(p, m) /\ UNCHANGED <<bound, pPort>>
  <2>1. ReadNext(p) /\ reply' = [reply EXCEPT ![p] = m]
    BY <1>6 DEF Answer
  <2>2. Reacted(p, t, m)
    BY <1>2, <2>1, ReactedIs
  <2>3. /\ at' \in [Shadow -> [Side -> Step]] /\ at'[t]["HOST"] = "offered"
        /\ at'[t]["SERVER"] = "agreed"
        /\ \A u \in Shadow : u # t => at'[u] = at[u]
    BY <1>2, <1>3, <1>4, <1>6, TwoSides, Reaches
  <2>4. Fits(p, m)'
    BY <1>2, <1>3, <1>6, <2>3 DEF Fits
  <2>5. \A x \in Peer : ~Object(x, t) /\ ~Object(x, t)'
    BY <1>4, <1>6 DEF Object
  <2>6. QED
    BY <1>1, <1>2, <1>3, <1>4, <1>6, <2>2, <2>3, <2>4, <2>5, QuietStep
<1>7. CASE /\ iType[t] = "UDP" /\ FreePorts(p) # {}
           /\ bound' = [bound EXCEPT ![p] = @ \cup {OpenPort(p)}]
           /\ pPort' = [pPort EXCEPT ![t] = OpenPort(p)]
           /\ Reach(t, "HOST", "offered")
           /\ Answer(p, [m EXCEPT !.port = OpenPort(p)])
  <2>1. PICK x : x = OpenPort(p)
    OBVIOUS
  <2>2. x \in AnyPort /\ x # 0 /\ x \notin bound[p]
    BY <1>7, <2>1, PortOpened
  <2>3. PICK n : n = [m EXCEPT !.port = x]
    OBVIOUS
  <2>4. n \in ShadowPacket /\ n.shadow = t /\ n.port = x /\ ~n.failed
    BY <1>2, <2>2, <2>3, PortSet
  <2>5. ReadNext(p) /\ reply' = [reply EXCEPT ![p] = n]
    BY <1>7, <2>1, <2>3 DEF Answer
  <2>6. Reacted(p, t, n)
    BY <1>2, <2>4, <2>5, ReactedIs
  <2>7. /\ at' \in [Shadow -> [Side -> Step]] /\ at'[t]["HOST"] = "offered"
        /\ at'[t]["SERVER"] = "agreed"
        /\ \A u \in Shadow : u # t => at'[u] = at[u]
    BY <1>2, <1>3, <1>4, <1>7, TwoSides, Reaches
  <2>8. /\ pPort' \in [Shadow -> AnyPort \cup {0}] /\ pPort'[t] = x
        /\ \A u \in Shadow : u # t => pPort'[u] = pPort[u]
    <3>1. pPort' = [pPort EXCEPT ![t] = x] /\ pPort \in [Shadow -> AnyPort \cup {0}]
      BY <1>2, <1>7, <2>1 DEF TypeOK
    <3>2. QED
      BY <2>2, <3>1
  <2>9. /\ bound' \in [Peer -> SUBSET AnyPort] /\ bound'[p] = bound[p] \cup {x}
        /\ bound'[Other(p)] = bound[Other(p)]
    <3>1. bound' = [bound EXCEPT ![p] = bound[p] \cup {x}] /\ bound[p] \cup {x} \in SUBSET AnyPort
      BY <1>2, <1>7, <2>1, <2>2 DEF TypeOK
    <3>2. QED
      BY <1>2, <1>3, <3>1, BoundIs
  <2>10. Grows /\ channels' \in [Peer -> Seq(Channel)]
    BY <1>1, <1>2 DEF Grows, TypeOK
  <2>11. Fits(p, n)'
    BY <1>2, <1>3, <2>4, <2>7, <2>8 DEF Fits
  <2>12. Under(t)'
    BY <1>2, <1>3, <1>7, <2>2, <2>6, <2>7, <2>8, <2>11, ThisUnder
  <2>13. ~Object(p, t) /\ Object(p, t)' /\ ~Object(Other(p), t) /\ ~Object(Other(p), t)'
    BY <1>2, <1>3, <1>4, <2>2, <2>7, <2>8 DEF Object
  <2>14. \A y \in Peer : Elsewhere(y, t)
    BY <1>2, <2>7, <2>8 DEF Elsewhere, Object
  <2>15. Ports(p)'
    BY <1>1, <2>2, <2>8, <2>9, <2>13, <2>14, PortsOffered DEF IInv
  <2>16. Ports(Other(p))'
    <3>1. \A u \in Shadow : /\ Object(Other(p), u)' <=> Object(Other(p), u)
                            /\ Object(Other(p), u) => pPort'[u] = pPort[u]
      BY <1>3, <2>13, <2>14 DEF Elsewhere
    <3>2. QED
      BY <1>1, <1>3, <2>9, <3>1, PortsKept DEF IInv
  <2>17. \A y \in Peer : Joined(y)'
    BY <1>1, <1>2, <2>10, JoinedKept DEF IInv
  <2>18. \A y \in Peer : Ports(y)' /\ Joined(y)'
    BY <2>15, <2>16, <2>17, TwoPeers
  <2>19. QED
    BY <1>2, <2>6, <2>7, <2>8, <2>9, <2>10, <2>12, <2>18, MakeStep
<1>8. QED
  BY <1>5, <1>6, <1>7 DEF OfferPort

LEMMA OpenShadowHolds ==
    ASSUME IInv, NEW p \in Peer, NEW m, NEW t \in Shadow, OpenShadow(p, m, t)
    PROVE  IInv'
<1>1. Reacts(p, m, t, "SERVER", "agreed") /\ pPort' = pPort
  BY DEF OpenShadow
<1>2. /\ TypeOK /\ Under(t) /\ Reads(p, m) /\ IsShadow(m) /\ m.shadow = t /\ ~m.failed
      /\ UNCHANGED <<owner, iType, job, wChannel, uses>>
      /\ m \in ShadowPacket /\ Fits(Other(p), m) /\ at[t]["SERVER"] = "agreed"
      /\ owner[t] = Other(p)
  <2>1. Runs(p, m, t, "SERVER", "agreed")
    BY <1>1, TwoSides, Reacting
  <2>2. QED
    BY <2>1 DEF Runs
<1>3. Other(p) # p /\ Other(p) \in Peer /\ "open" \in Step /\ owner[t] # Nothing
  BY <1>2, TwoPeers, NothingAssumption DEF Step
<1>4. /\ at[t]["HOST"] = "offered" /\ (iType[t] = "UDP" => m.port = pPort[t])
      /\ pPort[t] # 0 <=> iType[t] = "UDP"
  BY <1>2, <1>3 DEF Fits, Under
<1>5. CASE FailStep(p, m, t, "SERVER") /\ UNCHANGED <<bound, channels>>
  BY <1>1, <1>5, TwoSides, FailStepHolds
<1>6. ASSUME Reach(t, "SERVER", "open")
      PROVE  /\ at' \in [Shadow -> [Side -> Step]] /\ at'[t]["SERVER"] = "open"
             /\ at'[t]["HOST"] = "offered"
             /\ \A u \in Shadow : u # t => at'[u] = at[u]
  BY <1>2, <1>3, <1>4, <1>6, TwoSides, Reaches
<1>7. CASE iType[t] = "TCP" /\ Reach(t, "SERVER", "open") /\ Answer(p, m) /\ UNCHANGED <<bound, channels>>
  <2>1. ReadNext(p) /\ reply' = [reply EXCEPT ![p] = m]
    BY <1>7 DEF Answer
  <2>2. Reacted(p, t, m)
    BY <1>2, <2>1, ReactedIs
  <2>3. Fits(p, m)'
    BY <1>2, <1>3, <1>6, <1>7 DEF Fits
  <2>4. \A x \in Peer : ~Object(x, t) /\ ~Object(x, t)'
    BY <1>1, <1>4, <1>7 DEF Object
  <2>5. QED
    BY <1>1, <1>2, <1>3, <1>4, <1>6, <1>7, <2>2, <2>3, <2>4, QuietStep
<1>8. CASE /\ iType[t] = "UDP" /\ FreePorts(p) # {}
           /\ bound' = [bound EXCEPT ![p] = @ \cup {OpenPort(p)}]
           /\ AddShadowConnection(p, t, OpenPort(p), m.port)
           /\ Reach(t, "SERVER", "open")
           /\ Answer(p, [m EXCEPT !.port = OpenPort(p)])
  <2>1. PICK x : x = OpenPort(p)
    OBVIOUS
  <2>2. x \in AnyPort /\ x # 0 /\ x \notin bound[p]
    BY <1>8, <2>1, PortOpened
  <2>3. PICK n, c : n = [m EXCEPT !.port = x] /\ c = [of |-> t, port |-> x, peer |-> pPort[t]]
    OBVIOUS
  <2>4. n \in ShadowPacket /\ n.shadow = t /\ n.port = x /\ ~n.failed
    BY <1>2, <2>2, <2>3, PortSet
  <2>5. ReadNext(p) /\ reply' = [reply EXCEPT ![p] = n]
    BY <1>8, <2>1, <2>3 DEF Answer
  <2>6. Reacted(p, t, n)
    BY <1>2, <2>4, <2>5, ReactedIs
  <2>7. pPort[t] \in AnyPort
    BY <1>2, <1>4, <1>8 DEF TypeOK
  <2>8. c \in Channel /\ c.port = x /\ c.of = t
    BY <2>2, <2>3, <2>7 DEF Channel
  <2>9. channels' = [channels EXCEPT ![p] = Append(@, c)]
    BY <1>4, <1>8, <2>1, <2>3 DEF AddShadowConnection
  <2>10. /\ channels' \in [Peer -> Seq(Channel)] /\ channels'[Other(p)] = channels[Other(p)]
         /\ In(channels'[p]) = In(channels[p]) \cup {c}
    BY <1>2, <2>8, <2>9, ChannelMore
  <2>11. /\ bound' \in [Peer -> SUBSET AnyPort] /\ bound'[p] = bound[p] \cup {x}
         /\ bound'[Other(p)] = bound[Other(p)]
    <3>1. bound' = [bound EXCEPT ![p] = bound[p] \cup {x}] /\ bound[p] \cup {x} \in SUBSET AnyPort
      BY <1>2, <1>8, <2>1, <2>2 DEF TypeOK
    <3>2. QED
      BY <1>2, <1>3, <3>1, BoundIs
  <2>12. Grows
    <3>1. \A y \in Peer : In(channels[y]) \subseteq In(channels'[y])
      BY <2>10, TwoPeers
    <3>2. QED
      BY <1>2, <3>1 DEF Grows
  <2>13. Fits(p, n)'
    <3>1. [of |-> t, port |-> n.port, peer |-> pPort'[t]] = c /\ c \in In(channels'[p])
      BY <1>1, <2>3, <2>4, <2>10
    <3>2. QED
      BY <1>2, <1>3, <1>6, <1>8, <2>4, <3>1 DEF Fits
  <2>14. Under(t)'
    BY <1>1, <1>2, <1>3, <1>4, <1>6, <1>8, <2>6, <2>13, ThisUnder
  <2>15. /\ \A y \in Peer, u \in Shadow : Object(y, u)' <=> Object(y, u)
         /\ \A u \in Shadow : pPort'[u] = pPort[u]
    BY <1>1, <1>2, <1>4, <1>6, <1>8 DEF Object
  <2>16. Ports(p) /\ Ports(Other(p)) /\ Joined(p) /\ Joined(Other(p))
    BY <1>3 DEF IInv
  <2>17. Ports(p)'
    BY <1>2, <2>2, <2>8, <2>9, <2>11, <2>15, <2>16, PortsOpened
  <2>18. Ports(Other(p))'
    BY <1>3, <2>10, <2>11, <2>15, <2>16, PortsKept
  <2>19. Joined(p)'
    BY <1>2, <1>3, <2>8, <2>10, <2>12, <2>16, JoinedKept
  <2>20. Joined(Other(p))'
    BY <1>2, <1>3, <2>10, <2>12, <2>16, JoinedKept
  <2>21. \A y \in Peer : Ports(y)' /\ Joined(y)'
    BY <2>17, <2>18, <2>19, <2>20, TwoPeers
  <2>22. pPort' \in [Shadow -> AnyPort \cup {0}] /\ \A u \in Shadow : u # t => at'[u] = at[u] /\ pPort'[u] = pPort[u]
    BY <1>1, <1>2, <1>6, <1>8 DEF TypeOK
  <2>23. QED
    BY <1>2, <1>6, <1>8, <2>6, <2>10, <2>11, <2>12, <2>14, <2>21, <2>22, MakeStep
<1>9. QED
  BY <1>5, <1>7, <1>8 DEF OpenShadow

LEMMA ConnectShadowHolds ==
    ASSUME IInv, NEW p \in Peer, NEW m, NEW t \in Shadow, ConnectShadow(p, m, t)
    PROVE  IInv'
<1>1. Reacts(p, m, t, "HOST", "offered") /\ pPort' = pPort /\ reply' = reply /\ ReadNext(p)
  BY DEF ConnectShadow
<1>2. /\ TypeOK /\ Under(t) /\ Reads(p, m) /\ IsShadow(m) /\ m.shadow = t /\ ~m.failed
      /\ UNCHANGED <<owner, iType, job, wChannel, uses>>
      /\ m \in ShadowPacket /\ Fits(Other(p), m) /\ at[t]["HOST"] = "offered"
      /\ owner[t] = p /\ reply[p] = Nothing
  <2>1. Runs(p, m, t, "HOST", "offered")
    BY <1>1, TwoSides, Reacting
  <2>2. QED
    BY <2>1 DEF Runs
<1>3. /\ Other(p) # p /\ Other(p) \in Peer /\ "open" \in Step /\ "closed" \in Step
      /\ owner[t] # Nothing
  BY <1>2, TwoPeers, NothingAssumption DEF Step
<1>4. /\ at[t]["SERVER"] = "open"
      /\ iType[t] = "UDP" =>
            [of |-> t, port |-> m.port, peer |-> pPort[t]] \in In(channels[Other(p)])
      /\ pPort[t] # 0 <=> iType[t] = "UDP"
  BY <1>2, <1>3 DEF Fits, Under
<1>5. Reacted(p, t, m)
  BY <1>1, <1>2, ReactedIs
<1>6. reply'[p] # m
  BY <1>1, <1>2, Kinds
<1>7. ASSUME NEW step \in {"open", "closed"}, Reach(t, "HOST", step)
      PROVE  /\ at' \in [Shadow -> [Side -> Step]] /\ at'[t]["HOST"] = step
             /\ \A u \in Shadow : u # t => at'[u] = at[u]
  <2>1. step \in Step
    BY <1>3
  <2>2. QED
    BY <1>2, <1>7, <2>1, TwoSides, Reaches
<1>8. CASE iType[t] = "TCP" /\ Reach(t, "HOST", "open") /\ UNCHANGED <<bound, channels>>
  <2>1. /\ at' \in [Shadow -> [Side -> Step]] /\ at'[t]["HOST"] = "open"
        /\ \A u \in Shadow : u # t => at'[u] = at[u]
    BY <1>7, <1>8
  <2>2. \A x \in Peer : ~Object(x, t) /\ ~Object(x, t)'
    BY <1>1, <1>4, <1>8 DEF Object
  <2>3. QED
    BY <1>1, <1>2, <1>3, <1>5, <1>6, <1>8, <2>1, <2>2, QuietStep
<1>9. ASSUME NEW step \in {"open", "closed"}, Reach(t, "HOST", step), iType[t] = "UDP",
             bound' \in [Peer -> SUBSET AnyPort], channels' \in [Peer -> Seq(Channel)],
             bound'[Other(p)] = bound[Other(p)], channels'[Other(p)] = channels[Other(p)],
             In(channels[p]) \subseteq In(channels'[p]),
             Object(p, t) /\ Elsewhere(p, t) /\ ~Object(p, t)' => Ports(p)',
             Grows => Joined(p)'
      PROVE  IInv'
  <2>1. /\ at' \in [Shadow -> [Side -> Step]] /\ at'[t]["HOST"] = step
        /\ \A u \in Shadow : u # t => at'[u] = at[u]
    BY <1>7, <1>9
  <2>2. Grows
    <3>1. \A y \in Peer : In(channels[y]) \subseteq In(channels'[y])
      BY <1>9, TwoPeers
    <3>2. QED
      BY <1>2, <3>1 DEF Grows
  <2>3. Under(t)'
    BY <1>2, <1>3, <1>5, <1>6, <2>1, ThisUnder
  <2>4. Object(p, t) /\ ~Object(p, t)' /\ ~Object(Other(p), t) /\ ~Object(Other(p), t)'
    BY <1>2, <1>3, <1>4, <1>9, <2>1 DEF Object
  <2>5. \A y \in Peer : Elsewhere(y, t)
    BY <1>1, <1>2, <2>1 DEF Elsewhere, Object
  <2>6. Ports(p)'
    BY <1>9, <2>4, <2>5
  <2>7. Ports(Other(p))'
    <3>1. \A u \in Shadow : Object(Other(p), u)' <=> Object(Other(p), u)
      BY <1>3, <2>4, <2>5 DEF Elsewhere
    <3>2. Ports(Other(p)) /\ pPort' = pPort
      BY <1>1, <1>3 DEF IInv
    <3>3. QED
      BY <1>3, <1>9, <3>1, <3>2, PortsKept
  <2>8. Joined(p)' /\ Joined(Other(p))'
    <3>1. Joined(Other(p))
      BY <1>3 DEF IInv
    <3>2. QED
      BY <1>2, <1>3, <1>9, <2>2, <3>1, JoinedKept
  <2>9. \A y \in Peer : Ports(y)' /\ Joined(y)'
    BY <2>6, <2>7, <2>8, TwoPeers
  <2>10. /\ pPort' \in [Shadow -> AnyPort \cup {0}]
         /\ \A u \in Shadow : u # t => at'[u] = at[u] /\ pPort'[u] = pPort[u]
    BY <1>1, <1>2, <2>1 DEF TypeOK
  <2>11. QED
    BY <1>2, <1>5, <1>9, <2>1, <2>2, <2>3, <2>9, <2>10, MakeStep
<1>10. CASE /\ iType[t] = "UDP" /\ AddShadowConnection(p, t, pPort[t], m.port)
            /\ Reach(t, "HOST", "open") /\ bound' = bound
  <2>1. PICK c : c = [of |-> t, port |-> pPort[t], peer |-> m.port]
    OBVIOUS
  <2>2. PICK d : d = [of |-> t, port |-> m.port, peer |-> pPort[t]]
    OBVIOUS
  <2>3. d \in In(channels[Other(p)])
    BY <1>4, <1>10, <2>2
  <2>4. d \in Channel
    BY <1>2, <1>3, <2>3, InTyped DEF TypeOK
  <2>5. m.port \in AnyPort /\ pPort[t] \in AnyPort
    BY <2>2, <2>4 DEF Channel
  <2>6. c \in Channel /\ c.of = t /\ c.port = pPort[t] /\ c.peer = m.port
    BY <2>1, <2>5 DEF Channel
  <2>7. channels' = [channels EXCEPT ![p] = Append(@, c)]
    BY <1>10, <2>1 DEF AddShadowConnection
  <2>8. /\ channels' \in [Peer -> Seq(Channel)] /\ channels'[Other(p)] = channels[Other(p)]
        /\ In(channels'[p]) = In(channels[p]) \cup {c}
    BY <1>2, <2>6, <2>7, ChannelMore
  <2>9. Ports(p) /\ Joined(p) /\ bound' \in [Peer -> SUBSET AnyPort]
    BY <1>2, <1>10 DEF IInv, TypeOK
  <2>10. Object(p, t) /\ Elsewhere(p, t) /\ ~Object(p, t)' => Ports(p)'
    BY <1>2, <1>10, <2>6, <2>7, <2>9, PortsPassed
  <2>11. [of |-> c.of, port |-> c.peer, peer |-> c.port] \in In(channels'[Other(p)])
    BY <2>2, <2>3, <2>6, <2>8
  <2>12. Grows => Joined(p)'
    BY <1>2, <1>3, <2>6, <2>8, <2>9, <2>11, JoinedKept
  <2>13. QED
    BY <1>9, <1>10, <2>8, <2>9, <2>10, <2>12
<1>11. CASE /\ iType[t] = "UDP" /\ ClosePort(p, pPort[t])
            /\ Reach(t, "HOST", "closed") /\ channels' = channels
  <2>1. /\ bound' \in [Peer -> SUBSET AnyPort] /\ bound'[p] = bound[p] \ {pPort[t]}
        /\ bound'[Other(p)] = bound[Other(p)]
    <3>1. bound' = [bound EXCEPT ![p] = bound[p] \ {pPort[t]}] /\ bound[p] \ {pPort[t]} \in SUBSET AnyPort
      BY <1>2, <1>11 DEF TypeOK, ClosePort
    <3>2. QED
      BY <1>2, <1>3, <3>1, BoundIs
  <2>2. Ports(p) /\ Joined(p)
    BY DEF IInv
  <2>3. Object(p, t) /\ Elsewhere(p, t) /\ ~Object(p, t)' => Ports(p)'
    BY <1>11, <2>1, <2>2, PortsClosed
  <2>4. Grows => Joined(p)'
    BY <1>2, <1>11, <2>2, JoinedKept
  <2>5. channels' \in [Peer -> Seq(Channel)]
    BY <1>2, <1>11 DEF TypeOK
  <2>6. QED
    BY <1>9, <1>11, <2>1, <2>3, <2>4, <2>5
<1>12. QED
  BY <1>8, <1>10, <1>11 DEF ConnectShadow

LEMMA FaultShadowHolds ==
    ASSUME IInv, NEW p \in Peer, NEW m, NEW t \in Shadow, FaultShadow(p, m, t)
    PROVE  IInv'
<1>1. /\ Reads(p, m) /\ IsShadow(m) /\ m.failed /\ m.shadow = t
      /\ Reach(t, Role(p, t), "fault") /\ ReadNext(p)
      /\ UNCHANGED <<bound, channels, owner, iType, pPort, reply, job, wChannel, uses>>
  BY DEF FaultShadow
<1>2. TypeOK /\ Under(t) /\ Other(p) \in Peer /\ Other(p) # p /\ "fault" \in Step
  BY TwoPeers DEF IInv, Step
<1>3. m \in In(wire[Other(p)]) /\ reply[p] = Nothing
  BY <1>1, <1>2, Reading
<1>4. m \in ShadowPacket /\ m # Nothing
  BY <1>1, <1>2, <1>3, PacketsTyped, Kinds
<1>5. Fits(Other(p), m)
  BY <1>1, <1>2, <1>3 DEF Under, Of
<1>6. owner[t] # Nothing /\ (owner[t] = p \/ owner[t] = Other(p))
  <2>1. owner[t] \in Peer
    BY <1>1, <1>2, <1>5 DEF Fits, TypeOK
  <2>2. QED
    BY <1>1, <1>5, <2>1, TwoPeers DEF Fits
<1>7. Reacted(p, t, m)
  BY <1>1, <1>4, ReactedIs
<1>8. Role(p, t) \in Side
  BY TwoSides DEF Role
<1>9. /\ at' \in [Shadow -> [Side -> Step]] /\ at'[t][Role(p, t)] = "fault"
      /\ \A s \in Side : s # Role(p, t) => at'[t][s] = at[t][s]
      /\ \A u \in Shadow : u # t => at'[u] = at[u]
  BY <1>1, <1>2, <1>8, Reaches
<1>10. at'[t]["HOST"] = "fault" /\ at[t]["HOST"] \in {"offered", "fault"}
  <2>1. CASE owner[t] = p
    BY <1>1, <1>2, <1>5, <1>9, <2>1 DEF Fits, Role
  <2>2. CASE owner[t] = Other(p)
    <3>1. at[t]["HOST"] = "fault" /\ Role(p, t) = "SERVER"
      BY <1>1, <1>2, <1>5, <2>2 DEF Fits, Role
    <3>2. QED
      BY <1>9, <3>1, TwoSides
  <2>3. QED
    BY <1>6, <2>1, <2>2
<1>11. \A x \in Peer : Object(x, t)' <=> Object(x, t)
  BY <1>1, <1>10 DEF Object
<1>12. QED
  BY <1>1, <1>3, <1>4, <1>6, <1>7, <1>9, <1>10, <1>11, QuietStep

LEMMA WireMore ==
    ASSUME TypeOK, NEW p \in Peer, NEW n \in ShadowPacket \cup ReservePacket,
           wire' = [wire EXCEPT ![p] = Append(@, n)]
    PROVE  /\ wire' \in [Peer -> Seq(ShadowPacket \cup ReservePacket)]
           /\ Longer(wire[p], n, wire'[p]) /\ wire'[Other(p)] = wire[Other(p)]
<1>1. PICK s, T : s = wire[p] /\ T = ShadowPacket \cup ReservePacket
  OBVIOUS
<1>2. PICK Q : Q = Seq(T)
  OBVIOUS
<1>3. wire \in [Peer -> Q] /\ s \in Seq(T) /\ Other(p) \in Peer /\ Other(p) # p /\ n \in T
  BY <1>1, <1>2, TwoPeers DEF TypeOK
<1>4. PICK r : r = Append(s, n)
  OBVIOUS
<1>5. Longer(s, n, r) /\ r \in Q
  BY <1>2, <1>3, <1>4, LongerIs
<1>6. wire' = [wire EXCEPT ![p] = r]
  BY <1>1, <1>4
<1>7. wire' \in [Peer -> Q] /\ wire'[p] = r /\ wire'[Other(p)] = wire[Other(p)]
  BY <1>3, <1>5, <1>6
<1>8. QED
  BY <1>1, <1>2, <1>5, <1>7

LEMMA RequestShadowHolds ==
    ASSUME IInv, NEW p \in Peer, NEW t \in Shadow, NEW type \in Type, RequestShadow(p, t, type)
    PROVE  IInv'
<1>1. PICK n : n = [shadow |-> t, port |-> 0, failed |-> FALSE]
  OBVIOUS
<1>2. /\ owner[t] = Nothing /\ owner' = [owner EXCEPT ![t] = p]
      /\ iType' = [iType EXCEPT ![t] = type] /\ Reach(t, "HOST", "asked")
      /\ UNCHANGED <<bound, channels, pPort, reply, job, wChannel, uses>>
  BY DEF RequestShadow
<1>3. wire' = [wire EXCEPT ![p] = Append(@, n)]
  BY <1>1 DEF RequestShadow
<1>4. n \in ShadowPacket /\ n.shadow = t /\ ~n.failed /\ IsShadow(n)
  BY <1>1, Kinds DEF ShadowPacket
<1>5. TypeOK /\ Under(t) /\ "asked" \in Step
  BY DEF IInv, Step
<1>6. /\ wire' \in [Peer -> Seq(ShadowPacket \cup ReservePacket)]
      /\ Longer(wire[p], n, wire'[p]) /\ wire'[Other(p)] = wire[Other(p)]
  BY <1>3, <1>4, <1>5, WireMore
<1>7. /\ In(wire'[p]) = In(wire[p]) \cup {n}
      /\ \A u \in Shadow : Once(wire[p], u) /\ (Of(n, u) => \A x \in In(wire[p]) : ~Of(x, u))
                              => Once(wire'[p], u)
  BY <1>6 DEF Longer
<1>8. at[t]["HOST"] = "none" /\ at[t]["SERVER"] = "none" /\ pPort[t] = 0
  BY <1>2, <1>5 DEF Under
<1>9. /\ at' \in [Shadow -> [Side -> Step]] /\ at'[t]["HOST"] = "asked" /\ at'[t]["SERVER"] = "none"
      /\ \A u \in Shadow : u # t => at'[u] = at[u]
  BY <1>2, <1>5, <1>8, TwoSides, Reaches
<1>10. /\ owner' \in [Shadow -> Peer \cup {Nothing}] /\ owner'[t] = p /\ p # Nothing
       /\ iType' \in [Shadow -> Type]
       /\ \A u \in Shadow : u # t => owner'[u] = owner[u] /\ iType'[u] = iType[u]
  <2>1. owner \in [Shadow -> Peer \cup {Nothing}] /\ iType \in [Shadow -> Type]
    BY <1>5 DEF TypeOK
  <2>2. QED
    BY <1>2, <2>1, NothingAssumption
<1>11. TypeOK'
  BY <1>2, <1>5, <1>6, <1>9, <1>10 DEF TypeOK
<1>12. Grows
  BY <1>2, <1>10 DEF Grows
<1>13. \A x \in Peer : ~OnWire(x, t) /\ ~Queues(x, t) /\ Other(x) \in Peer
  <2>1. \A x \in Peer : \A m : m.shadow = t => ~Fits(x, m)
    BY <1>2 DEF Fits
  <2>2. ASSUME NEW x \in Peer PROVE ~OnWire(x, t) /\ ~Queues(x, t)
    BY <1>5, <2>1 DEF Under, OnWire, Queues, Of
  <2>3. QED
    BY <2>2, TwoPeers
<1>14. Under(t)'
  <2>1. \A x \in Peer : ~Queues(x, t)'
    BY <1>2, <1>13 DEF Queues
  <2>2. ~OnWire(Other(p), t)'
    BY <1>6, <1>13 DEF OnWire
  <2>3. \A x \in Peer : Once(wire[x], t)'
    <3>1. Once(wire[p], t) /\ Once(wire[Other(p)], t) /\ \A x \in In(wire[p]) : ~Of(x, t)
      BY <1>5, <1>13 DEF Under, Token, OnWire
    <3>2. Once(wire'[p], t) /\ Once(wire'[Other(p)], t)
      BY <1>6, <1>7, <3>1
    <3>3. QED
      BY <3>2, TwoPeers
  <2>4. \A x \in Peer : OnWire(x, t)' => x = p
    BY <2>2, TwoPeers
  <2>5. Token(t)'
    BY <1>13, <2>1, <2>2, <2>3, <2>4 DEF Token
  <2>6. Fits(p, n)'
    BY <1>4, <1>9, <1>10 DEF Fits
  <2>7. ASSUME NEW x \in Peer, NEW m \in In(wire'[x]), Of(m, t) PROVE Fits(x, m)'
    <3>1. x = p
      BY <2>4, <2>7 DEF OnWire
    <3>2. m = n
      BY <1>7, <1>13, <2>7, <3>1 DEF OnWire
    <3>3. QED
      BY <2>6, <3>1, <3>2
  <2>8. (at[t]["HOST"] \in {"none", "asked"})' => (pPort[t] = 0)'
    BY <1>2, <1>8
  <2>9. QED
    BY <1>9, <1>10, <2>1, <2>5, <2>7, <2>8 DEF Under
<1>15. ASSUME NEW u \in Shadow, u # t PROVE Under(u)'
  <2>1. Under(u) /\ Steady(u) /\ ~Of(n, u)
    BY <1>2, <1>4, <1>9, <1>10, <1>15 DEF IInv, Steady, Of
  <2>2. \A x \in Peer : Once(wire[x], u)'
    <3>1. Once(wire[p], u) /\ Once(wire[Other(p)], u)
      BY <1>13, <2>1 DEF Under, Token
    <3>2. Once(wire'[p], u) /\ Once(wire'[Other(p)], u)
      BY <1>6, <1>7, <2>1, <3>1
    <3>3. QED
      BY <3>2, TwoPeers
  <2>3. \A x \in Peer : \A m \in In(wire'[x]) : Of(m, u) => m \in In(wire[x])
    BY <1>6, <1>7, <2>1, TwoPeers
  <2>4. \A x \in Peer : Queues(x, u)' => Queues(x, u) /\ reply'[x] = reply[x]
    BY <1>2 DEF Queues
  <2>5. QED
    BY <1>12, <2>1, <2>2, <2>3, <2>4, UnderKept
<1>16. ASSUME NEW x \in Peer PROVE Ports(x)' /\ Joined(x)' /\ Reserves(x)'
  <2>1. \A u \in Shadow : Object(x, u)' <=> Object(x, u)
    BY <1>2, <1>8, <1>9, <1>10 DEF Object
  <2>2. Ports(x)'
    BY <1>2, <2>1, PortsKept DEF IInv
  <2>3. Joined(x)'
    BY <1>2, <1>5, <1>12, JoinedKept DEF IInv
  <2>4. \A m \in In(wire'[x]) : ~IsShadow(m) => m \in In(wire[x])
    BY <1>4, <1>6, <1>7, TwoPeers
  <2>5. Reserves(x)'
    BY <1>2, <1>12, <2>4, ReservesKept
  <2>6. QED
    BY <2>2, <2>3, <2>5
<1>17. Given' /\ OneHolder'
  <2>1. Given'
    BY <1>2, <1>12, GivenKept
  <2>2. OneHolder'
    BY <1>2 DEF IInv, OneHolder, Idle
  <2>3. QED
    BY <2>1, <2>2
<1>18. QED
  BY <1>11, <1>14, <1>15, <1>16, <1>17 DEF IInv

LEMMA ResendHolds ==
    ASSUME IInv, NEW p \in Peer, Resend(p)
    PROVE  IInv'
<1>1. PICK n : n = reply[p]
  OBVIOUS
<1>2. /\ n # Nothing /\ wire' = [wire EXCEPT ![p] = Append(@, n)]
      /\ reply' = [reply EXCEPT ![p] = Nothing]
      /\ UNCHANGED <<bound, channels, owner, iType, pPort, at, job, wChannel, uses>>
  BY <1>1 DEF Resend, making
<1>3. TypeOK /\ n \in ShadowPacket /\ IsShadow(n) /\ Other(p) \in Peer /\ Other(p) # p
  BY <1>1, <1>2, TwoPeers, Kinds DEF IInv, TypeOK
<1>4. /\ wire' \in [Peer -> Seq(ShadowPacket \cup ReservePacket)]
      /\ Longer(wire[p], n, wire'[p]) /\ wire'[Other(p)] = wire[Other(p)]
  BY <1>2, <1>3, WireMore
<1>5. /\ In(wire'[p]) = In(wire[p]) \cup {n}
      /\ \A u \in Shadow : Once(wire[p], u) /\ (Of(n, u) => \A x \in In(wire[p]) : ~Of(x, u))
                              => Once(wire'[p], u)
  BY <1>4 DEF Longer
<1>6. /\ reply' \in [Peer -> ShadowPacket \cup {Nothing}] /\ reply'[p] = Nothing
      /\ reply'[Other(p)] = reply[Other(p)]
  <2>1. reply \in [Peer -> ShadowPacket \cup {Nothing}]
    BY <1>3 DEF TypeOK
  <2>2. QED
    BY <1>2, <1>3, <2>1
<1>7. TypeOK'
  BY <1>2, <1>3, <1>4, <1>6 DEF TypeOK
<1>8. Grows
  BY <1>2 DEF Grows
<1>9. ASSUME NEW u \in Shadow PROVE Under(u)'
  <2>1. Under(u) /\ Steady(u) /\ Token(u)
    BY <1>2 DEF IInv, Steady, Under
  <2>2. ~Queues(p, u)' /\ (Queues(Other(p), u)' <=> Queues(Other(p), u))
    BY <1>6 DEF Queues
  <2>3. OnWire(Other(p), u)' <=> OnWire(Other(p), u)
    BY <1>4 DEF OnWire
  <2>4. Of(n, u) => Queues(p, u)
    BY <1>1, <1>2 DEF Queues
  <2>5. Queues(p, u) => ~OnWire(p, u) /\ ~OnWire(Other(p), u) /\ ~Queues(Other(p), u)
    BY <2>1 DEF Token
  <2>6. \A x \in Peer : Once(wire[x], u)'
    <3>1. Once(wire[p], u) /\ Once(wire[Other(p)], u)
      BY <1>3, <2>1 DEF Token
    <3>2. Of(n, u) => \A x \in In(wire[p]) : ~Of(x, u)
      BY <2>4, <2>5 DEF OnWire
    <3>3. Once(wire'[p], u) /\ Once(wire'[Other(p)], u)
      BY <1>4, <1>5, <3>1, <3>2
    <3>4. QED
      BY <3>3, TwoPeers
  <2>7. CASE ~Of(n, u)
    <3>1. \A x \in Peer : \A m \in In(wire'[x]) : Of(m, u) => m \in In(wire[x])
      BY <1>4, <1>5, <2>7, TwoPeers
    <3>2. \A x \in Peer : Queues(x, u)' => Queues(x, u) /\ reply'[x] = reply[x]
      BY <1>6, <2>2, TwoPeers
    <3>3. QED
      BY <1>8, <2>1, <2>6, <3>1, <3>2, UnderKept
  <2>8. CASE Of(n, u)
    <3>1. \A x \in Peer : ~Queues(x, u)'
      BY <2>2, <2>4, <2>5, <2>8, TwoPeers
    <3>2. ~OnWire(Other(p), u)' /\ \A x \in Peer : OnWire(x, u)' => x = p
      BY <2>3, <2>4, <2>5, <2>8, TwoPeers
    <3>3. Token(u)'
      BY <1>3, <2>6, <3>1, <3>2, TwoPeers DEF Token
    <3>4. Fits(p, n)'
      <4>1. Fits(p, n) /\ n.shadow = u
        BY <1>1, <2>1, <2>4, <2>8 DEF Under, Of
      <4>2. QED
        BY <1>8, <2>1, <4>1, FitsKept
    <3>5. ASSUME NEW x \in Peer, NEW m \in In(wire'[x]), Of(m, u) PROVE Fits(x, m)'
      <4>1. x = p
        BY <3>2, <3>5 DEF OnWire
      <4>2. m = n
        BY <1>5, <2>4, <2>5, <2>8, <3>5, <4>1 DEF OnWire
      <4>3. QED
        BY <3>4, <4>1, <4>2
    <3>6. /\ (owner[u] = Nothing)' => (at[u]["HOST"] = "none" /\ at[u]["SERVER"] = "none")'
          /\ (at[u]["HOST"] \in {"none", "asked"})' => (pPort[u] = 0)'
          /\ (at[u]["HOST"] = "offered")' => (pPort[u] # 0 <=> iType[u] = "UDP")'
      BY <2>1 DEF Under, Steady
    <3>7. QED
      BY <3>1, <3>3, <3>5, <3>6 DEF Under
  <2>9. QED
    BY <2>7, <2>8
<1>10. ASSUME NEW x \in Peer PROVE Ports(x)' /\ Joined(x)' /\ Reserves(x)'
  <2>1. \A u \in Shadow : Object(x, u)' <=> Object(x, u)
    BY <1>2 DEF Object
  <2>2. Ports(x)'
    BY <1>2, <2>1, PortsKept DEF IInv
  <2>3. Joined(x)'
    BY <1>2, <1>3, <1>8, JoinedKept DEF IInv
  <2>4. \A m \in In(wire'[x]) : ~IsShadow(m) => m \in In(wire[x])
    BY <1>3, <1>4, <1>5, TwoPeers
  <2>5. Reserves(x)'
    BY <1>2, <1>8, <2>4, ReservesKept
  <2>6. QED
    BY <2>2, <2>3, <2>5
<1>11. Given' /\ OneHolder'
  <2>1. Given'
    BY <1>2, <1>8, GivenKept
  <2>2. OneHolder'
    BY <1>2 DEF IInv, OneHolder, Idle
  <2>3. QED
    BY <2>1, <2>2
<1>12. QED
  BY <1>7, <1>9, <1>10, <1>11 DEF IInv
-----------------------------------------------------------------------------
(* The steps of ReserveChannel.                                            *)
LEMMA JobSet ==
    ASSUME TypeOK, NEW p \in Peer, NEW u \in Unit, NEW j \in Job \cup {Nothing}, SetJob(p, u, j)
    PROVE  /\ job' \in [Peer -> [Unit -> Job \cup {Nothing}]] /\ job'[p][u] = j
           /\ \A v \in Unit : v # u => job'[p][v] = job[p][v]
           /\ job'[Other(p)] = job[Other(p)]
<1>1. Other(p) \in Peer /\ Other(p) # p
  BY TwoPeers
<1>2. job \in [Peer -> [Unit -> Job \cup {Nothing}]] /\ job' = [job EXCEPT ![p][u] = j]
  BY DEF TypeOK, SetJob
<1>3. QED
  BY <1>1, <1>2

(* p's unit u goes from one step to another; what the units of the other   *)
(* peer do stays.                                                          *)
Goes(p, u, j) ==
    /\ job' \in [Peer -> [Unit -> Job \cup {Nothing}]] /\ job'[p][u] = j
    /\ \A v \in Unit : v # u => job'[p][v] = job[p][v]
    /\ job'[Other(p)] = job[Other(p)]

LEMMA HolderKept ==
    ASSUME IInv, NEW p \in Peer, NEW u \in Unit, NEW j, Goes(p, u, j),
           \/ j = Nothing \/ j.lent \notin Direction
           \/ ~Idle(p, u) /\ j.of = job[p][u].of /\ j.lent = job[p][u].lent
    PROVE  OneHolder'
<1>1. OneHolder
  BY DEF IInv
<1>2. ASSUME NEW x \in Peer, ~Idle(x, "forward")', ~Idle(x, "backward")',
             (job[x]["forward"].of = job[x]["backward"].of)', (job[x]["forward"].lent \in Direction)'
      PROVE  (job[x]["backward"].lent # job[x]["forward"].lent)'
  <2>1. CASE x # p
    <3>1. job'[x] = job[x]
      BY <2>1, TwoPeers DEF Goes
    <3>2. QED
      BY <1>1, <1>2, <3>1 DEF OneHolder, Idle
  <2>2. CASE x = p /\ u = "forward"
    <3>1. job'[p]["forward"] = j /\ job'[p]["backward"] = job[p]["backward"]
      BY <2>2, TwoSides DEF Goes
    <3>2. QED
      BY <1>1, <1>2, <2>2, <3>1 DEF OneHolder, Idle
  <2>3. CASE x = p /\ u = "backward"
    <3>1. job'[p]["backward"] = j /\ job'[p]["forward"] = job[p]["forward"]
      BY <2>3, TwoSides DEF Goes
    <3>2. QED
      BY <1>1, <1>2, <2>3, <3>1 DEF OneHolder, Idle
  <2>4. QED
    BY <2>1, <2>2, <2>3, TwoSides
<1>3. QED
  BY <1>2 DEF OneHolder

(* Nothing of MakeShadow moves, unless it is read behind a packet of       *)
(* ReserveChannel or that packet is written behind it.                     *)
Apart ==
    /\ wire' \in [Peer -> Seq(ShadowPacket \cup ReservePacket)]
    /\ \A x \in Peer : \A m \in In(wire'[x]) : IsShadow(m) => m \in In(wire[x])
    /\ \A x \in Peer, t \in Shadow : Once(wire[x], t) => Once(wire'[x], t)

LEMMA ReserveStep ==
    ASSUME IInv, UNCHANGED <<bound, channels, owner, iType, pPort, at, reply>>, Grows, Apart,
           job' \in [Peer -> [Unit -> Job \cup {Nothing}]],
           wChannel' \in [Reserve -> Picked \cup {Nothing}], uses' \in SUBSET Use,
           \A x \in Peer : Reserves(x)', Given', OneHolder'
    PROVE  IInv'
<1>1. TypeOK'
  BY DEF IInv, TypeOK, Apart
<1>2. ASSUME NEW t \in Shadow PROVE Under(t)'
  <2>1. Under(t) /\ Steady(t)
    BY DEF IInv, Steady
  <2>2. \A x \in Peer : Once(wire[x], t)'
    BY <2>1 DEF Under, Token, Apart
  <2>3. \A x \in Peer : \A m \in In(wire'[x]) : Of(m, t) => m \in In(wire[x])
    BY DEF Apart, Of
  <2>4. \A x \in Peer : Queues(x, t)' => Queues(x, t) /\ reply'[x] = reply[x]
    BY DEF Queues
  <2>5. QED
    BY <2>1, <2>2, <2>3, <2>4, UnderKept
<1>3. ASSUME NEW x \in Peer PROVE Ports(x)' /\ Joined(x)'
  <2>1. \A t \in Shadow : Object(x, t)' <=> Object(x, t)
    BY DEF Object
  <2>2. Ports(x)'
    BY <2>1, PortsKept DEF IInv
  <2>3. Joined(x)'
    BY JoinedKept DEF IInv
  <2>4. QED
    BY <2>2, <2>3
<1>4. QED
  BY <1>1, <1>2, <1>3 DEF IInv

LEMMA ApartStill ==
    ASSUME TypeOK, wire' = wire
    PROVE  Apart
BY DEF TypeOK, Apart

LEMMA ApartRead ==
    ASSUME TypeOK, NEW p \in Peer, NEW m, Reads(p, m), ReadNext(p)
    PROVE  Apart /\ \A x \in Peer : In(wire'[x]) \subseteq In(wire[x])
<1>1. /\ wire' \in [Peer -> Seq(ShadowPacket \cup ReservePacket)]
      /\ Left(wire[Other(p)], m, wire'[Other(p)]) /\ wire'[p] = wire[p]
  BY Reading
<1>2. ASSUME NEW x \in Peer
      PROVE  /\ In(wire'[x]) \subseteq In(wire[x])
             /\ \A t \in Shadow : Once(wire[x], t) => Once(wire'[x], t)
  <2>1. CASE x = p
    BY <1>1, <2>1
  <2>2. CASE x = Other(p)
    BY <1>1, <2>2 DEF Left
  <2>3. QED
    BY <2>1, <2>2, TwoPeers
<1>3. QED
  BY <1>1, <1>2 DEF Apart

LEMMA ApartWritten ==
    ASSUME TypeOK, NEW p \in Peer, NEW n \in ReservePacket, wire' = [wire EXCEPT ![p] = Append(@, n)]
    PROVE  /\ Apart /\ In(wire'[p]) = In(wire[p]) \cup {n}
           /\ wire'[Other(p)] = wire[Other(p)]
<1>1. /\ wire' \in [Peer -> Seq(ShadowPacket \cup ReservePacket)]
      /\ Longer(wire[p], n, wire'[p]) /\ wire'[Other(p)] = wire[Other(p)]
  BY WireMore
<1>2. ~IsShadow(n)
  BY Kinds
<1>3. In(wire'[p]) = In(wire[p]) \cup {n}
  BY <1>1 DEF Longer
<1>4. \A t \in Shadow : Once(wire[p], t) => Once(wire'[p], t)
  BY <1>1, <1>2 DEF Longer, Of
<1>5. QED
  BY <1>1, <1>2, <1>3, <1>4, TwoPeers DEF Apart

(* p's unit goes on with the step it was in.                               *)
LEMMA GoesOn ==
    ASSUME IInv, Grows, wire' = wire, NEW p \in Peer, NEW u \in Unit, NEW j, Goes(p, u, j),
           ~Idle(p, u), j.reserve = job[p][u].reserve, j.of = job[p][u].of, j.users = job[p][u].users
    PROVE  \A x \in Peer : Reserves(x)'
<1>1. SUFFICES ASSUME NEW x \in Peer PROVE Reserves(x)'
  OBVIOUS
<1>2. PICK f, b : f = job'[x]["forward"] /\ b = job'[x]["backward"]
  OBVIOUS
<1>3. f = job[x]["forward"] \/ Hosts(x, f)'
  <2>1. CASE x = p /\ u = "forward"
    <3>1. PICK k : k = job[p]["forward"]
      OBVIOUS
    <3>2. Hosts(p, k)'
      BY <2>1, <3>1, BegunKept
    <3>3. f = j
      BY <1>2, <2>1 DEF Goes
    <3>4. QED
      BY <2>1, <3>1, <3>2, <3>3 DEF Hosts
  <2>2. CASE x # p \/ u # "forward"
    BY <1>2, <2>2, TwoPeers, TwoSides DEF Goes
  <2>3. QED
    BY <2>1, <2>2
<1>4. b = job[x]["backward"] \/ Serves(x, b)'
  <2>1. CASE x = p /\ u = "backward"
    <3>1. PICK k : k = job[p]["backward"]
      OBVIOUS
    <3>2. Serves(p, k)'
      BY <2>1, <3>1, BegunKept
    <3>3. b = j
      BY <1>2, <2>1 DEF Goes
    <3>4. QED
      BY <2>1, <3>1, <3>2, <3>3 DEF Serves
  <2>2. CASE x # p \/ u # "backward"
    BY <1>2, <2>2, TwoPeers, TwoSides DEF Goes
  <2>3. QED
    BY <2>1, <2>2
<1>5. QED
  BY <1>2, <1>3, <1>4, ReservesSet

(* A step in which only the job of one unit changes.                       *)
LEMMA JobStep ==
    ASSUME IInv, UNCHANGED <<bound, channels, owner, iType, pPort, at, reply, wChannel, uses, wire>>,
           NEW p \in Peer, NEW u \in Unit, NEW j \in Job, SetJob(p, u, j),
           ~Idle(p, u), j.reserve = job[p][u].reserve, j.of = job[p][u].of, j.users = job[p][u].users,
           j.lent \notin Direction
    PROVE  IInv'
<1>1. TypeOK /\ Apart /\ Grows
  BY ApartStill DEF IInv, Grows
<1>2. Goes(p, u, j)
  BY <1>1, JobSet DEF Goes
<1>3. \A x \in Peer : Reserves(x)'
  BY <1>1, <1>2, GoesOn
<1>4. Given' /\ OneHolder'
  BY <1>1, <1>2, GivenKept, HolderKept
<1>5. job' \in [Peer -> [Unit -> Job \cup {Nothing}]]
  BY <1>2 DEF Goes
<1>6. wChannel' \in [Reserve -> Picked \cup {Nothing}] /\ uses' \in SUBSET Use
  BY <1>1 DEF TypeOK
<1>7. QED
  BY <1>1, <1>3, <1>4, <1>5, <1>6, ReserveStep

LEMMA HostRequestHolds ==
    ASSUME IInv, NEW p \in Peer, NEW r \in Reserve, NEW users \in Users, NEW i \in 1..Len(channels[p]),
           HostRequest(p, r, i, users)
    PROVE  IInv'
<1>1. PICK o : o = channels[p][i].of
  OBVIOUS
<1>2. PICK j : j = [reserve |-> r, of |-> o, users |-> users, todo |-> users, lent |-> "no"]
  OBVIOUS
<1>3. /\ Idle(p, "forward") /\ wChannel[r] = Nothing
      /\ wChannel' = [wChannel EXCEPT ![r] = [host |-> p, of |-> o]]
      /\ SetJob(p, "forward", j)
      /\ UNCHANGED <<bound, channels, owner, iType, pPort, at, wire, reply, uses>>
  BY <1>1, <1>2 DEF HostRequest, making
<1>4. TypeOK /\ Apart
  BY <1>3, ApartStill DEF IInv
<1>5. o \in Shadow /\ o # Nothing /\ \E c \in In(channels[p]) : c.of = o
  <2>1. channels[p] \in Seq(Channel)
    BY <1>4 DEF TypeOK
  <2>2. channels[p][i] \in Channel /\ i \in DOMAIN channels[p]
    BY <2>1, LenProperties
  <2>3. channels[p][i] \in In(channels[p])
    BY <2>2 DEF In
  <2>4. QED
    BY <1>1, <2>2, <2>3, NothingAssumption DEF Channel
<1>6. j \in Job /\ j.lent \notin Direction /\ j.of = o /\ j.users = users /\ j.reserve = r
  BY <1>2, <1>5, UsersAssumption DEF Job, Direction
<1>7. /\ wChannel' \in [Reserve -> Picked \cup {Nothing}]
      /\ wChannel'[r] = [host |-> p, of |-> o] /\ wChannel'[r] # Nothing
      /\ \A s \in Reserve : s # r => wChannel'[s] = wChannel[s]
  <2>1. [host |-> p, of |-> o] \in Picked
    BY <1>5 DEF Picked
  <2>2. wChannel \in [Reserve -> Picked \cup {Nothing}]
    BY <1>4 DEF TypeOK
  <2>3. QED
    BY <1>3, <2>1, <2>2, NothingAssumption
<1>8. Grows
  BY <1>3, <1>7 DEF Grows
<1>9. Goes(p, "forward", j)
  BY <1>3, <1>4, <1>6, TwoSides, JobSet DEF Goes
<1>10. Names(r, p)'
  BY <1>3, <1>5, <1>7 DEF Names
<1>11. Hosts(p, j)'
  BY <1>5, <1>6, <1>10 DEF Hosts
<1>12. ASSUME NEW x \in Peer PROVE Reserves(x)'
  <2>1. PICK f, b : f = job'[x]["forward"] /\ b = job'[x]["backward"]
    OBVIOUS
  <2>2. (x = p /\ f = j) \/ f = job[x]["forward"]
    BY <1>9, <2>1, TwoPeers DEF Goes
  <2>3. f = job[x]["forward"] \/ Hosts(x, f)'
    BY <1>11, <2>2
  <2>4. b = job[x]["backward"]
    BY <1>9, <2>1, TwoPeers, TwoSides DEF Goes
  <2>5. QED
    BY <1>3, <1>8, <2>1, <2>3, <2>4, ReservesSet
<1>13. Given' /\ OneHolder'
  BY <1>3, <1>6, <1>8, <1>9, TwoSides, GivenKept, HolderKept
<1>14. uses' \in SUBSET Use /\ job' \in [Peer -> [Unit -> Job \cup {Nothing}]]
  BY <1>3, <1>4, <1>9 DEF TypeOK, Goes
<1>15. QED
  BY <1>3, <1>4, <1>7, <1>8, <1>12, <1>13, <1>14, ReserveStep

(* What a server looks up is a channel of its own, or none when the host    *)
(* picked a channel that the server hosts.                                  *)
LEMMA LookedUp ==
    ASSUME IInv, NEW p \in Peer, NEW r \in Reserve, Names(r, Other(p))
    PROVE  Lookup(p) \in Shadow \cup {Nothing} /\ (Lookup(p) = Nothing => Theirs(r))
<1>1. TypeOK /\ Joined(Other(p)) /\ Other(p) \in Peer /\ Other(Other(p)) = p
  BY TwoPeers DEF IInv
<1>2. channels[p] \in Seq(Channel)
  BY <1>1 DEF TypeOK
<1>3. CASE channels[p] = <<>>
  <2>1. Lookup(p) = Nothing
    BY <1>3 DEF Lookup
  <2>2. PICK c \in In(channels[Other(p)]) : c.of = wChannel[r].of
    BY DEF Names
  <2>3. In(channels[p]) = {}
    BY <1>3, EmptySeq DEF In
  <2>4. owner[c.of] # Other(p)
    BY <1>1, <2>2, <2>3 DEF Joined
  <2>5. wChannel[r].host = Other(p)
    BY DEF Names
  <2>6. QED
    BY <2>1, <2>2, <2>4, <2>5 DEF Theirs
<1>4. CASE channels[p] # <<>>
  <2>1. channels[p][1] \in Channel
    BY <1>2, <1>4, EmptySeq, LenProperties
  <2>2. QED
    BY <1>4, <2>1, NothingAssumption DEF Lookup, Channel
<1>5. QED
  BY <1>3, <1>4

LEMMA ServerProcessHolds ==
    ASSUME IInv, NEW p \in Peer, NEW m, ServerProcess(p, m)
    PROVE  IInv'
<1>1. /\ Reads(p, m) /\ ~IsShadow(m) /\ ReadNext(p)
      /\ UNCHANGED <<bound, channels, owner, iType, pPort, at, reply, wChannel, uses>>
  BY DEF ServerProcess, making
<1>2. TypeOK /\ Other(p) \in Peer /\ Reserves(Other(p)) /\ Grows
  BY <1>1, TwoPeers DEF IInv, Grows
<1>3. m \in In(wire[Other(p)]) /\ Idle(p, "backward")
  BY <1>1, <1>2, Reading
<1>4. PICK r, o : r = m.reserve /\ o = Lookup(p)
  OBVIOUS
<1>5. r \in Reserve /\ m.users \in Users /\ Names(r, Other(p))
  BY <1>1, <1>2, <1>3, <1>4, PacketsTyped DEF Reserves
<1>6. o \in Shadow \cup {Nothing} /\ (o = Nothing => Theirs(r))
  BY <1>4, <1>5, LookedUp
<1>7. Apart /\ \A x \in Peer : In(wire'[x]) \subseteq In(wire[x])
  BY <1>1, <1>2, ApartRead
<1>8. wChannel' \in [Reserve -> Picked \cup {Nothing}] /\ uses' \in SUBSET Use /\ Given'
  BY <1>1, <1>2, GivenKept DEF TypeOK
<1>9. CASE job' = job
  <2>1. job' \in [Peer -> [Unit -> Job \cup {Nothing}]] /\ OneHolder'
    BY <1>2, <1>9 DEF TypeOK, IInv, OneHolder, Idle
  <2>2. \A x \in Peer : Reserves(x)'
    BY <1>2, <1>7, <1>9, ReservesKept
  <2>3. QED
    BY <1>1, <1>2, <1>7, <1>8, <2>1, <2>2, ReserveStep
<1>10. CASE m.users # {}
  <2>1. PICK theirs : theirs = {Opposite(d) : d \in m.users}
    OBVIOUS
  <2>2. PICK j : j = [reserve |-> r, of |-> o, users |-> theirs, todo |-> theirs, lent |-> "no"]
    OBVIOUS
  <2>3. SetJob(p, "backward", j)
    BY <1>4, <1>10, <2>1, <2>2 DEF ServerProcess
  <2>4. theirs \in SUBSET Direction
    BY <2>1 DEF Opposite, Direction
  <2>5. j \in Job /\ j.lent \notin Direction /\ j.reserve = r /\ j.of = o
    BY <1>5, <1>6, <2>2, <2>4 DEF Job, Direction
  <2>6. Goes(p, "backward", j)
    BY <1>2, <2>3, <2>5, TwoSides, JobSet DEF Goes
  <2>7. Serves(p, j)'
    <3>1. Names(r, Other(p))'
      BY <1>2, <1>5, NamesKept
    <3>2. o = Nothing => Theirs(r)'
      BY <1>2, <1>5, <1>6, TheirsKept DEF IInv
    <3>3. QED
      BY <2>5, <3>1, <3>2 DEF Serves
  <2>8. ASSUME NEW x \in Peer PROVE Reserves(x)'
    <3>1. PICK f, b : f = job'[x]["forward"] /\ b = job'[x]["backward"]
      OBVIOUS
    <3>2. (x = p /\ b = j) \/ b = job[x]["backward"]
      BY <2>6, <3>1, TwoPeers DEF Goes
    <3>3. b = job[x]["backward"] \/ Serves(x, b)'
      BY <2>7, <3>2
    <3>4. f = job[x]["forward"]
      BY <2>6, <3>1, TwoPeers, TwoSides DEF Goes
    <3>5. QED
      BY <1>2, <1>7, <3>1, <3>3, <3>4, ReservesSet
  <2>9. OneHolder'
    BY <2>5, <2>6, TwoSides, HolderKept
  <2>10. job' \in [Peer -> [Unit -> Job \cup {Nothing}]]
    BY <2>6 DEF Goes
  <2>11. QED
    BY <1>1, <1>2, <1>7, <1>8, <2>8, <2>9, <2>10, ReserveStep
<1>11. QED
  BY <1>9, <1>10 DEF ServerProcess

(* What getMonoIf may give: no interface that the other unit has out.      *)
LEMMA LentApart ==
    ASSUME IInv, NEW p \in Peer, NEW u \in Unit, NEW j, NEW got, Goes(p, u, j), ~Idle(p, u),
           j.of = job[p][u].of, j.lent = got,
           got \in Direction => j.of = Nothing \/ Available(p, j.of, got)
    PROVE  OneHolder'
<1>1. OneHolder /\ TypeOK /\ Reserves(p)
  BY DEF IInv
<1>2. ASSUME NEW x \in Peer, ~Idle(x, "forward")', ~Idle(x, "backward")',
             (job[x]["forward"].of = job[x]["backward"].of)', (job[x]["forward"].lent \in Direction)'
      PROVE  (job[x]["backward"].lent # job[x]["forward"].lent)'
  <2>1. CASE x # p
    <3>1. job'[x] = job[x]
      BY <2>1, TwoPeers DEF Goes
    <3>2. QED
      BY <1>1, <1>2, <3>1 DEF OneHolder, Idle
  <2>2. CASE x = p
    <3>1. PICK v : v \in Unit /\ v # u /\ \A w \in Unit : w = u \/ w = v
      BY TwoSides
    <3>2. job'[p][u] = j /\ job'[p][v] = job[p][v]
      BY <3>1 DEF Goes
    <3>3. ~Idle(p, v) /\ job[p][v].of = j.of
      BY <1>2, <2>2, <3>1, <3>2, TwoSides DEF Idle
    <3>4. j.of # Nothing
      <4>1. CASE u = "forward"
        BY <1>1, <4>1 DEF Reserves, Hosts
      <4>2. CASE v = "forward"
        BY <1>1, <3>3, <4>2 DEF Reserves, Hosts
      <4>3. QED
        BY <3>1, <4>1, <4>2, TwoSides
    <3>5. got \in Direction => job[p][v].lent # got
      BY <3>1, <3>3, <3>4 DEF Available
    <3>6. job'[p][u].lent = got /\ job'[p][v].lent = job[p][v].lent
      BY <3>2
    <3>7. CASE u = "forward"
      BY <1>2, <2>2, <3>1, <3>5, <3>6, <3>7, TwoSides
    <3>8. CASE u = "backward"
      BY <1>2, <2>2, <3>1, <3>5, <3>6, <3>8, TwoSides
    <3>9. QED
      BY <3>7, <3>8, TwoSides
  <2>3. QED
    BY <2>1, <2>2
<1>3. QED
  BY <1>2 DEF OneHolder

LEMMA LendHolds ==
    ASSUME IInv, NEW p \in Peer, NEW u \in Unit, Lend(p, u)
    PROVE  IInv'
<1>1. PICK k, d : k = job[p][u] /\ d = NextUser(k.todo)
  OBVIOUS
<1>2. PICK got : got = IF k.of = Nothing \/ Available(p, k.of, d) THEN d ELSE "bad"
  OBVIOUS
<1>3. PICK j : j = [k EXCEPT !.lent = got]
  OBVIOUS
<1>4. /\ ~Idle(p, u) /\ SetJob(p, u, j)
      /\ uses' = IF u = "forward" THEN uses ELSE uses \cup {[reserve |-> k.reserve, of |-> k.of]}
      /\ UNCHANGED <<bound, channels, owner, iType, pPort, at, wire, reply, wChannel>>
  BY <1>1, <1>2, <1>3 DEF Lend, making
<1>5. TypeOK /\ Apart /\ Grows
  BY <1>4, ApartStill DEF IInv, Grows
<1>6. k \in Job /\ k.reserve \in Reserve /\ k.of \in Shadow \cup {Nothing}
  BY <1>1, <1>4, <1>5, JobTyped
<1>7. d \in Direction /\ got \in Direction \cup {"bad"}
  BY <1>1, <1>2 DEF NextUser, Direction
<1>8. j \in Job /\ j.reserve = k.reserve /\ j.of = k.of /\ j.users = k.users /\ j.lent = got
  BY <1>3, <1>6, <1>7 DEF Job
<1>9. Goes(p, u, j)
  BY <1>4, <1>5, <1>8, JobSet DEF Goes
<1>10. \A x \in Peer : Reserves(x)'
  BY <1>1, <1>4, <1>5, <1>8, <1>9, GoesOn
<1>11. OneHolder'
  <2>1. got \in Direction => j.of = Nothing \/ Available(p, j.of, got)
    BY <1>2, <1>8 DEF Direction
  <2>2. QED
    BY <1>1, <1>4, <1>8, <1>9, <2>1, LentApart
<1>12. uses' \in SUBSET Use
  BY <1>4, <1>5, <1>6 DEF TypeOK, Use
<1>13. Given'
  <2>1. CASE u = "forward"
    BY <1>4, <1>5, <2>1, GivenKept
  <2>2. CASE u = "backward"
    <3>1. Serves(p, k)'
      BY <1>1, <1>4, <1>5, <2>2, BegunKept
    <3>2. Other(p) \in Peer
      BY TwoPeers
    <3>3. ASSUME NEW use \in uses'
          PROVE  /\ \E x \in Peer : Names(use.reserve, x)'
                 /\ use.of = Nothing => Theirs(use.reserve)'
      <4>1. CASE use \in uses
        <5>1. use.reserve \in Reserve
          BY <1>5, <4>1 DEF TypeOK, Use
        <5>2. PICK x \in Peer : Names(use.reserve, x)
          BY <4>1 DEF IInv, Given
        <5>3. (use.of = Nothing => Theirs(use.reserve)) /\ Joined(x)
          BY <4>1 DEF IInv, Given
        <5>4. QED
          BY <1>5, <5>1, <5>2, <5>3, NamesKept, TheirsKept
      <4>2. CASE use = [reserve |-> k.reserve, of |-> k.of]
        BY <3>1, <3>2, <4>2 DEF Serves
      <4>3. QED
        BY <1>4, <3>3, <4>1, <4>2
    <3>4. QED
      BY <3>3 DEF Given
  <2>3. QED
    BY <2>1, <2>2, TwoSides
<1>14. /\ job' \in [Peer -> [Unit -> Job \cup {Nothing}]]
       /\ wChannel' \in [Reserve -> Picked \cup {Nothing}]
  BY <1>4, <1>5, <1>9 DEF Goes, TypeOK
<1>15. QED
  BY <1>4, <1>5, <1>10, <1>11, <1>12, <1>13, <1>14, ReserveStep

LEMMA GiveBackHolds ==
    ASSUME IInv, NEW p \in Peer, NEW u \in Unit, GiveBack(p, u)
    PROVE  IInv'
<1>1. PICK k, rest : k = job[p][u] /\ rest = k.todo \ {NextUser(k.todo)}
  OBVIOUS
<1>2. /\ ~Idle(p, u)
      /\ UNCHANGED <<bound, channels, owner, iType, pPort, at, wire, reply, wChannel, uses>>
      /\ \E S \in {rest, {}} : SetJob(p, u, [k EXCEPT !.lent = "no", !.todo = S])
  BY <1>1 DEF GiveBack, making
<1>3. PICK S \in {rest, {}} : SetJob(p, u, [k EXCEPT !.lent = "no", !.todo = S])
  BY <1>2
<1>4. PICK j : j = [k EXCEPT !.lent = "no", !.todo = S]
  OBVIOUS
<1>5. k \in Job /\ k.todo \in SUBSET Direction
  BY <1>1, <1>2, JobTyped DEF IInv
<1>6. /\ j \in Job /\ j.reserve = k.reserve /\ j.of = k.of /\ j.users = k.users
      /\ j.lent \notin Direction
  BY <1>1, <1>4, <1>5 DEF Job, Direction
<1>7. SetJob(p, u, j)
  BY <1>3, <1>4
<1>8. QED
  BY <1>1, <1>2, <1>6, <1>7, JobStep

LEMMA UnknownModuleHolds ==
    ASSUME IInv, NEW p \in Peer, UnknownModule(p)
    PROVE  IInv'
<1>1. PICK k : k = job[p]["backward"]
  OBVIOUS
<1>2. PICK j : j = [k EXCEPT !.todo = {}]
  OBVIOUS
<1>3. /\ ~Idle(p, "backward") /\ k.lent = "no" /\ SetJob(p, "backward", j)
      /\ UNCHANGED <<bound, channels, owner, iType, pPort, at, wire, reply, wChannel, uses>>
  BY <1>1, <1>2 DEF UnknownModule, making
<1>4. k \in Job
  BY <1>1, <1>3, TwoSides, JobTyped DEF IInv
<1>5. /\ j \in Job /\ j.reserve = k.reserve /\ j.of = k.of /\ j.users = k.users
      /\ j.lent \notin Direction
  BY <1>2, <1>3, <1>4 DEF Job, Direction
<1>6. QED
  BY <1>1, <1>3, <1>5, TwoSides, JobStep

LEMMA EndStepHolds ==
    ASSUME IInv, NEW p \in Peer, NEW u \in Unit, EndStep(p, u)
    PROVE  IInv'
<1>1. PICK k : k = job[p][u]
  OBVIOUS
<1>2. PICK n : n = [reserve |-> k.reserve, users |-> k.users]
  OBVIOUS
<1>3. /\ ~Idle(p, u) /\ SetJob(p, u, Nothing)
      /\ UNCHANGED <<bound, channels, owner, iType, pPort, at, reply, wChannel, uses>>
      /\ u = "forward" => wire' = [wire EXCEPT ![p] = Append(@, n)]
      /\ u # "forward" => wire' = wire
  BY <1>1, <1>2 DEF EndStep, making
<1>4. TypeOK /\ Grows /\ Reserves(p)
  BY <1>3 DEF IInv, Grows
<1>5. Goes(p, u, Nothing)
  BY <1>3, <1>4, JobSet DEF Goes
<1>6. /\ wChannel' \in [Reserve -> Picked \cup {Nothing}] /\ uses' \in SUBSET Use
      /\ job' \in [Peer -> [Unit -> Job \cup {Nothing}]]
  BY <1>3, <1>4, <1>5 DEF TypeOK, Goes
<1>7. Apart /\ \A x \in Peer : \A m \in In(wire'[x]) :
                  ~IsShadow(m) => m \in In(wire[x]) \/ Names(m.reserve, x)'
  <2>1. CASE u # "forward"
    BY <1>3, <1>4, <2>1, ApartStill
  <2>2. CASE u = "forward"
    <3>1. k.reserve \in Reserve /\ k.users \in Users
      BY <1>1, <1>3, <1>4, <2>2, JobTyped DEF Reserves, Hosts
    <3>2. Hosts(p, k)'
      BY <1>1, <1>3, <1>4, <2>2, BegunKept
    <3>3. n \in ReservePacket /\ n.reserve = k.reserve
      BY <1>2, <3>1 DEF ReservePacket
    <3>4. Names(n.reserve, p)'
      BY <3>2, <3>3 DEF Hosts
    <3>5. Apart /\ In(wire'[p]) = In(wire[p]) \cup {n} /\ wire'[Other(p)] = wire[Other(p)]
      BY <1>3, <1>4, <2>2, <3>3, ApartWritten
    <3>6. QED
      BY <3>4, <3>5, TwoPeers
  <2>3. QED
    BY <2>1, <2>2
<1>8. ASSUME NEW x \in Peer PROVE Reserves(x)'
  <2>1. PICK f, b : f = job'[x]["forward"] /\ b = job'[x]["backward"]
    OBVIOUS
  <2>2. /\ f = Nothing \/ f = job[x]["forward"]
        /\ b = Nothing \/ b = job[x]["backward"]
    BY <1>5, <2>1, TwoPeers, TwoSides DEF Goes
  <2>3. QED
    BY <1>4, <1>7, <2>1, <2>2, ReservesSet
<1>9. Given' /\ OneHolder'
  BY <1>3, <1>4, <1>5, GivenKept, HolderKept
<1>10. QED
  BY <1>3, <1>4, <1>6, <1>7, <1>8, <1>9, ReserveStep
-----------------------------------------------------------------------------
LEMMA StutterHolds ==
    ASSUME IInv, UNCHANGED vars
    PROVE  IInv'
<1>1. /\ UNCHANGED <<bound, channels, owner, iType, pPort, at, reply>> /\ wire' = wire
      /\ job' = job /\ wChannel' = wChannel /\ uses' = uses
  BY DEF vars, making
<1>2. TypeOK /\ Apart /\ Grows
  BY <1>1, ApartStill DEF IInv, Grows
<1>3. (\A x \in Peer : Reserves(x)') /\ Given'
  BY <1>1, <1>2, ReservesKept, GivenKept
<1>4. OneHolder'
  BY <1>1 DEF IInv, OneHolder, Idle
<1>5. /\ job' \in [Peer -> [Unit -> Job \cup {Nothing}]]
      /\ wChannel' \in [Reserve -> Picked \cup {Nothing}] /\ uses' \in SUBSET Use
  BY <1>1, <1>2 DEF TypeOK
<1>6. QED
  BY <1>1, <1>2, <1>3, <1>4, <1>5, ReserveStep

LEMMA InitHolds == Init => IInv
<1>1. SUFFICES ASSUME Init PROVE IInv
  OBVIOUS
<1>2. PICK e : e = <<>>
  OBVIOUS
<1>3. DOMAIN e = {} /\ e \in Seq(Channel) /\ e \in Seq(ShadowPacket \cup ReservePacket)
  BY <1>2
<1>4. In(e) = {} /\ \A t : Once(e, t)
  BY <1>3 DEF In, Once
<1>5. /\ bound = [p \in Peer |-> {}] /\ channels = [p \in Peer |-> e] /\ wire = [p \in Peer |-> e]
      /\ reply = [p \in Peer |-> Nothing] /\ owner = [t \in Shadow |-> Nothing]
      /\ iType = [t \in Shadow |-> "TCP"] /\ pPort = [t \in Shadow |-> 0]
      /\ at = [t \in Shadow |-> [s \in Side |-> "none"]]
      /\ job = [p \in Peer |-> [u \in Unit |-> Nothing]]
      /\ wChannel = [r \in Reserve |-> Nothing] /\ uses = {}
  BY <1>1, <1>2 DEF Init
<1>6. TypeOK
  BY <1>3, <1>5 DEF TypeOK, Type, Step
<1>7. ASSUME NEW p \in Peer
      PROVE  bound[p] = {} /\ channels[p] = e /\ wire[p] = e /\ reply[p] = Nothing
             /\ Idle(p, "forward") /\ Idle(p, "backward")
  BY <1>5, TwoSides DEF Idle
<1>8. ASSUME NEW t \in Shadow PROVE Under(t)
  <2>1. owner[t] = Nothing /\ pPort[t] = 0 /\ at[t]["HOST"] = "none" /\ at[t]["SERVER"] = "none"
    BY <1>5, TwoSides
  <2>2. \A p \in Peer : ~OnWire(p, t) /\ ~Queues(p, t) /\ Once(wire[p], t) /\ In(wire[p]) = {}
    BY <1>4, <1>7 DEF OnWire, Queues
  <2>3. Token(t)
    BY <2>2, TwoPeers DEF Token
  <2>4. QED
    BY <2>1, <2>2, <2>3 DEF Under
<1>9. ASSUME NEW p \in Peer PROVE Ports(p) /\ Joined(p) /\ Reserves(p)
  <2>1. \A t \in Shadow : ~Object(p, t)
    BY <1>5 DEF Object
  <2>2. ObjectPorts(p) = {} /\ ChannelPorts(p) = {}
    BY <1>3, <1>7, <2>1 DEF ObjectPorts, ChannelPorts, Object
  <2>3. Ports(p)
    BY <1>3, <1>7, <2>1, <2>2 DEF Ports
  <2>4. Joined(p) /\ Reserves(p)
    BY <1>4, <1>7 DEF Joined, Reserves
  <2>5. QED
    BY <2>3, <2>4
<1>10. Given /\ OneHolder
  BY <1>5, <1>7 DEF Given, OneHolder
<1>11. QED
  BY <1>6, <1>8, <1>9, <1>10 DEF IInv

LEMMA NextHolds == IInv /\ [Next]_vars => IInv'
<1>1. SUFFICES ASSUME IInv, [Next]_vars PROVE IInv'
  OBVIOUS
<1>2. CASE UNCHANGED vars
  BY <1>1, <1>2, StutterHolds
<1>3. CASE Next
  <2>1. ASSUME NEW p \in Peer, NEW t \in Shadow, NEW type \in Type, RequestShadow(p, t, type)
        PROVE  IInv'
    BY <1>1, <2>1, RequestShadowHolds
  <2>2. ASSUME NEW p \in Peer, NEW r \in Reserve, NEW users \in Users,
               NEW i \in 1..Len(channels[p]), HostRequest(p, r, i, users)
        PROVE  IInv'
    BY <1>1, <2>2, HostRequestHolds
  <2>3. ASSUME NEW p \in Peer, Process(p) PROVE IInv'
    <3>1. PICK m : m = Head(wire[Other(p)])
      OBVIOUS
    <3>2. \/ \E t \in Shadow : \/ ProcessShadow(p, m, t)
                               \/ OfferPort(p, m, t)
                               \/ OpenShadow(p, m, t)
                               \/ ConnectShadow(p, m, t)
                               \/ FaultShadow(p, m, t)
          \/ ServerProcess(p, m)
      BY <2>3, <3>1 DEF Process
    <3>3. ASSUME NEW t \in Shadow, \/ ProcessShadow(p, m, t)
                                   \/ OfferPort(p, m, t)
                                   \/ OpenShadow(p, m, t)
                                   \/ ConnectShadow(p, m, t)
                                   \/ FaultShadow(p, m, t)
          PROVE  IInv'
      BY <1>1, <3>3, ProcessShadowHolds, OfferPortHolds, OpenShadowHolds, ConnectShadowHolds,
         FaultShadowHolds
    <3>4. QED
      BY <1>1, <3>2, <3>3, ServerProcessHolds
  <2>4. ASSUME NEW p \in Peer, Resend(p) PROVE IInv'
    BY <1>1, <2>4, ResendHolds
  <2>5. ASSUME NEW p \in Peer, NEW u \in Unit, Continue(p, u) PROVE IInv'
    BY <1>1, <2>5, LendHolds, GiveBackHolds, EndStepHolds DEF Continue
  <2>6. ASSUME NEW p \in Peer, UnknownModule(p) PROVE IInv'
    BY <1>1, <2>6, UnknownModuleHolds
  <2>7. QED
    BY <1>3, <2>1, <2>2, <2>3, <2>4, <2>5, <2>6 DEF Next
<1>4. QED
  BY <1>1, <1>2, <1>3
-----------------------------------------------------------------------------
(* Each transaction of MakeShadow has at most one packet, which tells how  *)
(* far both sides are; each bound port has one owner; each channel of a    *)
(* host has its counterpart; each reservation names a channel of its host: *)
(* these hold together in every state.                                     *)
THEOREM Invariant == Spec => []IInv
<1>1. Init => IInv
  BY InitHolds
<1>2. IInv /\ [Next]_vars => IInv'
  BY NextHolds
<1>3. QED
  BY <1>1, <1>2, PTL DEF Spec

(* The variables keep their types: makeShadow and connect never register a *)
(* channel on port 0, and no port comes from outside of the pool.          *)
THEOREM TypeCorrect == Spec => []TypeOK
<1>1. IInv => TypeOK
  BY DEF IInv
<1>2. QED
  BY <1>1, Invariant, PTL

(* A port that DPN_NodeConnector bound is held by exactly one channel or   *)
(* one MakeShadow object, whichever steps fail and cross.                  *)
THEOREM PortsHeld == Spec => []PortsAccounted
<1>1. IInv => PortsAccounted
  BY DEF IInv, Ports, PortsAccounted
<1>2. QED
  BY <1>1, Invariant, PTL

(* When connect(HOST) registers a shadow channel, the server has the other *)
(* end of it, connected back to the host's port.                           *)
THEOREM Counterparts == Spec => []HostHasPeer
<1>1. IInv => HostHasPeer
  <2>1. SUFFICES ASSUME IInv, NEW p \in Peer, NEW i \in DOMAIN channels[p],
                        owner[channels[p][i].of] = p
                 PROVE  \E j \in DOMAIN channels[Other(p)] :
                           channels[Other(p)][j] = [of |-> channels[p][i].of,
                                                    port |-> channels[p][i].peer,
                                                    peer |-> channels[p][i].port]
    BY DEF HostHasPeer
  <2>2. channels[p][i] \in In(channels[p]) /\ Joined(p)
    BY <2>1 DEF In, IInv
  <2>3. [of |-> channels[p][i].of, port |-> channels[p][i].peer, peer |-> channels[p][i].port]
           \in In(channels[Other(p)])
    BY <2>1, <2>2 DEF Joined
  <2>4. QED
    BY <2>3 DEF In
<1>2. QED
  BY <1>1, Invariant, PTL

(* serverProcess makes a channel without a connection for a module only    *)
(* when the host reserved a channel it is not the host of.                 *)
THEOREM Lands == Spec => []HostReserveLands
<1>1. IInv => HostReserveLands
  BY DEF IInv, Given, Theirs, HostReserveLands
<1>2. QED
  BY <1>1, Invariant, PTL

(* takeMappedInterface never has the interface of one direction of one     *)
(* channel out twice, once for each unit of the client.                    *)
THEOREM HeldOnce == Spec => []OneHolder
<1>1. IInv => OneHolder
  BY DEF IInv
<1>2. QED
  BY <1>1, Invariant, PTL
=============================================================================
