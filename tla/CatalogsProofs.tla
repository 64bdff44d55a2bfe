--------------------------- MODULE CatalogsProofs ---------------------------
(***************************************************************************)
(* Theorems about Catalogs, for every set of clients, every content of the *)
(* catalogs and any number of synchronisations.                            *)
(***************************************************************************)
EXTENDS Catalogs, SequenceTheorems, TLAPS

In(s) == {s[i] : i \in DOMAIN s}
Carries(s) == {s[i].sync : i \in DOMAIN s}
OnceEach(s) == \A i, j \in DOMAIN s : s[i].sync = s[j].sync => i = j

(* p is the last packet of s of a kind in K; s has no packet of such a kind. *)
Final(s, K, p) ==
    \E i \in DOMAIN s : /\ s[i] = p /\ p.kind \in K
                        /\ \A j \in DOMAIN s : j > i => s[j].kind \notin K
None(s, K) == \A i \in DOMAIN s : s[i].kind \notin K

FromHost(c) == wire[c]["HOST"]
FromServer(c) == wire[c]["SERVER"]

(* A packet is of a synchronisation of this client, at the step that sends  *)
(* it.                                                                      *)
Stage(p) == IF p.kind \in {"hash", "answer"} THEN "prepared" ELSE "asked"
Sound(c, p) == p.sync \in Sync /\ asker[p.sync] = c /\ at[p.sync] = Stage(p)
Sounds(c) ==
    /\ \A p \in In(FromHost(c)) : p.kind \in {"request", "hash"} /\ Sound(c, p)
    /\ \A p \in In(FromServer(c)) : p.kind \in {"topology", "answer", "failed"} /\ Sound(c, p)
    /\ renewing[c] # Nothing =>
          renewing[c] \in Sync /\ asker[renewing[c]] = c /\ at[renewing[c]] = "asked"

(* A synchronisation is in one packet, or in the server's unit.            *)
Tokens(h, s, r) ==
    /\ OnceEach(h) /\ OnceEach(s)
    /\ Carries(h) \cap Carries(s) = {}
    /\ r \notin Carries(h) \cup Carries(s)

(* What the server recorded last is what the last packet that tells it     *)
(* says, or what the host recorded if there is none on its way.            *)
Tells == {"topology", "answer"}
Says(p) == IF p.kind = "topology" THEN "no" ELSE p.answer
Flags(c) ==
    c \notin replaced /\ status[c] # "over" =>
        /\ \A p \in In(FromServer(c)) : Final(FromServer(c), Tells, p) => toRemote[c] = Says(p)
        /\ None(FromServer(c), Tells) => toRemote[c] = toHost[c]

(* Before the server has data of the client nothing was told.              *)
Untold(c) ==
    c \notin known => None(FromServer(c), Tells) /\ None(FromHost(c), {"hash"}) /\ toHost[c] = "unset"

(* The copy is that of the last hash sent; or that of the last answer if it *)
(* says that the copy is right; or the one confirmed.                       *)
Copies(c) ==
    status[c] # "over" =>
        /\ \A p \in In(FromHost(c)) : Final(FromHost(c), {"hash"}, p) => p.content = copy[c]
        /\ None(FromHost(c), {"hash"}) =>
              \A p \in In(FromServer(c)) : Final(FromServer(c), {"answer"}, p) /\ p.answer = "yes" =>
                  p.content = copy[c]
        /\ None(FromHost(c), {"hash"}) /\ None(FromServer(c), {"answer"}) /\ toHost[c] = "yes" =>
              confirmed[c] = copy[c]

Exchange(c) ==
    /\ Sounds(c) /\ Tokens(FromHost(c), FromServer(c), renewing[c])
    /\ Flags(c) /\ Untold(c) /\ Copies(c)

IInv ==
    /\ TypeOK
    /\ \A c \in looking : status[c] # "new"
    /\ \A c \in Client : Exchange(c)
-----------------------------------------------------------------------------
(* Sequences of packets: one more, one less.                               *)
LEMMA OneMore ==
    ASSUME NEW T, NEW s \in Seq(T), NEW p \in T
    PROVE  /\ Append(s, p) \in Seq(T)
           /\ In(Append(s, p)) = In(s) \cup {p}
           /\ Carries(Append(s, p)) = Carries(s) \cup {p.sync}
           /\ OnceEach(s) /\ p.sync \notin Carries(s) => OnceEach(Append(s, p))
           /\ \A K, q : Final(Append(s, p), K, q) =>
                  IF p.kind \in K THEN q = p ELSE Final(s, K, q)
           /\ \A K : None(Append(s, p), K) <=> p.kind \notin K /\ None(s, K)
<1>1. PICK r : r = Append(s, p)
  OBVIOUS
<1>2. /\ r \in Seq(T) /\ Len(s) \in Nat /\ DOMAIN s = 1..Len(s)
      /\ DOMAIN r = 1..Len(s) + 1 /\ r[Len(s) + 1] = p
      /\ \A i \in 1..Len(s) : r[i] = s[i]
  BY <1>1, AppendProperties, LenProperties
<1>3. \A i \in 1..Len(s) + 1 : i \in 1..Len(s) \/ i = Len(s) + 1
  BY <1>2
<1>4. Len(s) + 1 \in 1..Len(s) + 1 /\ \A i \in 1..Len(s) : i \in 1..Len(s) + 1 /\ Len(s) + 1 > i
  BY <1>2
<1>5. In(r) = In(s) \cup {p}
  <2>1. In(r) \subseteq In(s) \cup {p}
    BY <1>2, <1>3 DEF In
  <2>2. In(s) \subseteq In(r)
    BY <1>2, <1>4 DEF In
  <2>3. p \in In(r)
    BY <1>2, <1>4 DEF In
  <2>4. QED
    BY <2>1, <2>2, <2>3
<1>6. Carries(r) = Carries(s) \cup {p.sync}
  <2>1. Carries(r) \subseteq Carries(s) \cup {p.sync}
    BY <1>2, <1>3 DEF Carries
  <2>2. Carries(s) \subseteq Carries(r)
    BY <1>2, <1>4 DEF Carries
  <2>3. p.sync \in Carries(r)
    BY <1>2, <1>4 DEF Carries
  <2>4. QED
    BY <2>1, <2>2, <2>3
<1>7. ASSUME OnceEach(s), p.sync \notin Carries(s) PROVE OnceEach(r)
  <2>1. \A i \in 1..Len(s) : r[i].sync # p.sync
    BY <1>2, <1>7 DEF Carries
  <2>2. QED
    BY <1>2, <1>3, <1>7, <2>1 DEF OnceEach
<1>8. ASSUME NEW K, NEW q, Final(r, K, q) PROVE IF p.kind \in K THEN q = p ELSE Final(s, K, q)
  <2>1. PICK i \in 1..Len(s) + 1 : /\ r[i] = q /\ q.kind \in K
                                   /\ \A j \in 1..Len(s) + 1 : j > i => r[j].kind \notin K
    BY <1>2, <1>8 DEF Final
  <2>2. CASE i = Len(s) + 1
    BY <1>2, <2>1, <2>2
  <2>3. CASE i \in 1..Len(s)
    <3>1. p.kind \notin K
      BY <1>2, <1>4, <2>1, <2>3
    <3>2. Final(s, K, q)
      BY <1>2, <1>4, <2>1, <2>3 DEF Final
    <3>3. QED
      BY <3>1, <3>2
  <2>4. QED
    BY <1>3, <2>2, <2>3
<1>9. ASSUME NEW K PROVE None(r, K) <=> p.kind \notin K /\ None(s, K)
  <2>1. None(r, K) => p.kind \notin K /\ None(s, K)
    BY <1>2, <1>4 DEF None
  <2>2. p.kind \notin K /\ None(s, K) => None(r, K)
    BY <1>2, <1>3 DEF None
  <2>3. QED
    BY <2>1, <2>2
<1>10. QED
  BY <1>1, <1>2, <1>5, <1>6, <1>7, <1>8, <1>9

LEMMA OneLess ==
    ASSUME NEW T, NEW s \in Seq(T), s # <<>>
    PROVE  /\ Tail(s) \in Seq(T) /\ Head(s) \in T
           /\ In(s) = In(Tail(s)) \cup {Head(s)}
           /\ OnceEach(s) => /\ OnceEach(Tail(s))
                             /\ Carries(Tail(s)) = Carries(s) \ {Head(s).sync}
           /\ Head(s).sync \in Carries(s)
           /\ \A K, q : Final(Tail(s), K, q) => Final(s, K, q)
           /\ \A K : None(Tail(s), K) =>
                  IF Head(s).kind \in K THEN Final(s, K, Head(s)) ELSE None(s, K)
           /\ \A K : None(s, K) => None(Tail(s), K)
<1>1. PICK r, h : r = Tail(s) /\ h = Head(s)
  OBVIOUS
<1>2. /\ r \in Seq(T) /\ h \in T /\ Len(s) \in Nat \ {0} /\ DOMAIN s = 1..Len(s)
      /\ DOMAIN r = 1..Len(s) - 1 /\ h = s[1]
      /\ \A i \in 1..Len(s) - 1 : r[i] = s[i + 1]
  BY <1>1, EmptySeq, HeadTailProperties, LenProperties
<1>3. /\ \A i \in 1..Len(s) : i = 1 \/ (i - 1 \in 1..Len(s) - 1 /\ s[i] = r[i - 1])
      /\ \A i \in 1..Len(s) - 1 : i + 1 \in 1..Len(s)
      /\ 1 \in 1..Len(s)
  BY <1>2
<1>4. In(s) = In(r) \cup {h}
  <2>1. In(s) \subseteq In(r) \cup {h}
    BY <1>2, <1>3 DEF In
  <2>2. In(r) \subseteq In(s)
    BY <1>2, <1>3 DEF In
  <2>3. h \in In(s)
    BY <1>2, <1>3 DEF In
  <2>4. QED
    BY <2>1, <2>2, <2>3
<1>5. Carries(s) = Carries(r) \cup {h.sync}
  <2>1. Carries(s) \subseteq Carries(r) \cup {h.sync}
    BY <1>2, <1>3 DEF Carries
  <2>2. Carries(r) \subseteq Carries(s)
    <3>1. \A i \in DOMAIN r : i + 1 \in DOMAIN s /\ r[i] = s[i + 1]
      BY <1>2, <1>3
    <3>2. ASSUME NEW i \in DOMAIN r PROVE \E j \in DOMAIN s : r[i].sync = s[j].sync
      <4>1. r[i].sync = s[i + 1].sync /\ i + 1 \in DOMAIN s
        BY <3>1
      <4>2. QED
        BY <4>1
    <3>3. QED
      BY <3>2 DEF Carries
  <2>3. h.sync \in Carries(s)
    <3>1. 1 \in DOMAIN s /\ h = s[1]
      BY <1>2, <1>3
    <3>2. QED
      BY <3>1 DEF Carries
  <2>4. QED
    BY <2>1, <2>2, <2>3
<1>6. ASSUME OnceEach(s) PROVE OnceEach(r) /\ h.sync \notin Carries(r)
  <2>1. \A i, j \in 1..Len(s) : s[i].sync = s[j].sync => i = j
    BY <1>2, <1>6 DEF OnceEach
  <2>2. ASSUME NEW i \in 1..Len(s) - 1 PROVE r[i].sync # h.sync
    <3>1. /\ i + 1 \in 1..Len(s) /\ 1 \in 1..Len(s) /\ i + 1 # 1
          /\ r[i] = s[i + 1] /\ h = s[1]
      BY <1>2
    <3>2. s[i + 1].sync # s[1].sync
      BY <2>1, <3>1
    <3>3. QED
      BY <3>1, <3>2
  <2>3. ASSUME NEW i \in 1..Len(s) - 1, NEW j \in 1..Len(s) - 1, r[i].sync = r[j].sync
        PROVE  i = j
    <3>1. /\ i + 1 \in 1..Len(s) /\ j + 1 \in 1..Len(s)
          /\ r[i] = s[i + 1] /\ r[j] = s[j + 1]
      BY <1>2
    <3>2. i + 1 = j + 1
      BY <2>1, <2>3, <3>1
    <3>3. QED
      BY <3>2
  <2>4. QED
    BY <1>2, <2>2, <2>3 DEF OnceEach, Carries
<1>7. ASSUME NEW K, NEW q, Final(r, K, q) PROVE Final(s, K, q)
  <2>1. PICK i \in 1..Len(s) - 1 : /\ r[i] = q /\ q.kind \in K
                                   /\ \A j \in 1..Len(s) - 1 : j > i => r[j].kind \notin K
    BY <1>2, <1>7 DEF Final
  <2>2. i + 1 \in 1..Len(s) /\ s[i + 1] = q
    BY <1>2, <1>3, <2>1
  <2>3. ASSUME NEW j \in 1..Len(s), j > i + 1 PROVE s[j].kind \notin K
    <3>1. j - 1 \in 1..Len(s) - 1 /\ s[j] = r[j - 1] /\ j - 1 > i
      BY <1>2, <1>3, <2>1, <2>3
    <3>2. QED
      BY <2>1, <3>1
  <2>4. QED
    BY <1>2, <2>1, <2>2, <2>3 DEF Final
<1>8. ASSUME NEW K, None(r, K) PROVE IF h.kind \in K THEN Final(s, K, h) ELSE None(s, K)
  <2>1. \A i \in 1..Len(s) : i = 1 \/ s[i].kind \notin K
    BY <1>2, <1>3, <1>8 DEF None
  <2>2. CASE h.kind \in K
    <3>1. \A j \in 1..Len(s) : j > 1 => s[j].kind \notin K
      BY <2>1
    <3>2. Final(s, K, h)
      BY <1>2, <1>3, <2>2, <3>1 DEF Final
    <3>3. QED
      BY <2>2, <3>2
  <2>3. CASE h.kind \notin K
    BY <1>2, <2>1, <2>3 DEF None
  <2>4. QED
    BY <2>2, <2>3
<1>9. ASSUME NEW K, None(s, K) PROVE None(r, K)
  BY <1>2, <1>3, <1>9 DEF None
<1>10. QED
  BY <1>1, <1>2, <1>4, <1>5, <1>6, <1>7, <1>8, <1>9

LEMMA Empties ==
    /\ In(<<>>) = {} /\ Carries(<<>>) = {} /\ OnceEach(<<>>)
    /\ \A K : None(<<>>, K)
    /\ \A K, q : ~Final(<<>>, K, q)
BY DEF In, Carries, OnceEach, None, Final

LEMMA FinalIn ==
    ASSUME NEW s, NEW K, NEW q, Final(s, K, q)
    PROVE  q \in In(s) /\ q.kind \in K /\ ~None(s, K)
BY DEF Final, In, None
-----------------------------------------------------------------------------
(* A client that a step does not touch.                                    *)
Untouched(d) ==
    /\ wire'[d] = wire[d] /\ renewing'[d] = renewing[d]
    /\ toRemote'[d] = toRemote[d] /\ toHost'[d] = toHost[d]
    /\ copy'[d] = copy[d] /\ confirmed'[d] = confirmed[d]
    /\ status[d] = "over" => status'[d] = "over"
    /\ d \in known' <=> d \in known
    /\ d \in replaced => d \in replaced'

SyncsKept(d) ==
    \A s \in Sync : /\ s \in DOMAIN asker' /\ asker'[s] = asker[s]
                    /\ asker[s] = d => at'[s] = at[s]

LEMMA StillExchange ==
    ASSUME NEW d \in Client, Exchange(d), Untouched(d), SyncsKept(d)
    PROVE  Exchange(d)'
<1>1. FromHost(d)' = FromHost(d) /\ FromServer(d)' = FromServer(d)
  BY DEF FromHost, FromServer, Untouched
<1>2. \A p : Sound(d, p) => Sound(d, p)'
  BY DEF Sound, SyncsKept, Sync
<1>3. Sounds(d)'
  <2>1. renewing'[d] # Nothing =>
            renewing[d] \in Sync' /\ asker'[renewing[d]] = d /\ at'[renewing[d]] = "asked"
    BY DEF Exchange, Sounds, Untouched, SyncsKept, Sync
  <2>2. renewing'[d] = renewing[d]
    BY DEF Untouched
  <2>3. QED
    BY <1>1, <1>2, <2>1, <2>2 DEF Exchange, Sounds
<1>4. Tokens(FromHost(d), FromServer(d), renewing[d])'
  BY <1>1 DEF Exchange, Tokens, Untouched
<1>5. Flags(d)'
  BY <1>1 DEF Exchange, Flags, Untouched
<1>6. Untold(d)'
  BY <1>1 DEF Exchange, Untold, Untouched
<1>7. Copies(d)'
  BY <1>1 DEF Exchange, Copies, Untouched
<1>8. QED
  BY <1>3, <1>4, <1>5, <1>6, <1>7 DEF Exchange
-----------------------------------------------------------------------------
(* The two wires of a client.                                              *)
Rewired(c, nh, ns) ==
    /\ wire' \in [Client -> [Role -> Seq(Packet)]]
    /\ wire'[c]["HOST"] = nh /\ wire'[c]["SERVER"] = ns
    /\ \A d \in Client : d # c => wire'[d] = wire[d]

LEMMA Wires ==
    ASSUME TypeOK, NEW c \in Client
    PROVE  /\ "HOST" \in Role /\ "SERVER" \in Role
           /\ FromHost(c) \in Seq(Packet) /\ FromServer(c) \in Seq(Packet)
           /\ FromHost(c) = wire[c]["HOST"] /\ FromServer(c) = wire[c]["SERVER"]
BY DEF TypeOK, Role, FromHost, FromServer

LEMMA RewiredIs ==
    ASSUME TypeOK, NEW c \in Client, NEW nh \in Seq(Packet), NEW ns \in Seq(Packet),
           \/ wire' = [wire EXCEPT ![c] = [[wire[c] EXCEPT !["HOST"] = nh] EXCEPT !["SERVER"] = ns]]
           \/ wire' = [wire EXCEPT ![c] = [[wire[c] EXCEPT !["SERVER"] = ns] EXCEPT !["HOST"] = nh]]
           \/ wire' = [wire EXCEPT ![c] = [wire[c] EXCEPT !["HOST"] = nh]] /\ ns = FromServer(c)
           \/ wire' = [wire EXCEPT ![c] = [wire[c] EXCEPT !["SERVER"] = ns]] /\ nh = FromHost(c)
           \/ wire' = [wire EXCEPT ![c]["HOST"] = nh] /\ ns = FromServer(c)
           \/ wire' = [wire EXCEPT ![c]["SERVER"] = ns] /\ nh = FromHost(c)
    PROVE  Rewired(c, nh, ns)
<1>1. PICK Q : Q = Seq(Packet)
  OBVIOUS
<1>2. /\ wire \in [Client -> [Role -> Q]] /\ nh \in Q /\ ns \in Q
      /\ Role = {"HOST", "SERVER"}
      /\ FromHost(c) = wire[c]["HOST"] /\ FromServer(c) = wire[c]["SERVER"]
  BY <1>1, Wires DEF TypeOK, Role
<1>3. wire[c] \in [Role -> Q] /\ "HOST" # "SERVER"
  BY <1>2
<1>4. PICK f : f \in [Role -> Q] /\ f["HOST"] = nh /\ f["SERVER"] = ns /\ wire' = [wire EXCEPT ![c] = f]
  BY <1>2, <1>3
<1>5. QED
  BY <1>1, <1>2, <1>4 DEF Rewired

LEMMA Reading ==
    ASSUME TypeOK, NEW c \in Client, NEW p
    PROVE  /\ p \in Incoming(c, "SERVER") =>
                 /\ FromHost(c) # <<>> /\ p = Head(FromHost(c)) /\ p \in Packet
                 /\ renewing[c] = Nothing
           /\ p \in Incoming(c, "HOST") =>
                 FromServer(c) # <<>> /\ p = Head(FromServer(c)) /\ p \in Packet
<1>1. /\ FromHost(c) \in Seq(Packet) /\ FromServer(c) \in Seq(Packet)
      /\ FromHost(c) = wire[c]["HOST"] /\ FromServer(c) = wire[c]["SERVER"]
  BY Wires
<1>2. ASSUME p \in Incoming(c, "SERVER")
      PROVE  FromHost(c) # <<>> /\ p = Head(FromHost(c)) /\ renewing[c] = Nothing
  BY <1>1, <1>2 DEF Incoming, Other
<1>3. ASSUME p \in Incoming(c, "HOST")
      PROVE  FromServer(c) # <<>> /\ p = Head(FromServer(c))
  BY <1>1, <1>3 DEF Incoming, Other
<1>4. QED
  BY <1>1, <1>2, <1>3, HeadTailProperties

LEMMA Consumed ==
    ASSUME TypeOK, NEW c \in Client
    PROVE  /\ Consume(c, "SERVER") /\ FromHost(c) # <<>> =>
                 Rewired(c, Tail(FromHost(c)), FromServer(c))
           /\ Consume(c, "HOST") /\ FromServer(c) # <<>> =>
                 Rewired(c, FromHost(c), Tail(FromServer(c)))
<1>1. /\ FromHost(c) \in Seq(Packet) /\ FromServer(c) \in Seq(Packet)
      /\ FromHost(c) = wire[c]["HOST"] /\ FromServer(c) = wire[c]["SERVER"]
  BY Wires
<1>2. ASSUME Consume(c, "SERVER"), FromHost(c) # <<>>
      PROVE  Rewired(c, Tail(FromHost(c)), FromServer(c))
  <2>1. PICK nh : nh = Tail(FromHost(c))
    OBVIOUS
  <2>2. nh \in Seq(Packet)
    BY <1>1, <1>2, <2>1, HeadTailProperties
  <2>3. wire' = [wire EXCEPT ![c] = [wire[c] EXCEPT !["HOST"] = nh]]
    BY <1>1, <1>2, <2>1 DEF Consume, Taken, Other
  <2>4. QED
    BY <1>1, <2>1, <2>2, <2>3, RewiredIs
<1>3. ASSUME Consume(c, "HOST"), FromServer(c) # <<>>
      PROVE  Rewired(c, FromHost(c), Tail(FromServer(c)))
  <2>1. PICK ns : ns = Tail(FromServer(c))
    OBVIOUS
  <2>2. ns \in Seq(Packet)
    BY <1>1, <1>3, <2>1, HeadTailProperties
  <2>3. wire' = [wire EXCEPT ![c] = [wire[c] EXCEPT !["SERVER"] = ns]]
    BY <1>1, <1>3, <2>1 DEF Consume, Taken, Other
  <2>4. QED
    BY <1>1, <2>1, <2>2, <2>3, RewiredIs
<1>4. QED
  BY <1>2, <1>3

LEMMA Added ==
    ASSUME TypeOK, NEW c \in Client, NEW p \in Packet
    PROVE  /\ wire' = [wire EXCEPT ![c]["HOST"] = Append(@, p)] =>
                 Rewired(c, Append(FromHost(c), p), FromServer(c))
           /\ wire' = [wire EXCEPT ![c]["SERVER"] = Append(@, p)] =>
                 Rewired(c, FromHost(c), Append(FromServer(c), p))
<1>1. /\ FromHost(c) \in Seq(Packet) /\ FromServer(c) \in Seq(Packet)
      /\ FromHost(c) = wire[c]["HOST"] /\ FromServer(c) = wire[c]["SERVER"]
  BY Wires
<1>2. ASSUME wire' = [wire EXCEPT ![c]["HOST"] = Append(@, p)]
      PROVE  Rewired(c, Append(FromHost(c), p), FromServer(c))
  <2>1. PICK nh : nh = Append(FromHost(c), p)
    OBVIOUS
  <2>2. nh \in Seq(Packet)
    BY <1>1, <2>1, AppendProperties
  <2>3. wire' = [wire EXCEPT ![c]["HOST"] = nh]
    BY <1>1, <1>2, <2>1
  <2>4. QED
    BY <1>1, <2>1, <2>2, <2>3, RewiredIs
<1>3. ASSUME wire' = [wire EXCEPT ![c]["SERVER"] = Append(@, p)]
      PROVE  Rewired(c, FromHost(c), Append(FromServer(c), p))
  <2>1. PICK ns : ns = Append(FromServer(c), p)
    OBVIOUS
  <2>2. ns \in Seq(Packet)
    BY <1>1, <2>1, AppendProperties
  <2>3. wire' = [wire EXCEPT ![c]["SERVER"] = ns]
    BY <1>1, <1>3, <2>1
  <2>4. QED
    BY <1>1, <2>1, <2>2, <2>3, RewiredIs
<1>4. QED
  BY <1>2, <1>3

LEMMA Answered ==
    ASSUME TypeOK, NEW c \in Client, NEW p \in Packet
    PROVE  /\ Answer(c, "SERVER", p) /\ FromHost(c) # <<>> =>
                 Rewired(c, Tail(FromHost(c)), Append(FromServer(c), p))
           /\ Answer(c, "HOST", p) /\ FromServer(c) # <<>> =>
                 Rewired(c, Append(FromHost(c), p), Tail(FromServer(c)))
<1>1. /\ FromHost(c) \in Seq(Packet) /\ FromServer(c) \in Seq(Packet)
      /\ FromHost(c) = wire[c]["HOST"] /\ FromServer(c) = wire[c]["SERVER"]
  BY Wires
<1>2. wire[c] \in [Role -> Seq(Packet)] /\ Role = {"HOST", "SERVER"}
  BY DEF TypeOK, Role
<1>3. ASSUME Answer(c, "SERVER", p), FromHost(c) # <<>>
      PROVE  Rewired(c, Tail(FromHost(c)), Append(FromServer(c), p))
  <2>1. PICK nh, ns : nh = Tail(FromHost(c)) /\ ns = Append(FromServer(c), p)
    OBVIOUS
  <2>2. nh \in Seq(Packet) /\ ns \in Seq(Packet)
    BY <1>1, <1>3, <2>1, HeadTailProperties, AppendProperties
  <2>3. Taken(c, "SERVER") = [wire[c] EXCEPT !["HOST"] = nh]
    BY <1>1, <2>1 DEF Taken, Other
  <2>4. [wire[c] EXCEPT !["HOST"] = nh]["SERVER"] = FromServer(c)
    BY <1>1, <1>2
  <2>5. wire' = [wire EXCEPT ![c] = [Taken(c, "SERVER") EXCEPT !["SERVER"] = ns]]
    BY <1>3, <2>1, <2>3, <2>4 DEF Answer
  <2>6. QED
    BY <2>1, <2>2, <2>3, <2>5, RewiredIs
<1>4. ASSUME Answer(c, "HOST", p), FromServer(c) # <<>>
      PROVE  Rewired(c, Append(FromHost(c), p), Tail(FromServer(c)))
  <2>1. PICK nh, ns : nh = Append(FromHost(c), p) /\ ns = Tail(FromServer(c))
    OBVIOUS
  <2>2. nh \in Seq(Packet) /\ ns \in Seq(Packet)
    BY <1>1, <1>4, <2>1, HeadTailProperties, AppendProperties
  <2>3. Taken(c, "HOST") = [wire[c] EXCEPT !["SERVER"] = ns]
    BY <1>1, <2>1 DEF Taken, Other
  <2>4. [wire[c] EXCEPT !["SERVER"] = ns]["HOST"] = FromHost(c)
    BY <1>1, <1>2
  <2>5. wire' = [wire EXCEPT ![c] = [Taken(c, "HOST") EXCEPT !["HOST"] = nh]]
    BY <1>4, <2>1, <2>3, <2>4 DEF Answer
  <2>6. QED
    BY <2>1, <2>2, <2>3, <2>5, RewiredIs
<1>5. QED
  BY <1>3, <1>4

LEMMA Messages ==
    ASSUME NEW kind \in Kind, NEW s \in 1..MaxSyncs, NEW x \in Content
    PROVE  /\ Message(kind, s, x) \in Packet
           /\ Message(kind, s, x).kind = kind /\ Message(kind, s, x).sync = s
           /\ Message(kind, s, x).content = x /\ Message(kind, s, x).answer = "unset"
BY DEF Message, Packet, Flag

LEMMA Answers ==
    ASSUME NEW q \in Packet, NEW v \in Flag
    PROVE  /\ [q EXCEPT !.answer = v] \in Packet
           /\ [q EXCEPT !.answer = v].kind = q.kind
           /\ [q EXCEPT !.answer = v].sync = q.sync
           /\ [q EXCEPT !.answer = v].content = q.content
           /\ [q EXCEPT !.answer = v].answer = v
BY DEF Packet
-----------------------------------------------------------------------------
(* t is s with p at its end; t is what is left of s when p is taken.       *)
More(s, p, t) ==
    /\ In(t) = In(s) \cup {p}
    /\ Carries(t) = Carries(s) \cup {p.sync}
    /\ OnceEach(s) /\ p.sync \notin Carries(s) => OnceEach(t)
    /\ \A K, q : Final(t, K, q) => IF p.kind \in K THEN q = p ELSE Final(s, K, q)
    /\ \A K : None(t, K) <=> p.kind \notin K /\ None(s, K)

Less(s, p, t) ==
    /\ In(s) = In(t) \cup {p}
    /\ OnceEach(s) => OnceEach(t) /\ Carries(t) = Carries(s) \ {p.sync}
    /\ p.sync \in Carries(s)
    /\ \A K, q : Final(t, K, q) => Final(s, K, q)
    /\ \A K : None(t, K) => IF p.kind \in K THEN Final(s, K, p) ELSE None(s, K)
    /\ \A K : None(s, K) => None(t, K)

LEMMA Appended ==
    ASSUME NEW T, NEW s \in Seq(T), NEW p \in T
    PROVE  More(s, p, Append(s, p))
<1>1. PICK t : t = Append(s, p)
  OBVIOUS
<1>2. /\ In(t) = In(s) \cup {p}
      /\ Carries(t) = Carries(s) \cup {p.sync}
      /\ OnceEach(s) /\ p.sync \notin Carries(s) => OnceEach(t)
      /\ \A K, q : Final(t, K, q) => IF p.kind \in K THEN q = p ELSE Final(s, K, q)
      /\ \A K : None(t, K) <=> p.kind \notin K /\ None(s, K)
  BY ONLY <1>1, OneMore
<1>3. QED
  BY <1>1, <1>2 DEF More

LEMMA Removed ==
    ASSUME NEW T, NEW s \in Seq(T), s # <<>>
    PROVE  Less(s, Head(s), Tail(s))
<1>0. s # <<>>
  OBVIOUS
<1>1. PICK t, p : t = Tail(s) /\ p = Head(s)
  OBVIOUS
<1>2. /\ In(s) = In(t) \cup {p}
      /\ OnceEach(s) => OnceEach(t) /\ Carries(t) = Carries(s) \ {p.sync}
      /\ p.sync \in Carries(s)
      /\ \A K, q : Final(t, K, q) => Final(s, K, q)
      /\ \A K : None(t, K) => IF p.kind \in K THEN Final(s, K, p) ELSE None(s, K)
      /\ \A K : None(s, K) => None(t, K)
  BY ONLY <1>0, <1>1, OneLess
<1>3. QED
  BY <1>1, <1>2 DEF Less

LEMMA InCarries ==
    ASSUME NEW s, NEW p \in In(s)
    PROVE  p.sync \in Carries(s)
BY DEF In, Carries

LEMMA CarriesTyped ==
    ASSUME NEW s \in Seq(Packet)
    PROVE  Carries(s) \subseteq 1..MaxSyncs /\ In(s) \subseteq Packet
<1>1. \A i \in DOMAIN s : s[i] \in Packet
  BY LenProperties
<1>2. QED
  BY <1>1 DEF Carries, In, Packet

LEMMA Distinct ==
    ASSUME NEW h, NEW s, NEW r, Tokens(h, s, r), NEW p, NEW t
    PROVE  /\ Less(h, p, t) => p.sync # r /\ \A q \in In(t) \cup In(s) : q.sync # p.sync
           /\ Less(s, p, t) => p.sync # r /\ \A q \in In(h) \cup In(t) : q.sync # p.sync
<1>1. /\ OnceEach(h) /\ OnceEach(s) /\ Carries(h) \cap Carries(s) = {}
      /\ r \notin Carries(h) \cup Carries(s)
  BY DEF Tokens
<1>2. ASSUME Less(h, p, t)
      PROVE  p.sync # r /\ \A q \in In(t) \cup In(s) : q.sync # p.sync
  <2>1. Carries(t) = Carries(h) \ {p.sync} /\ p.sync \in Carries(h)
    BY <1>1, <1>2 DEF Less
  <2>2. QED
    BY <1>1, <2>1, InCarries
<1>3. ASSUME Less(s, p, t)
      PROVE  p.sync # r /\ \A q \in In(h) \cup In(t) : q.sync # p.sync
  <2>1. Carries(t) = Carries(s) \ {p.sync} /\ p.sync \in Carries(s)
    BY <1>1, <1>3 DEF Less
  <2>2. QED
    BY <1>1, <2>1, InCarries
<1>4. QED
  BY <1>2, <1>3

(* What may become of the token of a synchronisation.                      *)
LEMMA TokensMove ==
    ASSUME NEW h, NEW s, NEW r, Tokens(h, s, r), NEW p, NEW q, NEW nh, NEW ns
    PROVE  /\ Less(h, p, nh) => Tokens(nh, s, p.sync)
           /\ Less(s, p, ns) => Tokens(h, ns, r)
           /\ Less(h, p, nh) /\ More(s, q, ns) /\ q.sync = p.sync => Tokens(nh, ns, r)
           /\ Less(s, p, ns) /\ More(h, q, nh) /\ q.sync = p.sync => Tokens(nh, ns, r)
           /\ More(h, q, nh) /\ q.sync \notin Carries(h) \cup Carries(s) \cup {r} => Tokens(nh, s, r)
           /\ More(s, q, ns) /\ q.sync = r /\ Nothing \notin Carries(h) \cup Carries(ns) =>
                 Tokens(h, ns, Nothing)
<1>1. /\ OnceEach(h) /\ OnceEach(s) /\ Carries(h) \cap Carries(s) = {}
      /\ r \notin Carries(h) \cup Carries(s)
  BY DEF Tokens
<1>2. Less(h, p, nh) => OnceEach(nh) /\ Carries(nh) = Carries(h) \ {p.sync} /\ p.sync \in Carries(h)
  BY <1>1 DEF Less
<1>3. Less(s, p, ns) => OnceEach(ns) /\ Carries(ns) = Carries(s) \ {p.sync} /\ p.sync \in Carries(s)
  BY <1>1 DEF Less
<1>4. More(h, q, nh) => /\ Carries(nh) = Carries(h) \cup {q.sync}
                        /\ q.sync \notin Carries(h) => OnceEach(nh)
  BY <1>1 DEF More
<1>5. More(s, q, ns) => /\ Carries(ns) = Carries(s) \cup {q.sync}
                        /\ q.sync \notin Carries(s) => OnceEach(ns)
  BY <1>1 DEF More
<1>6. Less(h, p, nh) => Tokens(nh, s, p.sync)
  BY <1>1, <1>2 DEF Tokens
<1>7. Less(s, p, ns) => Tokens(h, ns, r)
  BY <1>1, <1>3 DEF Tokens
<1>8. Less(h, p, nh) /\ More(s, q, ns) /\ q.sync = p.sync => Tokens(nh, ns, r)
  BY <1>1, <1>2, <1>5 DEF Tokens
<1>9. Less(s, p, ns) /\ More(h, q, nh) /\ q.sync = p.sync => Tokens(nh, ns, r)
  BY <1>1, <1>3, <1>4 DEF Tokens
<1>10. More(h, q, nh) /\ q.sync \notin Carries(h) \cup Carries(s) \cup {r} => Tokens(nh, s, r)
  BY <1>1, <1>4 DEF Tokens
<1>11. More(s, q, ns) /\ q.sync = r /\ Nothing \notin Carries(h) \cup Carries(ns) =>
          Tokens(h, ns, Nothing)
  BY <1>1, <1>5 DEF Tokens
<1>12. QED
  BY <1>6, <1>7, <1>8, <1>9, <1>10, <1>11

(* The wires of a client after each kind of step.                          *)
Now(c, nh, ns) == FromHost(c)' = nh /\ FromServer(c)' = ns

LEMMA AfterConsume ==
    ASSUME TypeOK, NEW c \in Client, NEW p
    PROVE  /\ p \in Incoming(c, "SERVER") /\ Consume(c, "SERVER") =>
                 \E nh : Rewired(c, nh, FromServer(c)) /\ Less(FromHost(c), p, nh)
           /\ p \in Incoming(c, "HOST") /\ Consume(c, "HOST") =>
                 \E ns : Rewired(c, FromHost(c), ns) /\ Less(FromServer(c), p, ns)
<1>1. FromHost(c) \in Seq(Packet) /\ FromServer(c) \in Seq(Packet)
  BY Wires
<1>2. ASSUME p \in Incoming(c, "SERVER"), Consume(c, "SERVER")
      PROVE  \E nh : Rewired(c, nh, FromServer(c)) /\ Less(FromHost(c), p, nh)
  <2>1. FromHost(c) # <<>> /\ p = Head(FromHost(c))
    BY <1>2, Reading
  <2>2. Rewired(c, Tail(FromHost(c)), FromServer(c))
    BY <1>2, <2>1, Consumed
  <2>3. Less(FromHost(c), p, Tail(FromHost(c)))
    BY <1>1, <2>1, Removed
  <2>4. QED
    BY <2>2, <2>3
<1>3. ASSUME p \in Incoming(c, "HOST"), Consume(c, "HOST")
      PROVE  \E ns : Rewired(c, FromHost(c), ns) /\ Less(FromServer(c), p, ns)
  <2>1. FromServer(c) # <<>> /\ p = Head(FromServer(c))
    BY <1>3, Reading
  <2>2. Rewired(c, FromHost(c), Tail(FromServer(c)))
    BY <1>3, <2>1, Consumed
  <2>3. Less(FromServer(c), p, Tail(FromServer(c)))
    BY <1>1, <2>1, Removed
  <2>4. QED
    BY <2>2, <2>3
<1>4. QED
  BY <1>2, <1>3

LEMMA AfterAdd ==
    ASSUME TypeOK, NEW c \in Client, NEW q \in Packet
    PROVE  /\ wire' = [wire EXCEPT ![c]["HOST"] = Append(@, q)] =>
                 \E nh : Rewired(c, nh, FromServer(c)) /\ More(FromHost(c), q, nh)
           /\ wire' = [wire EXCEPT ![c]["SERVER"] = Append(@, q)] =>
                 \E ns : Rewired(c, FromHost(c), ns) /\ More(FromServer(c), q, ns)
<1>1. FromHost(c) \in Seq(Packet) /\ FromServer(c) \in Seq(Packet)
  BY Wires
<1>2. More(FromHost(c), q, Append(FromHost(c), q))
  BY <1>1, Appended
<1>3. More(FromServer(c), q, Append(FromServer(c), q))
  BY <1>1, Appended
<1>4. QED
  BY <1>2, <1>3, Added

LEMMA AfterAnswer ==
    ASSUME TypeOK, NEW c \in Client, NEW p, NEW q \in Packet
    PROVE  /\ p \in Incoming(c, "SERVER") /\ Answer(c, "SERVER", q) =>
                 \E nh, ns : /\ Rewired(c, nh, ns)
                             /\ Less(FromHost(c), p, nh) /\ More(FromServer(c), q, ns)
           /\ p \in Incoming(c, "HOST") /\ Answer(c, "HOST", q) =>
                 \E nh, ns : /\ Rewired(c, nh, ns)
                             /\ More(FromHost(c), q, nh) /\ Less(FromServer(c), p, ns)
<1>1. FromHost(c) \in Seq(Packet) /\ FromServer(c) \in Seq(Packet)
  BY Wires
<1>2. More(FromHost(c), q, Append(FromHost(c), q))
  BY <1>1, Appended
<1>3. More(FromServer(c), q, Append(FromServer(c), q))
  BY <1>1, Appended
<1>4. ASSUME p \in Incoming(c, "SERVER"), Answer(c, "SERVER", q)
      PROVE  \E nh, ns : /\ Rewired(c, nh, ns)
                         /\ Less(FromHost(c), p, nh) /\ More(FromServer(c), q, ns)
  <2>1. FromHost(c) # <<>> /\ p = Head(FromHost(c))
    BY <1>4, Reading
  <2>2. Rewired(c, Tail(FromHost(c)), Append(FromServer(c), q))
    BY <1>4, <2>1, Answered
  <2>3. Less(FromHost(c), p, Tail(FromHost(c)))
    BY <1>1, <2>1, Removed
  <2>4. QED
    BY <1>3, <2>2, <2>3
<1>5. ASSUME p \in Incoming(c, "HOST"), Answer(c, "HOST", q)
      PROVE  \E nh, ns : /\ Rewired(c, nh, ns)
                         /\ More(FromHost(c), q, nh) /\ Less(FromServer(c), p, ns)
  <2>1. FromServer(c) # <<>> /\ p = Head(FromServer(c))
    BY <1>5, Reading
  <2>2. Rewired(c, Append(FromHost(c), q), Tail(FromServer(c)))
    BY <1>5, <2>1, Answered
  <2>3. Less(FromServer(c), p, Tail(FromServer(c)))
    BY <1>1, <2>1, Removed
  <2>4. QED
    BY <1>2, <2>2, <2>3
<1>6. QED
  BY <1>4, <1>5

LEMMA WiresNow ==
    ASSUME NEW c \in Client, NEW nh, NEW ns, Rewired(c, nh, ns)
    PROVE  /\ Now(c, nh, ns) /\ wire' \in [Client -> [Role -> Seq(Packet)]]
           /\ \A d \in Client : d # c => wire'[d] = wire[d]
BY DEF Now, Rewired, FromHost, FromServer
-----------------------------------------------------------------------------
(* Steps that touch no client, or one.                                     *)
LEMMA OneTouched ==
    ASSUME IInv, NEW c \in Client, TypeOK', \A d \in looking' : status'[d] # "new",
           Exchange(c)', \A d \in Client : d # c => Untouched(d) /\ SyncsKept(d)
    PROVE  IInv'
<1>1. ASSUME NEW d \in Client PROVE Exchange(d)'
  <2>1. CASE d = c
    BY <2>1
  <2>2. CASE d # c
    BY <2>2, StillExchange DEF IInv
  <2>3. QED
    BY <2>1, <2>2
<1>2. QED
  BY <1>1 DEF IInv

LEMMA NoneTouched ==
    ASSUME IInv, TypeOK', \A d \in looking' : status'[d] # "new",
           \A d \in Client : Untouched(d), UNCHANGED <<asker, at>>
    PROVE  IInv'
<1>1. \A d \in Client : SyncsKept(d)
  BY DEF SyncsKept, Sync
<1>2. \A d \in Client : Exchange(d)'
  BY <1>1, StillExchange DEF IInv
<1>3. QED
  BY <1>2 DEF IInv

LEMMA SoundKept ==
    ASSUME NEW c, SyncsKept(c), NEW p, Sound(c, p)
    PROVE  Sound(c, p)'
BY DEF SyncsKept, Sound, Sync

LEMMA NoneIn ==
    ASSUME NEW s, NEW K, None(s, K)
    PROVE  (\A p \in In(s) : p.kind \notin K) /\ \A p : ~Final(s, K, p)
BY DEF None, In, Final

(* The server's catalog is in no client's exchange.                        *)
LEMMA ChangeDiskHolds ==
    ASSUME IInv, NEW x \in Content, ChangeDisk(x) \/ Share(x)
    PROVE  IInv'
<1>1. /\ disk' \in Content /\ catalog' \in Content /\ changes' \in 0..MaxChanges
      /\ UNCHANGED <<status, known, looking, replaced, toRemote, toHost, copy, confirmed>>
      /\ UNCHANGED <<asker, at, wire, renewing>>
  <2>1. TypeOK /\ changes \in 0..MaxChanges /\ MaxChanges \in Nat
    BY BoundsAssumption DEF IInv, TypeOK
  <2>2. disk \in Content /\ catalog \in Content
    BY <2>1 DEF TypeOK
  <2>3. QED
    BY <2>1, <2>2 DEF ChangeDisk, Share, data, interfaces
<1>2. TypeOK'
  BY <1>1 DEF IInv, TypeOK
<1>3. \A d \in Client : Untouched(d)
  BY <1>1 DEF Untouched
<1>4. QED
  BY <1>1, <1>2, <1>3, NoneTouched DEF IInv

LEMMA StutterHolds ==
    ASSUME IInv, UNCHANGED vars
    PROVE  IInv'
<1>1. /\ UNCHANGED <<disk, catalog, changes>>
      /\ UNCHANGED <<status, known, looking, replaced, toRemote, toHost, copy, confirmed>>
      /\ UNCHANGED <<asker, at, wire, renewing>>
  BY DEF vars, peer, data, interfaces
<1>2. TypeOK'
  BY <1>1 DEF IInv, TypeOK
<1>3. \A d \in Client : Untouched(d)
  BY <1>1 DEF Untouched
<1>4. QED
  BY <1>1, <1>2, <1>3, NoneTouched DEF IInv

LEMMA AppendClientHolds ==
    ASSUME IInv, NEW c \in Client, AppendClient(c)
    PROVE  IInv'
<1>1. /\ UNCHANGED <<disk, catalog, changes>>
      /\ UNCHANGED <<known, looking, replaced, toRemote, toHost, copy, confirmed>>
      /\ UNCHANGED <<asker, at, wire, renewing>>
      /\ status[c] = "new" /\ status' = [status EXCEPT ![c] = "listed"]
  BY DEF AppendClient, peer, data, interfaces
<1>2. status \in [Client -> {"new", "listed", "over"}]
  BY DEF IInv, TypeOK
<1>3. /\ status' \in [Client -> {"new", "listed", "over"}] /\ status'[c] = "listed"
      /\ \A d \in Client : d # c => status'[d] = status[d]
  BY <1>1, <1>2
<1>4. TypeOK'
  BY <1>1, <1>3 DEF IInv, TypeOK
<1>5. \A d \in Client : Untouched(d)
  BY <1>1, <1>3 DEF Untouched
<1>6. \A d \in looking' : status'[d] # "new"
  BY <1>1, <1>3 DEF IInv, TypeOK
<1>7. QED
  BY <1>1, <1>4, <1>5, <1>6, NoneTouched

LEMMA LookHolds ==
    ASSUME IInv, NEW c \in Client, Look(c)
    PROVE  IInv'
<1>1. /\ UNCHANGED <<disk, catalog, changes>>
      /\ UNCHANGED <<status, known, replaced, toRemote, toHost, copy, confirmed>>
      /\ UNCHANGED <<asker, at, wire, renewing>>
      /\ status[c] = "listed" /\ looking' = looking \cup {c}
  BY DEF Look, peer
<1>2. TypeOK'
  BY <1>1 DEF IInv, TypeOK
<1>3. \A d \in Client : Untouched(d)
  BY <1>1 DEF Untouched
<1>4. \A d \in looking' : status'[d] # "new"
  BY <1>1 DEF IInv
<1>5. QED
  BY <1>1, <1>2, <1>3, <1>4, NoneTouched

LEMMA MakeDataHolds ==
    ASSUME IInv, NEW c \in Client, MakeData(c)
    PROVE  IInv'
<1>1. /\ UNCHANGED <<disk, catalog, changes>>
      /\ UNCHANGED <<status, toHost, copy, confirmed>>
      /\ UNCHANGED <<asker, at, wire, renewing>>
      /\ c \in looking /\ looking' = looking \ {c} /\ known' = known \cup {c}
      /\ replaced' = replaced \cup ({c} \cap known)
      /\ toRemote' = [toRemote EXCEPT ![c] = "unset"]
  BY DEF MakeData, peer
<1>2. toRemote \in [Client -> Flag] /\ "unset" \in Flag /\ status[c] # "new"
  BY <1>1 DEF IInv, TypeOK, Flag
<1>3. /\ toRemote' \in [Client -> Flag] /\ toRemote'[c] = "unset"
      /\ \A d \in Client : d # c => toRemote'[d] = toRemote[d]
  BY <1>1, <1>2
<1>4. TypeOK'
  BY <1>1, <1>2, <1>3 DEF IInv, TypeOK
<1>5. \A d \in Client : d # c => Untouched(d) /\ SyncsKept(d)
  BY <1>1, <1>3 DEF Untouched, SyncsKept, Sync
<1>6. \A d \in looking' : status'[d] # "new"
  BY <1>1 DEF IInv
<1>7. Exchange(c) /\ SyncsKept(c) /\ FromHost(c)' = FromHost(c) /\ FromServer(c)' = FromServer(c)
  BY <1>1 DEF IInv, SyncsKept, Sync, FromHost, FromServer
<1>8. Sounds(c)' /\ Tokens(FromHost(c), FromServer(c), renewing[c])' /\ Copies(c)'
  <2>1. Sounds(c)'
    BY <1>1, <1>7 DEF Exchange, Sounds, Sound, Sync
  <2>2. Tokens(FromHost(c), FromServer(c), renewing[c])'
    BY <1>1, <1>7 DEF Exchange, Tokens
  <2>3. Copies(c)'
    BY <1>1, <1>7 DEF Exchange, Copies
  <2>4. QED
    BY <2>1, <2>2, <2>3
<1>9. Untold(c)'
  BY <1>1 DEF Untold
<1>10. Flags(c)'
  <2>1. CASE c \in known
    BY <1>1, <2>1 DEF Flags
  <2>2. CASE c \notin known
    <3>1. None(FromServer(c), Tells) /\ toHost[c] = "unset"
      BY <1>7, <2>2 DEF Exchange, Untold
    <3>2. QED
      BY <1>1, <1>3, <1>7, <3>1, NoneIn DEF Flags
  <2>3. QED
    BY <2>1, <2>2
<1>11. Exchange(c)'
  BY <1>8, <1>9, <1>10 DEF Exchange
<1>12. QED
  BY <1>4, <1>5, <1>6, <1>11, OneTouched

LEMMA ClientOverHolds ==
    ASSUME IInv, NEW c \in Client, ClientOver(c)
    PROVE  IInv'
<1>1. /\ UNCHANGED <<disk, catalog, changes>>
      /\ UNCHANGED <<known, looking, replaced, toRemote, toHost, copy, confirmed>>
      /\ UNCHANGED <<asker, at>>
      /\ status' = [status EXCEPT ![c] = "over"]
      /\ renewing' = [renewing EXCEPT ![c] = Nothing]
  BY DEF ClientOver, peer, data, interfaces
<1>2. status \in [Client -> {"new", "listed", "over"}] /\ renewing \in [Client -> 1..MaxSyncs \cup {Nothing}]
  BY DEF IInv, TypeOK
<1>3. /\ status' \in [Client -> {"new", "listed", "over"}] /\ status'[c] = "over"
      /\ renewing' \in [Client -> 1..MaxSyncs \cup {Nothing}] /\ renewing'[c] = Nothing
      /\ \A d \in Client : d # c => status'[d] = status[d] /\ renewing'[d] = renewing[d]
  BY <1>1, <1>2
<1>4. PICK e : e = <<>>
  OBVIOUS
<1>5. e \in Seq(Packet)
  BY <1>4
<1>6. wire' = [wire EXCEPT ![c] = [r \in Role |-> e]]
  BY <1>4 DEF ClientOver
<1>7. wire \in [Client -> [Role -> Seq(Packet)]]
  BY DEF IInv, TypeOK
<1>8. /\ wire' \in [Client -> [Role -> Seq(Packet)]]
      /\ FromHost(c)' = e /\ FromServer(c)' = e
      /\ \A d \in Client : d # c => wire'[d] = wire[d]
  <2>1. PICK Q : Q = Seq(Packet)
    OBVIOUS
  <2>2. "HOST" \in Role /\ "SERVER" \in Role
    BY DEF Role
  <2>3. [r \in Role |-> e] \in [Role -> Q] /\ wire \in [Client -> [Role -> Q]]
    BY <1>5, <1>7, <2>1
  <2>4. /\ wire' \in [Client -> [Role -> Q]] /\ wire'[c] = [r \in Role |-> e]
        /\ \A d \in Client : d # c => wire'[d] = wire[d]
    BY <1>6, <2>3
  <2>5. QED
    BY <2>1, <2>2, <2>4 DEF FromHost, FromServer
<1>9. TypeOK'
  BY <1>1, <1>3, <1>8 DEF IInv, TypeOK
<1>10. \A d \in Client : d # c => Untouched(d) /\ SyncsKept(d)
  BY <1>1, <1>3, <1>8 DEF Untouched, SyncsKept, Sync
<1>11. \A d \in looking' : status'[d] # "new"
  BY <1>1, <1>3 DEF IInv, TypeOK
<1>12. Exchange(c)'
  <2>1. In(e) = {} /\ Carries(e) = {} /\ OnceEach(e) /\ \A K : None(e, K)
    BY <1>4, Empties
  <2>2. Sounds(c)' /\ Tokens(FromHost(c), FromServer(c), renewing[c])'
    BY <1>3, <1>8, <2>1 DEF Sounds, Tokens
  <2>3. Flags(c)' /\ Copies(c)'
    BY <1>3 DEF Flags, Copies
  <2>4. Untold(c)'
    BY <1>1, <1>8, <2>1 DEF IInv, Exchange, Untold
  <2>5. QED
    BY <2>2, <2>3, <2>4 DEF Exchange
<1>13. QED
  BY <1>9, <1>10, <1>11, <1>12, OneTouched
-----------------------------------------------------------------------------
(* The steps of a synchronisation.                                         *)
LEMMA RequestHolds ==
    ASSUME IInv, NEW c \in Client, Request(c)
    PROVE  IInv'
<1>1. /\ UNCHANGED <<disk, catalog, changes, status>>
      /\ UNCHANGED <<known, looking, replaced, toRemote, toHost, copy, confirmed>>
      /\ renewing' = renewing /\ Len(asker) < MaxSyncs
  BY DEF Request, peer, data, interfaces
<1>2. PICK n : n = Len(asker) + 1
  OBVIOUS
<1>3. /\ TypeOK /\ Exchange(c) /\ MaxSyncs \in Nat
      /\ asker \in Seq(Client) /\ at \in Seq({"asked", "prepared", "over", "fault"})
      /\ Len(at) = Len(asker)
  BY BoundsAssumption DEF IInv, TypeOK
<1>4. /\ n \in 1..MaxSyncs /\ n \notin Sync /\ Len(asker') = n
      /\ Len(at') = n /\ n \in Sync' /\ asker'[n] = c /\ at'[n] = "asked"
      /\ asker' \in Seq(Client) /\ at' \in Seq({"asked", "prepared", "over", "fault"})
      /\ \A s \in Sync : s \in Sync' /\ asker'[s] = asker[s] /\ at'[s] = at[s]
  <2>1. asker' = Append(asker, c) /\ at' = Append(at, "asked")
    BY DEF Request
  <2>2. /\ asker' \in Seq(Client) /\ Len(asker') = Len(asker) + 1
        /\ asker'[Len(asker) + 1] = c
        /\ \A s \in 1..Len(asker) : asker'[s] = asker[s]
    BY <1>3, <2>1, AppendProperties
  <2>3. /\ at' \in Seq({"asked", "prepared", "over", "fault"}) /\ Len(at') = Len(at) + 1
        /\ at'[Len(at) + 1] = "asked"
        /\ \A s \in 1..Len(at) : at'[s] = at[s]
    BY <1>3, <2>1, AppendProperties
  <2>4. DOMAIN asker = 1..Len(asker) /\ DOMAIN asker' = 1..Len(asker') /\ Len(asker) \in Nat
    BY <1>3, <2>2, LenProperties
  <2>5. QED
    BY <1>1, <1>2, <1>3, <2>2, <2>3, <2>4 DEF Sync
<1>5. SyncsKept(c) /\ \A d \in Client : SyncsKept(d)
  BY <1>4 DEF SyncsKept, Sync
<1>6. PICK q : /\ q \in Packet /\ q.kind = "request" /\ q.sync = n
               /\ wire' = [wire EXCEPT ![c]["HOST"] = Append(@, q)]
  <2>1. "request" \in Kind /\ Empty \in Content /\ "unset" \in Flag
    BY ContentAssumption DEF Kind, Flag
  <2>2. wire' = [wire EXCEPT ![c]["HOST"] = Append(@, Message("request", n, Empty))]
    BY <1>4 DEF Request
  <2>3. PICK q : q = Message("request", n, Empty)
    OBVIOUS
  <2>4. q \in Packet /\ q.kind = "request" /\ q.sync = n
    BY <1>4, <2>1, <2>3, Messages
  <2>5. wire' = [wire EXCEPT ![c]["HOST"] = Append(@, q)]
    BY <2>2, <2>3
  <2>6. QED
    BY <2>4, <2>5
<1>7. PICK nh : Rewired(c, nh, FromServer(c)) /\ More(FromHost(c), q, nh)
  BY <1>3, <1>6, AfterAdd
<1>8. PICK h, s, r : h = FromHost(c) /\ s = FromServer(c) /\ r = renewing[c]
  OBVIOUS
<1>9. /\ FromHost(c)' = nh /\ FromServer(c)' = s /\ renewing'[c] = r
      /\ wire' \in [Client -> [Role -> Seq(Packet)]]
      /\ \A d \in Client : d # c => wire'[d] = wire[d]
  BY <1>1, <1>7, <1>8, WiresNow DEF Now
<1>10. More(h, q, nh)
  BY <1>7, <1>8
<1>11. TypeOK'
  BY <1>1, <1>3, <1>4, <1>9 DEF TypeOK
<1>12. \A d \in Client : d # c => Untouched(d) /\ SyncsKept(d)
  BY <1>1, <1>5, <1>9 DEF Untouched
<1>13. \A d \in looking' : status'[d] # "new"
  BY <1>1 DEF IInv
<1>14. Sounds(c)'
  <2>1. Sound(c, q)'
    BY <1>4, <1>6 DEF Sound, Stage
  <2>2. \A p : Sound(c, p) => Sound(c, p)'
    BY <1>5, SoundKept
  <2>3. In(nh) = In(h) \cup {q}
    BY <1>10 DEF More
  <2>4. r # Nothing => r \in Sync' /\ asker'[r] = c /\ at'[r] = "asked"
    BY <1>3, <1>4, <1>8 DEF Exchange, Sounds
  <2>5. QED
    BY <1>3, <1>6, <1>8, <1>9, <2>1, <2>2, <2>3, <2>4 DEF Exchange, Sounds
<1>15. Tokens(FromHost(c), FromServer(c), renewing[c])'
  <2>1. Tokens(h, s, r)
    BY <1>3, <1>8 DEF Exchange
  <2>2. Carries(h) \subseteq Sync /\ Carries(s) \subseteq Sync /\ n # r
    <3>1. \A p \in In(h) \cup In(s) : p.sync \in Sync
      BY <1>3, <1>8 DEF Exchange, Sounds, Sound
    <3>2. r # Nothing => r \in Sync
      BY <1>3, <1>8 DEF Exchange, Sounds
    <3>3. n # Nothing
      BY <1>4, NothingAssumption
    <3>4. QED
      BY <1>4, <3>1, <3>2, <3>3 DEF Carries, In
  <2>3. Tokens(nh, s, r)
    BY <1>4, <1>6, <1>10, <2>1, <2>2, TokensMove
  <2>4. QED
    BY <1>9, <2>3
<1>16. \A K : None(nh, K) <=> q.kind \notin K /\ None(h, K)
  BY <1>10 DEF More
<1>17. \A p : Final(nh, {"hash"}, p) => Final(h, {"hash"}, p)
  BY <1>6, <1>10 DEF More
<1>18. Flags(c)' /\ Untold(c)' /\ Copies(c)'
  <2>1. Flags(c) /\ Untold(c) /\ Copies(c)
    BY <1>3 DEF Exchange
  <2>2. None(nh, {"hash"}) <=> None(h, {"hash"})
    BY <1>6, <1>16
  <2>3. Flags(c)'
    BY <1>1, <1>8, <1>9, <2>1 DEF Flags
  <2>4. Untold(c)'
    BY <1>1, <1>8, <1>9, <2>1, <2>2 DEF Untold
  <2>5. Copies(c)'
    <3>1. FromHost(c)' = nh /\ FromServer(c)' = s /\ UNCHANGED <<status, copy, confirmed, toHost>>
      BY <1>1, <1>9
    <3>2. In(nh) = In(h) \cup {q} /\ \A p : Final(h, {"hash"}, p) => p \in In(h)
      BY <1>10, FinalIn DEF More
    <3>3. QED
      BY <1>8, <1>17, <2>1, <2>2, <3>1, <3>2 DEF Copies
  <2>6. QED
    BY <2>3, <2>4, <2>5
<1>19. Exchange(c)'
  BY <1>14, <1>15, <1>18 DEF Exchange
<1>20. QED
  BY <1>11, <1>12, <1>13, <1>19, OneTouched

LEMMA RenewHolds ==
    ASSUME IInv, NEW c \in Client, NEW p, Renew(c, p)
    PROVE  IInv'
<1>1. /\ UNCHANGED <<disk, changes, status, asker, at>> /\ catalog' = disk
      /\ UNCHANGED <<known, looking, replaced, toRemote, toHost, copy, confirmed>>
      /\ p \in Incoming(c, "SERVER") /\ p.kind = "request" /\ Consume(c, "SERVER")
      /\ renewing' = [renewing EXCEPT ![c] = p.sync]
  BY DEF Renew, RenewCatalog, data, interfaces
<1>2. TypeOK /\ Exchange(c)
  BY DEF IInv
<1>3. p \in Packet /\ p.sync \in 1..MaxSyncs /\ renewing[c] = Nothing
  BY <1>1, <1>2, Reading DEF Packet
<1>4. PICK nh : Rewired(c, nh, FromServer(c)) /\ Less(FromHost(c), p, nh)
  BY <1>1, <1>2, AfterConsume
<1>5. PICK h, s : h = FromHost(c) /\ s = FromServer(c)
  OBVIOUS
<1>6. /\ FromHost(c)' = nh /\ FromServer(c)' = s
      /\ wire' \in [Client -> [Role -> Seq(Packet)]]
      /\ \A d \in Client : d # c => wire'[d] = wire[d]
  BY <1>4, <1>5, WiresNow DEF Now
<1>7. Less(h, p, nh)
  BY <1>4, <1>5
<1>8. /\ renewing' \in [Client -> 1..MaxSyncs \cup {Nothing}] /\ renewing'[c] = p.sync
      /\ \A d \in Client : d # c => renewing'[d] = renewing[d]
  <2>1. renewing \in [Client -> 1..MaxSyncs \cup {Nothing}]
    BY <1>2 DEF TypeOK
  <2>2. QED
    BY <1>1, <1>3, <2>1
<1>9. TypeOK'
  BY <1>1, <1>2, <1>6, <1>8 DEF TypeOK
<1>10. \A d \in Client : d # c => Untouched(d) /\ SyncsKept(d)
  BY <1>1, <1>6, <1>8 DEF Untouched, SyncsKept, Sync
<1>11. \A d \in looking' : status'[d] # "new"
  BY <1>1 DEF IInv
<1>12. In(h) = In(nh) \cup {p}
  BY <1>7 DEF Less
<1>13. Sounds(c)'
  <2>1. Sound(c, p)
    BY <1>2, <1>5, <1>12 DEF Exchange, Sounds
  <2>2. p.sync \in Sync /\ asker[p.sync] = c /\ at[p.sync] = "asked"
    BY <1>1, <2>1 DEF Sound, Stage
  <2>3. \A q : Sound(c, q)' <=> Sound(c, q)
    BY <1>1 DEF Sound, Sync
  <2>4. QED
    BY <1>1, <1>2, <1>5, <1>6, <1>8, <1>12, <2>2, <2>3 DEF Exchange, Sounds, Sync
<1>14. Tokens(FromHost(c), FromServer(c), renewing[c])'
  <2>1. Tokens(h, s, renewing[c])
    BY <1>2, <1>5 DEF Exchange
  <2>2. Tokens(nh, s, p.sync)
    BY <1>7, <2>1, TokensMove
  <2>3. QED
    BY <1>6, <1>8, <2>2
<1>15. Flags(c)' /\ Untold(c)' /\ Copies(c)'
  <2>1. Flags(c) /\ Untold(c) /\ Copies(c)
    BY <1>2 DEF Exchange
  <2>2. /\ None(nh, {"hash"}) <=> None(h, {"hash"})
        /\ \A q : Final(nh, {"hash"}, q) => Final(h, {"hash"}, q)
    BY <1>1, <1>7 DEF Less
  <2>3. Flags(c)'
    BY <1>1, <1>5, <1>6, <2>1 DEF Flags
  <2>4. Untold(c)'
    BY <1>1, <1>5, <1>6, <2>1, <2>2 DEF Untold
  <2>5. Copies(c)'
    BY <1>1, <1>5, <1>6, <1>12, <2>1, <2>2 DEF Copies
  <2>6. QED
    BY <2>3, <2>4, <2>5
<1>16. Exchange(c)'
  BY <1>13, <1>14, <1>15 DEF Exchange
<1>17. QED
  BY <1>9, <1>10, <1>11, <1>16, OneTouched

LEMMA TellTopologyHolds ==
    ASSUME IInv, NEW c \in Client, TellTopology(c)
    PROVE  IInv'
<1>1. PICK s : s = renewing[c]
  OBVIOUS
<1>2. /\ UNCHANGED <<disk, catalog, changes, status, asker, at>>
      /\ UNCHANGED <<looking, replaced, toHost, copy, confirmed>>
      /\ s # Nothing /\ renewing' = [renewing EXCEPT ![c] = Nothing]
  BY <1>1 DEF TellTopology, peer
<1>3. TypeOK /\ Exchange(c) /\ catalog \in Content /\ Empty \in Content
  BY ContentAssumption DEF IInv, TypeOK
<1>4. /\ s \in 1..MaxSyncs /\ renewing'[c] = Nothing
      /\ renewing' \in [Client -> 1..MaxSyncs \cup {Nothing}]
      /\ \A d \in Client : d # c => renewing'[d] = renewing[d]
  <2>1. renewing \in [Client -> 1..MaxSyncs \cup {Nothing}]
    BY <1>3 DEF TypeOK
  <2>2. QED
    BY <1>1, <1>2, <2>1
<1>5. s \in Sync /\ asker[s] = c /\ at[s] = "asked"
  BY <1>1, <1>2, <1>3 DEF Exchange, Sounds
<1>6. PICK q : /\ q \in Packet /\ q.sync = s /\ q.kind \in {"topology", "failed"}
               /\ wire' = [wire EXCEPT ![c]["SERVER"] = Append(@, q)]
               /\ \/ q.kind = "topology" /\ HasInterface(c) /\ known' = known \cup {c}
                                         /\ toRemote' = [toRemote EXCEPT ![c] = "no"]
                  \/ q.kind = "failed" /\ UNCHANGED <<known, toRemote>>
  <2>1. PICK t, f : t = Message("topology", s, catalog) /\ f = Message("failed", s, Empty)
    OBVIOUS
  <2>2. "topology" \in Kind /\ "failed" \in Kind /\ "unset" \in Flag
    BY DEF Kind, Flag
  <2>3. /\ t \in Packet /\ t.sync = s /\ t.kind = "topology"
        /\ f \in Packet /\ f.sync = s /\ f.kind = "failed"
    BY <1>3, <1>4, <2>1, <2>2, Messages
  <2>4. \/ /\ wire' = [wire EXCEPT ![c]["SERVER"] = Append(@, t)]
           /\ HasInterface(c) /\ known' = known \cup {c}
           /\ toRemote' = [toRemote EXCEPT ![c] = "no"]
        \/ /\ wire' = [wire EXCEPT ![c]["SERVER"] = Append(@, f)]
           /\ UNCHANGED <<known, toRemote>>
    BY <1>1, <2>1 DEF TellTopology, Say
  <2>5. QED
    BY <2>3, <2>4
<1>7. PICK ns : Rewired(c, FromHost(c), ns) /\ More(FromServer(c), q, ns)
  BY <1>3, <1>6, AfterAdd
<1>8. PICK h, t : h = FromHost(c) /\ t = FromServer(c)
  OBVIOUS
<1>9. /\ FromHost(c)' = h /\ FromServer(c)' = ns
      /\ wire' \in [Client -> [Role -> Seq(Packet)]]
      /\ \A d \in Client : d # c => wire'[d] = wire[d]
  BY <1>7, <1>8, WiresNow DEF Now
<1>10. More(t, q, ns)
  BY <1>7, <1>8
<1>11. /\ toRemote' \in [Client -> Flag]
       /\ \A d \in Client : d # c => toRemote'[d] = toRemote[d] /\ (d \in known' <=> d \in known)
       /\ q.kind = "topology" => toRemote'[c] = "no"
       /\ q.kind = "failed" => toRemote'[c] = toRemote[c]
       /\ known \subseteq known' /\ known' \subseteq {d \in Client : status[d] # "new"}
       /\ q.kind = "topology" => c \in known'
  <2>1. toRemote \in [Client -> Flag] /\ "no" \in Flag /\ known \subseteq {d \in Client : status[d] # "new"}
    BY <1>3 DEF TypeOK, Flag
  <2>2. HasInterface(c) => c \in {d \in Client : status[d] # "new"}
    BY <2>1 DEF HasInterface
  <2>3. QED
    BY <1>6, <2>1, <2>2
<1>12. TypeOK'
  BY <1>2, <1>3, <1>4, <1>9, <1>11 DEF TypeOK
<1>13. \A d \in Client : d # c => Untouched(d) /\ SyncsKept(d)
  BY <1>2, <1>4, <1>9, <1>11 DEF Untouched, SyncsKept, Sync
<1>14. \A d \in looking' : status'[d] # "new"
  BY <1>2 DEF IInv
<1>15. In(ns) = In(t) \cup {q}
  BY <1>10 DEF More
<1>16. Sounds(c)'
  <2>1. \A p : Sound(c, p)' <=> Sound(c, p)
    BY <1>2 DEF Sound, Sync
  <2>2. Sound(c, q)
    BY <1>5, <1>6 DEF Sound, Stage
  <2>3. QED
    BY <1>3, <1>4, <1>6, <1>8, <1>9, <1>15, <2>1, <2>2 DEF Exchange, Sounds
<1>17. Tokens(FromHost(c), FromServer(c), renewing[c])'
  <2>1. Tokens(h, t, s)
    BY <1>1, <1>3, <1>8 DEF Exchange
  <2>2. Nothing \notin Carries(h) \cup Carries(ns)
    <3>1. Carries(h) \subseteq 1..MaxSyncs /\ Carries(t) \subseteq 1..MaxSyncs
      BY <1>3, <1>8, Wires, CarriesTyped
    <3>2. Carries(ns) = Carries(t) \cup {s}
      BY <1>6, <1>10 DEF More
    <3>3. QED
      BY <1>4, <3>1, <3>2, NothingAssumption
  <2>3. Tokens(h, ns, Nothing)
    BY <1>6, <1>10, <2>1, <2>2, TokensMove
  <2>4. QED
    BY <1>4, <1>9, <2>3
<1>18. /\ Flags(c) /\ Untold(c) /\ Copies(c)
       /\ \A p : Final(ns, {"answer"}, p) => Final(t, {"answer"}, p)
       /\ None(ns, {"answer"}) <=> None(t, {"answer"})
  BY <1>3, <1>6, <1>10 DEF More, Exchange
<1>19. Copies(c)'
  <2>1. \A p : Final(t, {"answer"}, p) => p \in In(t)
    BY FinalIn
  <2>2. QED
    BY <1>2, <1>8, <1>9, <1>15, <1>18, <2>1 DEF Copies
<1>20. Flags(c)' /\ Untold(c)'
  <2>1. CASE q.kind = "topology"
    <3>1. /\ \A p : Final(ns, Tells, p) => p = q
          /\ ~None(ns, Tells) /\ Says(q) = "no"
      BY <1>10, <2>1 DEF More, Tells, Says
    <3>2. Flags(c)'
      BY <1>9, <1>11, <2>1, <3>1 DEF Flags
    <3>3. Untold(c)'
      BY <1>11, <2>1 DEF Untold
    <3>4. QED
      BY <3>2, <3>3
  <2>2. CASE q.kind = "failed"
    <3>1. /\ \A p : Final(ns, Tells, p) => Final(t, Tells, p)
          /\ None(ns, Tells) <=> None(t, Tells)
      BY <1>10, <2>2 DEF More, Tells
    <3>2. \A p : Final(t, Tells, p) => p \in In(t)
      BY FinalIn
    <3>3. Flags(c)'
      BY <1>2, <1>8, <1>9, <1>11, <1>15, <1>18, <2>2, <3>1, <3>2 DEF Flags
    <3>4. Untold(c)'
      BY <1>2, <1>8, <1>9, <1>11, <1>18, <3>1 DEF Untold
    <3>5. QED
      BY <3>3, <3>4
  <2>3. QED
    BY <1>6, <2>1, <2>2
<1>21. Exchange(c)'
  BY <1>16, <1>17, <1>19, <1>20 DEF Exchange
<1>22. QED
  BY <1>12, <1>13, <1>14, <1>21, OneTouched

(* A step of the host, at a packet that only its own synchronisation reads. *)
LEMMA Reached ==
    ASSUME TypeOK, NEW s \in Sync, NEW step \in {"asked", "prepared", "over", "fault"},
           Reach(s, step), UNCHANGED asker
    PROVE  /\ at' \in Seq({"asked", "prepared", "over", "fault"}) /\ Len(at') = Len(asker')
           /\ at'[s] = step /\ \A x \in Sync : x # s => at'[x] = at[x]
           /\ \A d \in Client : d # asker[s] => SyncsKept(d)
<1>1. PICK T : T = {"asked", "prepared", "over", "fault"}
  OBVIOUS
<1>2. at \in Seq(T) /\ Len(at) = Len(asker) /\ asker \in Seq(Client) /\ step \in T
  BY <1>1 DEF TypeOK
<1>3. Sync = 1..Len(at)
  BY <1>2, LenProperties DEF Sync
<1>4. at' = [at EXCEPT ![s] = step]
  BY DEF Reach
<1>5. /\ at' \in Seq(T) /\ Len(at') = Len(at) /\ at'[s] = step
      /\ \A x \in 1..Len(at) : x # s => at'[x] = at[x]
  BY <1>2, <1>3, <1>4, ExceptSeq
<1>6. QED
  BY <1>1, <1>2, <1>3, <1>5 DEF SyncsKept, Sync

LEMMA PrepareHolds ==
    ASSUME IInv, NEW c \in Client, NEW p, Prepare(c, p)
    PROVE  IInv'
<1>1. /\ UNCHANGED <<disk, catalog, changes, status, asker, renewing>>
      /\ UNCHANGED <<known, looking, replaced, toRemote, confirmed>>
      /\ p \in Incoming(c, "HOST") /\ p.kind = "topology"
      /\ toHost' = [toHost EXCEPT ![c] = "no"] /\ copy' = [copy EXCEPT ![c] = p.content]
      /\ Reach(p.sync, "prepared")
      /\ Answer(c, "HOST", Message("hash", p.sync, p.content))
  BY DEF Prepare, peer, interfaces
<1>2. TypeOK /\ Exchange(c)
  BY DEF IInv
<1>3. p \in Packet /\ p.sync \in 1..MaxSyncs /\ p.content \in Content
  BY <1>1, <1>2, Reading DEF Packet
<1>4. PICK q : /\ q = Message("hash", p.sync, p.content)
               /\ q \in Packet /\ q.kind = "hash" /\ q.sync = p.sync /\ q.content = p.content
  <2>1. "hash" \in Kind /\ "unset" \in Flag
    BY DEF Kind, Flag
  <2>2. QED
    BY <1>3, <2>1, Messages
<1>5. PICK nh, ns : Rewired(c, nh, ns) /\ More(FromHost(c), q, nh) /\ Less(FromServer(c), p, ns)
  BY <1>1, <1>2, <1>4, AfterAnswer
<1>6. PICK h, s, r : h = FromHost(c) /\ s = FromServer(c) /\ r = renewing[c]
  OBVIOUS
<1>7. /\ FromHost(c)' = nh /\ FromServer(c)' = ns /\ renewing'[c] = r
      /\ wire' \in [Client -> [Role -> Seq(Packet)]]
      /\ \A d \in Client : d # c => wire'[d] = wire[d]
  BY <1>1, <1>5, <1>6, WiresNow DEF Now
<1>8. More(h, q, nh) /\ Less(s, p, ns)
  BY <1>5, <1>6
<1>9. In(nh) = In(h) \cup {q} /\ In(s) = In(ns) \cup {p}
  BY <1>8 DEF More, Less
<1>10. p.sync \in Sync /\ asker[p.sync] = c
  BY <1>2, <1>6, <1>9 DEF Exchange, Sounds, Sound
<1>11. /\ at' \in Seq({"asked", "prepared", "over", "fault"}) /\ Len(at') = Len(asker')
       /\ at'[p.sync] = "prepared" /\ \A x \in Sync : x # p.sync => at'[x] = at[x]
       /\ \A d \in Client : d # c => SyncsKept(d)
  BY <1>1, <1>2, <1>10, Reached
<1>12. /\ toHost' \in [Client -> Flag] /\ toHost'[c] = "no"
       /\ copy' \in [Client -> Content] /\ copy'[c] = p.content
       /\ \A d \in Client : d # c => toHost'[d] = toHost[d] /\ copy'[d] = copy[d]
  <2>1. toHost \in [Client -> Flag] /\ copy \in [Client -> Content] /\ "no" \in Flag
    BY <1>2 DEF TypeOK, Flag
  <2>2. QED
    BY <1>1, <1>3, <2>1
<1>13. TypeOK'
  BY <1>1, <1>2, <1>7, <1>11, <1>12 DEF TypeOK
<1>14. \A d \in Client : d # c => Untouched(d) /\ SyncsKept(d)
  BY <1>1, <1>7, <1>11, <1>12 DEF Untouched
<1>15. \A d \in looking' : status'[d] # "new"
  BY <1>1 DEF IInv
<1>16. Tokens(h, s, r)
  BY <1>2, <1>6 DEF Exchange
<1>17. Tokens(FromHost(c), FromServer(c), renewing[c])'
  <2>1. Tokens(nh, ns, r)
    BY <1>4, <1>8, <1>16, TokensMove
  <2>2. QED
    BY <1>7, <2>1
<1>18. Sounds(c)'
  <2>1. p.sync # r /\ \A x \in In(h) \cup In(ns) : x.sync # p.sync
    BY <1>8, <1>16, Distinct
  <2>2. \A x \in In(h) \cup In(ns) : Sound(c, x) => Sound(c, x)'
    BY <1>1, <1>11, <2>1 DEF Sound, Sync
  <2>3. Sound(c, q)'
    BY <1>1, <1>4, <1>10, <1>11 DEF Sound, Sync, Stage
  <2>4. r # Nothing => r \in Sync' /\ asker'[r] = c /\ at'[r] = "asked"
    BY <1>1, <1>2, <1>6, <1>11, <2>1 DEF Exchange, Sounds, Sync
  <2>5. QED
    BY <1>2, <1>4, <1>6, <1>7, <1>9, <2>2, <2>3, <2>4 DEF Exchange, Sounds
<1>19. Flags(c) /\ Untold(c) /\ Copies(c)
  BY <1>2 DEF Exchange
<1>20. Flags(c)'
  <2>1. /\ \A x : Final(ns, Tells, x) => Final(s, Tells, x)
        /\ None(ns, Tells) => Final(s, Tells, p)
        /\ Says(p) = "no"
    BY <1>1, <1>8 DEF Less, Tells, Says
  <2>2. QED
    BY <1>1, <1>6, <1>7, <1>9, <1>12, <1>19, <2>1 DEF Flags
<1>21. Untold(c)'
  <2>1. ~None(s, Tells)
    BY <1>1, <1>9, NoneIn DEF Tells
  <2>2. c \in known'
    BY <1>1, <1>6, <1>19, <2>1 DEF Untold
  <2>3. QED
    BY <2>2 DEF Untold
<1>22. Copies(c)'
  <2>1. (\A x : Final(nh, {"hash"}, x) => x = q) /\ ~None(nh, {"hash"})
    BY <1>4, <1>8 DEF More
  <2>2. QED
    BY <1>4, <1>7, <1>12, <2>1 DEF Copies
<1>23. Exchange(c)'
  BY <1>17, <1>18, <1>20, <1>21, <1>22 DEF Exchange
<1>24. QED
  BY <1>13, <1>14, <1>15, <1>23, OneTouched

LEMMA CompareHolds ==
    ASSUME IInv, NEW c \in Client, NEW p, Compare(c, p)
    PROVE  IInv'
<1>1. PICK v : v = CompareCatalogHash(p.content)
  OBVIOUS
<1>2. /\ UNCHANGED <<disk, catalog, changes, status, asker, at, renewing>>
      /\ UNCHANGED <<known, looking, replaced, toHost, copy, confirmed>>
      /\ p \in Incoming(c, "SERVER") /\ p.kind = "hash"
      /\ toRemote' = [toRemote EXCEPT ![c] = v]
      /\ Answer(c, "SERVER", [Message("answer", p.sync, catalog) EXCEPT !.answer = v])
  BY <1>1 DEF Compare, Recorded, peer, interfaces
<1>3. TypeOK /\ Exchange(c) /\ catalog \in Content
  BY DEF IInv, TypeOK
<1>4. /\ p \in Packet /\ p.sync \in 1..MaxSyncs /\ p.content \in Content
      /\ v \in Flag /\ (v = "yes" => p.content = catalog)
  BY <1>1, <1>2, <1>3, Reading DEF Packet, CompareCatalogHash, Flag
<1>5. PICK q : /\ q \in Packet /\ q.kind = "answer" /\ q.sync = p.sync
               /\ q.content = catalog /\ q.answer = v /\ Answer(c, "SERVER", q)
  <2>1. PICK m : m = Message("answer", p.sync, catalog)
    OBVIOUS
  <2>2. "answer" \in Kind
    BY DEF Kind
  <2>3. m \in Packet /\ m.kind = "answer" /\ m.sync = p.sync /\ m.content = catalog
    BY <1>3, <1>4, <2>1, <2>2, Messages
  <2>4. Answer(c, "SERVER", [m EXCEPT !.answer = v])
    BY <1>2, <2>1
  <2>5. QED
    BY <1>4, <2>3, <2>4, Answers
<1>6. PICK nh, ns : Rewired(c, nh, ns) /\ Less(FromHost(c), p, nh) /\ More(FromServer(c), q, ns)
  BY <1>2, <1>3, <1>5, AfterAnswer
<1>7. PICK h, s, r : h = FromHost(c) /\ s = FromServer(c) /\ r = renewing[c]
  OBVIOUS
<1>8. /\ FromHost(c)' = nh /\ FromServer(c)' = ns /\ renewing'[c] = r
      /\ wire' \in [Client -> [Role -> Seq(Packet)]]
      /\ \A d \in Client : d # c => wire'[d] = wire[d]
  BY <1>2, <1>6, <1>7, WiresNow DEF Now
<1>9. Less(h, p, nh) /\ More(s, q, ns)
  BY <1>6, <1>7
<1>10. In(h) = In(nh) \cup {p} /\ In(ns) = In(s) \cup {q}
  BY <1>9 DEF More, Less
<1>11. /\ toRemote' \in [Client -> Flag] /\ toRemote'[c] = v
       /\ \A d \in Client : d # c => toRemote'[d] = toRemote[d]
  <2>1. toRemote \in [Client -> Flag]
    BY <1>3 DEF TypeOK
  <2>2. QED
    BY <1>2, <1>4, <2>1
<1>12. TypeOK'
  BY <1>2, <1>3, <1>8, <1>11 DEF TypeOK
<1>13. \A d \in Client : d # c => Untouched(d) /\ SyncsKept(d)
  BY <1>2, <1>8, <1>11 DEF Untouched, SyncsKept, Sync
<1>14. \A d \in looking' : status'[d] # "new"
  BY <1>2 DEF IInv
<1>15. Tokens(FromHost(c), FromServer(c), renewing[c])'
  <2>1. Tokens(h, s, r)
    BY <1>3, <1>7 DEF Exchange
  <2>2. Tokens(nh, ns, r)
    BY <1>5, <1>9, <2>1, TokensMove
  <2>3. QED
    BY <1>8, <2>2
<1>16. Sounds(c)'
  <2>1. \A x : Sound(c, x)' <=> Sound(c, x)
    BY <1>2 DEF Sound, Sync
  <2>2. Sound(c, p)
    BY <1>3, <1>7, <1>10 DEF Exchange, Sounds
  <2>3. Sound(c, q)
    BY <1>2, <1>5, <2>2 DEF Sound, Stage
  <2>4. r # Nothing => r \in Sync' /\ asker'[r] = c /\ at'[r] = "asked"
    BY <1>2, <1>3, <1>7 DEF Exchange, Sounds, Sync
  <2>5. QED
    BY <1>3, <1>5, <1>7, <1>8, <1>10, <2>1, <2>3, <2>4 DEF Exchange, Sounds
<1>17. Flags(c) /\ Untold(c) /\ Copies(c)
  BY <1>3 DEF Exchange
<1>18. Flags(c)'
  <2>1. (\A x : Final(ns, Tells, x) => x = q) /\ ~None(ns, Tells) /\ Says(q) = v
    BY <1>5, <1>9 DEF More, Tells, Says
  <2>2. QED
    BY <1>8, <1>11, <2>1 DEF Flags
<1>19. Untold(c)'
  <2>1. ~None(h, {"hash"})
    BY <1>2, <1>10, NoneIn
  <2>2. c \in known'
    BY <1>2, <1>7, <1>17, <2>1 DEF Untold
  <2>3. QED
    BY <2>2 DEF Untold
<1>20. Copies(c)'
  <2>1. /\ \A x : Final(nh, {"hash"}, x) => Final(h, {"hash"}, x)
        /\ None(nh, {"hash"}) => Final(h, {"hash"}, p)
    BY <1>2, <1>9 DEF Less
  <2>2. (\A x : Final(ns, {"answer"}, x) => x = q) /\ ~None(ns, {"answer"})
    BY <1>5, <1>9 DEF More
  <2>3. QED
    BY <1>2, <1>4, <1>5, <1>7, <1>8, <1>10, <1>17, <2>1, <2>2 DEF Copies
<1>21. Exchange(c)'
  BY <1>15, <1>16, <1>18, <1>19, <1>20 DEF Exchange
<1>22. QED
  BY <1>12, <1>13, <1>14, <1>21, OneTouched

LEMMA VerifyHolds ==
    ASSUME IInv, NEW c \in Client, NEW p, Verify(c, p)
    PROVE  IInv'
<1>1. /\ UNCHANGED <<disk, catalog, changes, status, asker, renewing>>
      /\ UNCHANGED <<known, looking, replaced, toRemote, copy>>
      /\ p \in Incoming(c, "HOST") /\ p.kind = "answer"
      /\ toHost' = [toHost EXCEPT ![c] = p.answer]
      /\ confirmed' = [confirmed EXCEPT ![c] = p.content]
      /\ Reach(p.sync, "over") /\ Consume(c, "HOST")
  BY DEF Verify, peer, interfaces
<1>2. TypeOK /\ Exchange(c)
  BY DEF IInv
<1>3. p \in Packet /\ p.sync \in 1..MaxSyncs /\ p.content \in Content /\ p.answer \in Flag
  BY <1>1, <1>2, Reading DEF Packet
<1>4. PICK ns : Rewired(c, FromHost(c), ns) /\ Less(FromServer(c), p, ns)
  BY <1>1, <1>2, AfterConsume
<1>5. PICK h, s, r : h = FromHost(c) /\ s = FromServer(c) /\ r = renewing[c]
  OBVIOUS
<1>6. /\ FromHost(c)' = h /\ FromServer(c)' = ns /\ renewing'[c] = r
      /\ wire' \in [Client -> [Role -> Seq(Packet)]]
      /\ \A d \in Client : d # c => wire'[d] = wire[d]
  BY <1>1, <1>4, <1>5, WiresNow DEF Now
<1>7. Less(s, p, ns)
  BY <1>4, <1>5
<1>8. In(s) = In(ns) \cup {p}
  BY <1>7 DEF Less
<1>9. p.sync \in Sync /\ asker[p.sync] = c
  BY <1>2, <1>5, <1>8 DEF Exchange, Sounds, Sound
<1>10. /\ at' \in Seq({"asked", "prepared", "over", "fault"}) /\ Len(at') = Len(asker')
       /\ \A x \in Sync : x # p.sync => at'[x] = at[x]
       /\ \A d \in Client : d # c => SyncsKept(d)
  BY <1>1, <1>2, <1>9, Reached
<1>11. /\ toHost' \in [Client -> Flag] /\ toHost'[c] = p.answer
       /\ confirmed' \in [Client -> Content] /\ confirmed'[c] = p.content
       /\ \A d \in Client : d # c => toHost'[d] = toHost[d] /\ confirmed'[d] = confirmed[d]
  <2>1. toHost \in [Client -> Flag] /\ confirmed \in [Client -> Content]
    BY <1>2 DEF TypeOK
  <2>2. QED
    BY <1>1, <1>3, <2>1
<1>12. TypeOK'
  BY <1>1, <1>2, <1>6, <1>10, <1>11 DEF TypeOK
<1>13. \A d \in Client : d # c => Untouched(d) /\ SyncsKept(d)
  BY <1>1, <1>6, <1>10, <1>11 DEF Untouched
<1>14. \A d \in looking' : status'[d] # "new"
  BY <1>1 DEF IInv
<1>15. Tokens(h, s, r)
  BY <1>2, <1>5 DEF Exchange
<1>16. Tokens(FromHost(c), FromServer(c), renewing[c])'
  <2>1. Tokens(h, ns, r)
    BY <1>7, <1>15, TokensMove
  <2>2. QED
    BY <1>6, <2>1
<1>17. Sounds(c)'
  <2>1. p.sync # r /\ \A x \in In(h) \cup In(ns) : x.sync # p.sync
    BY <1>7, <1>15, Distinct
  <2>2. \A x \in In(h) \cup In(ns) : Sound(c, x) => Sound(c, x)'
    BY <1>1, <1>10, <2>1 DEF Sound, Sync
  <2>3. r # Nothing => r \in Sync' /\ asker'[r] = c /\ at'[r] = "asked"
    BY <1>1, <1>2, <1>5, <1>10, <2>1 DEF Exchange, Sounds, Sync
  <2>4. QED
    BY <1>2, <1>5, <1>6, <1>8, <2>2, <2>3 DEF Exchange, Sounds
<1>18. Flags(c) /\ Untold(c) /\ Copies(c)
  BY <1>2 DEF Exchange
<1>19. Flags(c)'
  <2>1. /\ \A x : Final(ns, Tells, x) => Final(s, Tells, x)
        /\ None(ns, Tells) => Final(s, Tells, p)
        /\ Says(p) = p.answer
    BY <1>1, <1>7 DEF Less, Tells, Says
  <2>2. QED
    BY <1>1, <1>5, <1>6, <1>8, <1>11, <1>18, <2>1 DEF Flags
<1>20. Untold(c)'
  <2>1. ~None(s, Tells)
    BY <1>1, <1>8, NoneIn DEF Tells
  <2>2. c \in known'
    BY <1>1, <1>5, <1>18, <2>1 DEF Untold
  <2>3. QED
    BY <2>2 DEF Untold
<1>21. Copies(c)'
  <2>1. /\ \A x : Final(ns, {"answer"}, x) => Final(s, {"answer"}, x)
        /\ None(ns, {"answer"}) => Final(s, {"answer"}, p)
    BY <1>1, <1>7 DEF Less
  <2>2. QED
    BY <1>1, <1>5, <1>6, <1>8, <1>11, <1>18, <2>1 DEF Copies
<1>22. Exchange(c)'
  BY <1>16, <1>17, <1>19, <1>20, <1>21 DEF Exchange
<1>23. QED
  BY <1>12, <1>13, <1>14, <1>22, OneTouched

LEMMA FaultHolds ==
    ASSUME IInv, NEW c \in Client, NEW p, Fault(c, p)
    PROVE  IInv'
<1>1. /\ UNCHANGED <<disk, catalog, changes, status, asker, renewing>>
      /\ UNCHANGED <<known, looking, replaced, toRemote, toHost, copy, confirmed>>
      /\ p \in Incoming(c, "HOST") /\ p.kind = "failed"
      /\ Reach(p.sync, "fault") /\ Consume(c, "HOST")
  BY DEF Fault, peer, data, interfaces
<1>2. TypeOK /\ Exchange(c)
  BY DEF IInv
<1>3. PICK ns : Rewired(c, FromHost(c), ns) /\ Less(FromServer(c), p, ns)
  BY <1>1, <1>2, AfterConsume
<1>4. PICK h, s, r : h = FromHost(c) /\ s = FromServer(c) /\ r = renewing[c]
  OBVIOUS
<1>5. /\ FromHost(c)' = h /\ FromServer(c)' = ns /\ renewing'[c] = r
      /\ wire' \in [Client -> [Role -> Seq(Packet)]]
      /\ \A d \in Client : d # c => wire'[d] = wire[d]
  BY <1>1, <1>3, <1>4, WiresNow DEF Now
<1>6. Less(s, p, ns)
  BY <1>3, <1>4
<1>7. In(s) = In(ns) \cup {p}
  BY <1>6 DEF Less
<1>8. p.sync \in Sync /\ asker[p.sync] = c
  BY <1>2, <1>4, <1>7 DEF Exchange, Sounds, Sound
<1>9. /\ at' \in Seq({"asked", "prepared", "over", "fault"}) /\ Len(at') = Len(asker')
      /\ \A x \in Sync : x # p.sync => at'[x] = at[x]
      /\ \A d \in Client : d # c => SyncsKept(d)
  BY <1>1, <1>2, <1>8, Reached
<1>10. TypeOK'
  BY <1>1, <1>2, <1>5, <1>9 DEF TypeOK
<1>11. \A d \in Client : d # c => Untouched(d) /\ SyncsKept(d)
  BY <1>1, <1>5, <1>9 DEF Untouched
<1>12. \A d \in looking' : status'[d] # "new"
  BY <1>1 DEF IInv
<1>13. Tokens(h, s, r)
  BY <1>2, <1>4 DEF Exchange
<1>14. Tokens(FromHost(c), FromServer(c), renewing[c])'
  <2>1. Tokens(h, ns, r)
    BY <1>6, <1>13, TokensMove
  <2>2. QED
    BY <1>5, <2>1
<1>15. Sounds(c)'
  <2>1. p.sync # r /\ \A x \in In(h) \cup In(ns) : x.sync # p.sync
    BY <1>6, <1>13, Distinct
  <2>2. \A x \in In(h) \cup In(ns) : Sound(c, x) => Sound(c, x)'
    BY <1>1, <1>9, <2>1 DEF Sound, Sync
  <2>3. r # Nothing => r \in Sync' /\ asker'[r] = c /\ at'[r] = "asked"
    BY <1>1, <1>2, <1>4, <1>9, <2>1 DEF Exchange, Sounds, Sync
  <2>4. QED
    BY <1>2, <1>4, <1>5, <1>7, <2>2, <2>3 DEF Exchange, Sounds
<1>16. Flags(c) /\ Untold(c) /\ Copies(c)
  BY <1>2 DEF Exchange
<1>17. /\ \A x : Final(ns, Tells, x) => Final(s, Tells, x)
       /\ None(ns, Tells) <=> None(s, Tells)
       /\ \A x : Final(ns, {"answer"}, x) => Final(s, {"answer"}, x)
       /\ None(ns, {"answer"}) <=> None(s, {"answer"})
  BY <1>1, <1>6 DEF Less, Tells
<1>18. Flags(c)'
  BY <1>1, <1>4, <1>5, <1>7, <1>16, <1>17 DEF Flags
<1>19. Untold(c)'
  BY <1>1, <1>4, <1>5, <1>16, <1>17 DEF Untold
<1>20. Copies(c)'
  BY <1>1, <1>4, <1>5, <1>7, <1>16, <1>17 DEF Copies
<1>21. Exchange(c)'
  BY <1>14, <1>15, <1>18, <1>19, <1>20 DEF Exchange
<1>22. QED
  BY <1>10, <1>11, <1>12, <1>21, OneTouched
-----------------------------------------------------------------------------
LEMMA InitHolds ==
    ASSUME Init
    PROVE  IInv
<1>1. PICK e : e = <<>>
  OBVIOUS
<1>2. /\ In(e) = {} /\ Carries(e) = {} /\ OnceEach(e) /\ \A K : None(e, K)
      /\ \A T : e \in Seq(T)
  BY <1>1, Empties, EmptySeq
<1>3. wire = [c \in Client |-> [r \in Role |-> e]]
  BY <1>1 DEF Init
<1>4. wire \in [Client -> [Role -> Seq(Packet)]]
  <2>1. PICK Q : Q = Seq(Packet)
    OBVIOUS
  <2>2. e \in Q
    BY <1>2, <2>1
  <2>3. wire \in [Client -> [Role -> Q]]
    BY <1>3, <2>2
  <2>4. QED
    BY <2>1, <2>3
<1>5. "HOST" \in Role /\ "SERVER" \in Role
  BY DEF Role
<1>6. \A c \in Client : FromHost(c) = e /\ FromServer(c) = e /\ renewing[c] = Nothing
  <2>1. \A c \in Client : wire[c] = [r \in Role |-> e]
    BY <1>3
  <2>2. \A c \in Client : wire[c]["HOST"] = e /\ wire[c]["SERVER"] = e
    BY <1>5, <2>1
  <2>3. \A c \in Client : renewing[c] = Nothing
    BY DEF Init
  <2>4. QED
    BY <2>2, <2>3 DEF FromHost, FromServer
<1>7. asker \in Seq(Client) /\ at \in Seq({"asked", "prepared", "over", "fault"}) /\ Len(at) = Len(asker) /\ Len(asker) = 0
  BY EmptySeq DEF Init
<1>8. TypeOK
  BY <1>4, <1>7, ContentAssumption, BoundsAssumption DEF Init, TypeOK, Flag
<1>9. ASSUME NEW c \in Client PROVE Exchange(c)
  <2>1. FromHost(c) = e /\ FromServer(c) = e /\ renewing[c] = Nothing
    BY <1>6
  <2>2. toRemote[c] = "unset" /\ toHost[c] = "unset" /\ copy[c] = Empty /\ confirmed[c] = Empty
    BY DEF Init
  <2>3. Sounds(c) /\ Tokens(FromHost(c), FromServer(c), renewing[c])
    BY <1>2, <2>1 DEF Sounds, Tokens
  <2>4. Flags(c) /\ Untold(c) /\ Copies(c)
    BY <1>2, <2>1, <2>2 DEF Flags, Untold, Copies
  <2>5. QED
    BY <2>3, <2>4 DEF Exchange
<1>10. looking = {}
  BY DEF Init
<1>11. QED
  BY <1>8, <1>9, <1>10 DEF IInv

LEMMA NextHolds ==
    ASSUME IInv, [Next]_vars
    PROVE  IInv'
<1>1. ASSUME NEW x \in Content, ChangeDisk(x) \/ Share(x) PROVE IInv'
  BY <1>1, ChangeDiskHolds
<1>2. ASSUME NEW c \in Client, ServerUnit(c) PROVE IInv'
  <2>1. CASE TellTopology(c)
    BY <2>1, TellTopologyHolds
  <2>2. CASE \E p \in Incoming(c, "SERVER") : Renew(c, p) \/ Compare(c, p)
    BY <2>2, RenewHolds, CompareHolds
  <2>3. QED
    BY <1>2, <2>1, <2>2 DEF ServerUnit
<1>3. ASSUME NEW c \in Client, HostUnit(c) PROVE IInv'
  BY <1>3, PrepareHolds, VerifyHolds, FaultHolds DEF HostUnit
<1>4. CASE Next
  BY <1>1, <1>2, <1>3, <1>4, AppendClientHolds, ClientOverHolds, LookHolds, MakeDataHolds,
     RequestHolds DEF Next
<1>5. QED
  BY <1>4, StutterHolds
-----------------------------------------------------------------------------
(* At rest nothing is under way: a packet is of a synchronisation that has *)
(* not ended.                                                              *)
LEMMA Quiet ==
    ASSUME IInv, NEW c \in Client, AtRest(c)
    PROVE  /\ None(FromServer(c), Tells) /\ None(FromServer(c), {"answer"})
           /\ None(FromHost(c), {"hash"}) /\ status[c] # "over"
<1>1. Sounds(c)
  BY DEF IInv, Exchange
<1>2. \A p : ~Sound(c, p)
  BY DEF AtRest, Ended, Sound, Stage
<1>3. In(FromServer(c)) = {} /\ In(FromHost(c)) = {}
  BY <1>1, <1>2 DEF Sounds
<1>4. \A s, K : In(s) = {} => None(s, K)
  BY DEF In, None
<1>5. QED
  BY <1>3, <1>4 DEF AtRest

LEMMA Agrees ==
    ASSUME IInv
    PROVE  FlagsAgree /\ VerifiedCopy
<1>1. ASSUME NEW c \in Client \ replaced, AtRest(c) PROVE toRemote[c] = toHost[c]
  BY <1>1, Quiet DEF IInv, Exchange, Flags
<1>2. ASSUME NEW c \in Client, AtRest(c), toHost[c] = "yes" PROVE copy[c] = confirmed[c]
  BY <1>2, Quiet DEF IInv, Exchange, Copies
<1>3. QED
  BY <1>1, <1>2 DEF FlagsAgree, VerifiedCopy

(* The packets of every exchange are those of synchronisations that are    *)
(* under way, each once; what the server has recorded, the host's copy and *)
(* its record are told by the last of them (SyncCatalogs).                 *)
THEOREM Invariant == Spec => []IInv
<1>1. Init => IInv
  BY InitHolds
<1>2. IInv /\ [Next]_vars => IInv'
  BY NextHolds
<1>3. QED
  BY <1>1, <1>2, PTL DEF Spec

(* The catalogs, the interfaces of the module and the packets have their   *)
(* types, and there is data only of clients that were in the client        *)
(* center's list.                                                          *)
THEOREM TypeCorrect == Spec => []TypeOK
<1>1. IInv => TypeOK
  BY DEF IInv
<1>2. QED
  BY <1>1, Invariant, PTL

(* When the synchronisations of a client are over, the server's record of  *)
(* its copy and the host's are the same (iStateHost2Remote and             *)
(* iStateRemote2Host), unless its data was replaced by a late getIf.       *)
THEOREM FlagsAgreed == Spec => []FlagsAgree
<1>1. IInv => FlagsAgree
  BY Agrees
<1>2. QED
  BY <1>1, Invariant, PTL

(* A copy recorded as right when the synchronisations are over is the      *)
(* catalog that compareCatalogHash compared it with.                       *)
THEOREM CopyVerified == Spec => []VerifiedCopy
<1>1. IInv => VerifiedCopy
  BY Agrees
<1>2. QED
  BY <1>1, Invariant, PTL
=============================================================================
