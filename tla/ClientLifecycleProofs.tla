------------------------ MODULE ClientLifecycleProofs ------------------------
(***************************************************************************)
(* Theorems about ClientLifecycle, for every set of clients and of cores.  *)
(***************************************************************************)
EXTENDS ClientLifecycle, SequenceTheorems, TLAPS

NoTwice(s) == \A i, j \in 1..Len(s) : s[i] = s[j] => i = j

(* A unit is where its home is, and there once.                            *)
Homes ==
    \A u \in Unit :
        /\ Contains(pool, u) => home[u] = Nowhere
        /\ \A k \in Core : Contains(units[k], u) => home[u] = k
Once == NoTwice(pool) /\ \A k \in Core : NoTwice(units[k])

(* What a core is in the middle of belongs to the unit it runs.            *)
Making(k)  == pc[k] \in {"put", "append"}
Failing(k) == pc[k] \in {"check", "set", "announce", "kick"}
Roles ==
    \A k \in Core : /\ Making(k) => Running(k) = Center
                    /\ Failing(k) => Running(k) \in Channel

(* Nobody has anything of a connection that was not accepted yet.          *)
Unborn(c) ==
    /\ \A d \in Direction : home[<<c, d>>] = Nowhere /\ ~Contains(pool, <<c, d>>)
    /\ c \notin remotes /\ over[c] = 0 /\ announced[c] = 0
    /\ ~Contains(inEvents, c) /\ ~Contains(outEvents, c)
Absences == \A c \in Client : ~Raised(c) => Unborn(c)

(* A client is between its birth and aRemotes only while a core, the one of *)
(* the client center, makes it; there is one such client at a time, and its *)
(* backward unit is nowhere until it is put in the pool.                    *)
Between(c) == Raised(c) /\ c \notin remotes /\ over[c] = 0
Births ==
    /\ \A c, e \in Client : Between(c) /\ Between(e) => c = e
    /\ (\E c \in Client : Between(c)) <=> (\E k \in Core : Making(k))
    /\ \A k \in Core, c \in Client : pc[k] = "put" /\ Between(c) =>
              home[<<c, "backward">>] = Nowhere /\ ~Contains(pool, <<c, "backward">>)

(* A unit that announced the end of its client is about to leave its core,  *)
(* or has left it: each announces once.                                     *)
Done(u) ==
    /\ home[u] # Nowhere
    /\ \/ ~Contains(units[home[u]], u)
       \/ pc[home[u]] = "kick" /\ Running(home[u]) = u
Share(u) == IF Done(u) THEN 1 ELSE 0
Announcements ==
    /\ \A c \in Client :
          /\ announced[c] <= Share(<<c, "forward">>) + Share(<<c, "backward">>)
          /\ announced[c] > 0 => iState[c] = "DISCONNECTED"
    /\ \A k \in Core : pc[k] = "announce" => iState[Subject(k)] = "DISCONNECTED"
    /\ \A k \in Core :
          pc[k] \in {"set", "announce"} /\ home[Other(Running(k))] = k =>
              announced[Subject(k)] = 0

IInv ==
    /\ TypeOK /\ Homes /\ Once /\ Roles /\ Absences /\ Births
    /\ GoneIsGone /\ Announcements /\ AnnouncedOnce
-----------------------------------------------------------------------------
(* Sequences: what is in them, and that it is there once.                  *)
LEMMA AppendOne ==
    ASSUME NEW S, NEW s \in Seq(S), NEW e \in S
    PROVE  /\ Append(s, e) \in Seq(S)
           /\ Len(Append(s, e)) = Len(s) + 1
           /\ \A x : Contains(Append(s, e), x) <=> Contains(s, x) \/ x = e
           /\ NoTwice(s) /\ ~Contains(s, e) => NoTwice(Append(s, e))
<1>1. /\ Append(s, e) \in Seq(S)
      /\ Len(Append(s, e)) = Len(s) + 1
      /\ \A i \in 1..Len(s) : Append(s, e)[i] = s[i]
      /\ Append(s, e)[Len(s) + 1] = e
      /\ Len(s) \in Nat
  BY AppendProperties, LenProperties
<1>2. \A x : Contains(Append(s, e), x) <=> Contains(s, x) \/ x = e
  BY <1>1 DEF Contains
<1>3. NoTwice(s) /\ ~Contains(s, e) => NoTwice(Append(s, e))
  BY <1>1 DEF Contains, NoTwice
<1>4. QED
  BY <1>1, <1>2, <1>3

LEMMA PartOf ==
    ASSUME NEW S, NEW s \in Seq(S), NEW m \in 1..Len(s) + 1, NEW n \in m - 1..Len(s)
    PROVE  /\ SubSeq(s, m, n) \in Seq(S)
           /\ Len(SubSeq(s, m, n)) = n - m + 1
           /\ \A i \in 1..n - m + 1 : SubSeq(s, m, n)[i] = s[m + i - 1]
<1>1. Len(s) \in Nat /\ m \in Int /\ n \in Int
  BY LenProperties
<1>2. \A i \in m..n : s[i] \in S
  BY <1>1, ElementOfSeq
<1>3. QED
  BY <1>1, <1>2, SubSeqProperties

LEMMA TakeLast ==
    ASSUME NEW S, NEW s \in Seq(S), s # <<>>
    PROVE  /\ Front(s) \in Seq(S) /\ Last(s) \in S /\ Contains(s, Last(s))
           /\ \A x : Contains(s, x) <=> Contains(Front(s), x) \/ x = Last(s)
           /\ NoTwice(s) => NoTwice(Front(s)) /\ ~Contains(Front(s), Last(s))
<1>1. Len(s) \in Nat \ {0} /\ \A i \in 1..Len(s) : s[i] \in S
  BY EmptySeq, LenProperties, ElementOfSeq
<1>2. /\ Front(s) \in Seq(S)
      /\ Len(Front(s)) = Len(s) - 1
      /\ \A i \in 1..Len(s) - 1 : Front(s)[i] = s[i]
  <2>1. 1 \in 1..Len(s) + 1 /\ Len(s) - 1 \in 1 - 1..Len(s)
    BY <1>1
  <2> DEFINE f == SubSeq(s, 1, Len(s) - 1)
             n == Len(s) - 1
  <2>2. /\ f \in Seq(S) /\ Len(f) = n - 1 + 1
        /\ \A i \in 1..n - 1 + 1 : f[i] = s[1 + i - 1]
    BY <2>1, PartOf
  <2> HIDE DEF f
  <2>3. f \in Seq(S) /\ Len(f) = Len(s) - 1 /\ \A i \in 1..Len(s) - 1 : f[i] = s[i]
    BY <1>1, <2>2
  <2>4. QED
    BY <2>3 DEF Front, f
<1>3. Last(s) \in S /\ Contains(s, Last(s))
  BY <1>1 DEF Last, Contains
<1>4. \A x : Contains(s, x) <=> Contains(Front(s), x) \/ x = Last(s)
  BY <1>1, <1>2 DEF Last, Contains
<1>5. NoTwice(s) => NoTwice(Front(s)) /\ ~Contains(Front(s), Last(s))
  BY <1>1, <1>2 DEF Last, Contains, NoTwice
<1>6. QED
  BY <1>2, <1>3, <1>4, <1>5

LEMMA Leaving ==
    ASSUME NEW S, NEW s \in Seq(S), NEW n \in 1..Len(s)
    PROVE  /\ RemoveAt(s, n) \in Seq(S)
           /\ Len(RemoveAt(s, n)) = Len(s) - 1
           /\ \A x : Contains(RemoveAt(s, n), x) => Contains(s, x)
           /\ NoTwice(s) => NoTwice(RemoveAt(s, n)) /\ ~Contains(RemoveAt(s, n), s[n])
<1>1. Len(s) \in Nat /\ \A i \in 1..Len(s) : s[i] \in S
  BY LenProperties, ElementOfSeq
<1> DEFINE a == SubSeq(s, 1, n - 1)
           b == SubSeq(s, n + 1, Len(s))
<1>2. a \in Seq(S) /\ Len(a) = n - 1 /\ \A i \in 1..n - 1 : a[i] = s[i]
  <2>1. \A i \in 1..n - 1 : s[i] \in S
    BY <1>1
  <2>2. QED
    BY <1>1, <2>1, SubSeqProperties
<1>3. b \in Seq(S) /\ Len(b) = Len(s) - n /\ \A i \in 1..Len(s) - n : b[i] = s[n + i]
  <2>1. \A i \in n + 1..Len(s) : s[i] \in S
    BY <1>1
  <2>2. QED
    BY <1>1, <2>1, SubSeqProperties
<1> HIDE DEF a, b
<1>4. /\ a \o b \in Seq(S)
      /\ Len(a \o b) = Len(s) - 1
      /\ \A i \in 1..Len(s) - 1 : (a \o b)[i] = IF i < n THEN s[i] ELSE s[i + 1]
  <2>1. /\ a \o b \in Seq(S)
        /\ Len(a \o b) = Len(a) + Len(b)
        /\ \A i \in 1..Len(a) + Len(b) :
              (a \o b)[i] = IF i <= Len(a) THEN a[i] ELSE b[i - Len(a)]
    BY <1>2, <1>3, ConcatProperties
  <2>2. QED
    BY <1>1, <1>2, <1>3, <2>1
<1>5. RemoveAt(s, n) = a \o b
  BY DEF RemoveAt, a, b
<1> DEFINE r == RemoveAt(s, n)
<1>6. /\ r \in Seq(S) /\ Len(r) = Len(s) - 1
      /\ \A i \in 1..Len(s) - 1 : r[i] = IF i < n THEN s[i] ELSE s[i + 1]
  BY <1>4, <1>5
<1> HIDE DEF r
<1>7. \A x : Contains(r, x) => Contains(s, x)
  BY <1>1, <1>6 DEF Contains
<1>8. NoTwice(s) => NoTwice(r)
  <2> SUFFICES ASSUME NoTwice(s), NEW i \in 1..Len(r), NEW j \in 1..Len(r), r[i] = r[j]
               PROVE  i = j
    BY DEF NoTwice
  <2> DEFINE at(m) == IF m < n THEN m ELSE m + 1
  <2>1. at(i) \in 1..Len(s) /\ at(j) \in 1..Len(s)
    BY <1>1, <1>6
  <2>2. s[at(i)] = s[at(j)]
    BY <1>1, <1>6
  <2>3. at(i) = at(j)
    BY <2>1, <2>2 DEF NoTwice
  <2>4. QED
    BY <1>1, <1>6, <2>3
<1>9. NoTwice(s) => ~Contains(r, s[n])
  <2> SUFFICES ASSUME NoTwice(s), NEW i \in 1..Len(r), r[i] = s[n]
               PROVE  FALSE
    BY DEF Contains
  <2>1. CASE i < n
    BY <1>1, <1>6, <2>1 DEF NoTwice
  <2>2. CASE ~(i < n)
    BY <1>1, <1>6, <2>2 DEF NoTwice
  <2>3. QED
    BY <2>1, <2>2
<1>10. QED
  BY <1>6, <1>7, <1>8, <1>9 DEF r

LEMMA Joining ==
    ASSUME NEW S, NEW s \in Seq(S), NEW t \in Seq(S)
    PROVE  /\ s \o t \in Seq(S)
           /\ \A x : Contains(s \o t, x) <=> Contains(s, x) \/ Contains(t, x)
<1>1. Len(s) \in Nat /\ Len(t) \in Nat
  BY LenProperties
<1>2. /\ s \o t \in Seq(S)
      /\ Len(s \o t) = Len(s) + Len(t)
      /\ \A i \in 1..Len(s) + Len(t) :
            (s \o t)[i] = IF i <= Len(s) THEN s[i] ELSE t[i - Len(s)]
  BY ConcatProperties
<1>3. ASSUME NEW x, Contains(s \o t, x) PROVE Contains(s, x) \/ Contains(t, x)
  <2>1. PICK i \in 1..Len(s) + Len(t) : (s \o t)[i] = x
    BY <1>2, <1>3 DEF Contains
  <2>2. CASE i <= Len(s)
    BY <1>1, <1>2, <2>1, <2>2 DEF Contains
  <2>3. CASE ~(i <= Len(s))
    <3>1. i - Len(s) \in 1..Len(t) /\ t[i - Len(s)] = x
      BY <1>1, <1>2, <2>1, <2>3
    <3>2. QED
      BY <3>1 DEF Contains
  <2>4. QED
    BY <2>2, <2>3
<1>4. ASSUME NEW x, Contains(s, x) PROVE Contains(s \o t, x)
  BY <1>1, <1>2, <1>4 DEF Contains
<1>5. ASSUME NEW x, Contains(t, x) PROVE Contains(s \o t, x)
  <2>1. PICK i \in 1..Len(t) : t[i] = x
    BY <1>5 DEF Contains
  <2>2. i + Len(s) \in 1..Len(s) + Len(t) /\ (s \o t)[i + Len(s)] = x
    BY <1>1, <1>2, <2>1
  <2>3. QED
    BY <1>2, <2>2 DEF Contains
<1>6. QED
  BY <1>2, <1>3, <1>4, <1>5
-----------------------------------------------------------------------------
(* Units and cores.                                                        *)
LEMMA Units ==
    /\ Channel \subseteq Unit /\ Center \in Unit /\ Center \notin Channel
    /\ \A c \in Client, d \in Direction :
          /\ <<c, d>> \in Channel
          /\ <<c, d>>[1] = c /\ <<c, d>>[2] = d
    /\ \A u \in Channel :
          /\ u[1] \in Client /\ u[2] \in Direction /\ u = <<u[1], u[2]>>
          /\ Other(u) \in Channel /\ Other(u)[1] = u[1] /\ Other(u) # u
          /\ \A v \in Channel : v[1] = u[1] => v = u \/ v = Other(u)
    /\ \A u \in Unit : u \in Channel \/ u = Center
<1>1. \A c \in Client, d \in Direction :
          <<c, d>> \in Channel /\ <<c, d>>[1] = c /\ <<c, d>>[2] = d
  BY DEF Channel
<1>2. \A u \in Channel : u[1] \in Client /\ u[2] \in Direction /\ u = <<u[1], u[2]>>
  BY DEF Channel
<1>3. Center \notin Channel
  <2>1. \A u \in Channel : Len(u) = 2
    BY DEF Channel
  <2>2. Len(Center) = 1
    BY DEF Center
  <2>3. QED
    BY <2>1, <2>2
<1>4. \A u \in Channel : /\ Other(u) \in Channel /\ Other(u)[1] = u[1] /\ Other(u) # u
                         /\ \A v \in Channel : v[1] = u[1] => v = u \/ v = Other(u)
  <2> SUFFICES ASSUME NEW u \in Channel
               PROVE  /\ Other(u) \in Channel /\ Other(u)[1] = u[1] /\ Other(u) # u
                      /\ \A v \in Channel : v[1] = u[1] => v = u \/ v = Other(u)
    OBVIOUS
  <2> DEFINE d == IF u[2] = "forward" THEN "backward" ELSE "forward"
  <2>1. Other(u) = <<u[1], d>> /\ d \in Direction /\ d # u[2] /\ u[1] \in Client
    BY <1>2 DEF Other, Direction
  <2>2. \A e \in Direction : e = u[2] \/ e = d
    BY <1>2 DEF Direction
  <2> HIDE DEF d
  <2>3. Other(u) \in Channel /\ Other(u)[1] = u[1] /\ Other(u)[2] = d
    BY <2>1, <1>1
  <2>4. Other(u) # u
    BY <2>1, <2>3
  <2>5. ASSUME NEW v \in Channel, v[1] = u[1] PROVE v = u \/ v = Other(u)
    <3>1. v = <<v[1], v[2]>> /\ v[2] \in Direction
      BY <1>2
    <3>2. v[2] = u[2] \/ v[2] = d
      BY <3>1, <2>2
    <3>3. QED
      BY <3>1, <3>2, <2>1, <2>5, <1>2
  <2>6. QED
    BY <2>3, <2>4, <2>5
<1>5. QED
  BY <1>1, <1>2, <1>3, <1>4 DEF Unit

(* The unit a core runs is on that core.                                   *)
LEMMA RunsItsOwn ==
    ASSUME IInv, NEW k \in Core, pc[k] # "accept"
    PROVE  /\ Running(k) \in Unit /\ Contains(units[k], Running(k))
           /\ home[Running(k)] = k /\ pos[k] \in 1..Len(units[k])
<1>1. pos[k] \in 1..Len(units[k]) /\ units[k] \in Seq(Unit)
  BY DEF IInv, TypeOK
<1>2. Running(k) \in Unit
  BY <1>1, ElementOfSeq DEF Running
<1>3. Contains(units[k], Running(k))
  BY <1>1 DEF Running, Contains
<1>4. QED
  BY <1>1, <1>2, <1>3 DEF IInv, Homes

(* A core in the middle of a unit's step is the only one.                  *)
LEMMA OneMaker ==
    ASSUME IInv, NEW k \in Core, NEW l \in Core,
           pc[k] # "accept", pc[l] # "accept", Running(k) = Running(l)
    PROVE  k = l
BY RunsItsOwn

(* What Continue leaves behind.                                            *)
LEMMA Continued ==
    ASSUME TypeOK, NEW k \in Core, NEW us \in Seq(Unit), NEW n \in Nat \ {0},
           Continue(k, us, n)
    PROVE  /\ units' \in [Core -> Seq(Unit)] /\ units'[k] = us
           /\ pos' \in [Core -> Nat] /\ pos'[k] = n
           /\ pc'[k] \in {"accept", "visit"}
           /\ pc' \in [Core -> {"accept", "visit", "check", "set", "announce", "kick",
                                "put", "append"}]
           /\ \A l \in Core : l # k =>
                 units'[l] = units[l] /\ pos'[l] = pos[l] /\ pc'[l] = pc[l]
           /\ \A l \in Core : pc'[l] # "accept" => pos'[l] \in 1..Len(units'[l])
<1>1. /\ units' = [units EXCEPT ![k] = us]
      /\ pos' = [pos EXCEPT ![k] = n]
      /\ pc' = [pc EXCEPT ![k] = IF n > Len(us) THEN "accept" ELSE "visit"]
  BY DEF Continue, Goto
<1>2. Len(us) \in Nat
  BY LenProperties
<1>3. QED
  BY <1>1, <1>2 DEF TypeOK

(* What Goto leaves behind.                                                *)
LEMMA Gone ==
    ASSUME TypeOK, NEW k \in Core, NEW label, Goto(k, label)
    PROVE  pc'[k] = label /\ \A l \in Core : l # k => pc'[l] = pc[l]
BY DEF TypeOK, Goto

(* Who has announced never has not; so the count of a client whose end is   *)
(* not announced in this step stays within the shares of its units.        *)
LEMMA SharesGrow ==
    ASSUME IInv, NEW c \in Client, announced'[c] = announced[c],
           \A u \in Channel : Done(u) => Done(u)'
    PROVE  announced'[c] <= Share(<<c, "forward">>)' + Share(<<c, "backward">>)'
<1>1. <<c, "forward">> \in Channel /\ <<c, "backward">> \in Channel
  BY Units DEF Direction
<1>2. announced[c] <= Share(<<c, "forward">>) + Share(<<c, "backward">>)
  BY DEF IInv, Announcements
<1>3. announced[c] \in Nat
  <2>1. announced \in [Client -> 0..2]
    BY DEF IInv, TypeOK
  <2>2. QED
    BY <2>1
<1>4. ASSUME NEW u \in Channel
      PROVE  Share(u) \in 0..1 /\ Share(u)' \in 0..1 /\ Share(u) <= Share(u)'
  <2>1. Done(u) => Done(u)'
    OBVIOUS
  <2>2. Share(u) = (IF Done(u) THEN 1 ELSE 0) /\ Share(u)' = (IF Done(u)' THEN 1 ELSE 0)
    BY DEF Share
  <2>3. QED
    BY <2>1, <2>2
<1> DEFINE f == Share(<<c, "forward">>)
           b == Share(<<c, "backward">>)
<1>5. f \in 0..1 /\ f' \in 0..1 /\ f <= f'
  BY <1>1, <1>4
<1>6. b \in 0..1 /\ b' \in 0..1 /\ b <= b'
  BY <1>1, <1>4
<1>7. announced[c] <= f + b
  BY <1>2
<1> HIDE DEF f, b
<1>8. announced'[c] <= f' + b'
  BY <1>3, <1>5, <1>6, <1>7
<1>9. QED
  BY <1>8 DEF f, b
-----------------------------------------------------------------------------
(* The initial state.                                                      *)
LEMMA InitIInv == Init => IInv
<1> SUFFICES ASSUME Init PROVE IInv
  OBVIOUS
<1>1. /\ <<Center>> \in Seq(Unit) /\ Len(<<Center>>) = 1 /\ <<Center>>[1] = Center
      /\ \A u : Contains(<<Center>>, u) <=> u = Center
  <2>1. Center \in Unit
    BY Units
  <2>2. /\ <<Center>> \in Seq(Unit) /\ Len(<<Center>>) = 1 /\ <<Center>>[1] = Center
    BY <2>1
  <2>3. QED
    BY <2>2 DEF Contains
<1> USE DEF Init
<1>2. \A u : ~Contains(<<>>, u)
  BY DEF Contains
<1>3. TypeOK
  <2>1. pool \in Seq(Unit)
    BY <1>1
  <2>2. units \in [Core -> Seq(Unit)] /\ inEvents \in Seq(Client) /\ outEvents \in Seq(Client)
    BY EmptySeq
  <2>3. /\ pos \in [Core -> Nat]
        /\ pc \in [Core -> {"accept", "visit", "check", "set", "announce", "kick", "put",
                            "append"}]
        /\ \A k \in Core : pc[k] = "accept"
    OBVIOUS
  <2>4. home \in [Unit -> Core \cup {Nowhere}]
    OBVIOUS
  <2>5. /\ blocked \subseteq Unit \cup {Plug(u) : u \in Unit}
        /\ iState \in [Client -> {"ABSENT", "RAW", "DISCONNECTED"}]
        /\ remotes \subseteq Client
        /\ drained \in BOOLEAN /\ crashed \in BOOLEAN
    OBVIOUS
  <2>6. announced \in [Client -> 0..2] /\ over \in [Client -> Nat]
    OBVIOUS
  <2>7. QED
    BY ONLY <2>1, <2>2, <2>3, <2>4, <2>5, <2>6 DEF TypeOK
<1>4. Homes
  BY <1>1, <1>2 DEF Homes
<1>5. Once
  BY <1>1 DEF Once, NoTwice
<1>6. Roles /\ Absences
  <2>1. ASSUME NEW c \in Client, NEW d \in Direction
        PROVE  <<c, d>> \in Unit /\ <<c, d>> # Center
    <3>1. <<c, d>> \in Channel
      BY Units
    <3>2. QED
      BY <3>1, Units, Zenon
  <2>2. QED
    BY <1>1, <1>2, <2>1 DEF Roles, Making, Failing, Absences, Unborn
<1>7. Births
  BY DEF Births, Between, Raised, Making
<1>8. GoneIsGone
  BY DEF GoneIsGone
<1>9. Announcements /\ AnnouncedOnce
  <2>1. \A u : Share(u) \in 0..1
    BY DEF Share
  <2>2. QED
    BY <2>1 DEF Announcements, AnnouncedOnce
<1>10. QED
  BY <1>3, <1>4, <1>5, <1>6, <1>7, <1>8, <1>9 DEF IInv
-----------------------------------------------------------------------------
(* What a step leaves alone.                                               *)
OthersRest(k) ==
    \A l \in Core : l # k => units'[l] = units[l] /\ pos'[l] = pos[l] /\ pc'[l] = pc[l]
NoneMoves == pool' = pool /\ home' = home /\ \A l \in Core : units'[l] = units[l]

LEMMA OthersRun ==
    ASSUME NEW k \in Core, OthersRest(k), NEW l \in Core, l # k
    PROVE  /\ Running(l)' = Running(l) /\ Subject(l)' = Subject(l)
           /\ pc'[l] = pc[l] /\ pos'[l] = pos[l] /\ units'[l] = units[l]
           /\ Making(l)' = Making(l) /\ Failing(l)' = Failing(l)
BY DEF OthersRest, Running, Subject, Making, Failing

LEMMA RestHomes ==
    ASSUME IInv, NoneMoves
    PROVE  Homes' /\ Once'
BY DEF IInv, Homes, Once, NoneMoves

LEMMA RestRoles ==
    ASSUME IInv, NEW k \in Core, OthersRest(k),
           Making(k)' => Running(k)' = Center,
           Failing(k)' => Running(k)' \in Channel
    PROVE  Roles'
<1>1. Roles
  BY DEF IInv
<1> SUFFICES ASSUME NEW l \in Core
             PROVE  /\ Making(l)' => Running(l)' = Center
                    /\ Failing(l)' => Running(l)' \in Channel
  BY DEF Roles, Channel
<1>2. CASE l = k
  BY <1>2
<1>3. CASE l # k
  <2>1. Running(l)' = Running(l) /\ Making(l)' = Making(l) /\ Failing(l)' = Failing(l)
    BY <1>3, OthersRun
  <2>2. QED
    BY <1>1, <2>1 DEF Roles
<1>4. QED
  BY <1>2, <1>3

(* A unit that is done stays done, where the step is not its kick.         *)
LEMMA RestDone ==
    ASSUME IInv, NEW k \in Core, OthersRest(k), NoneMoves, pc[k] # "kick",
           NEW u \in Channel, Done(u)
    PROVE  Done(u)'
<1>1. home \in [Unit -> Core \cup {Nowhere}]
  BY DEF IInv, TypeOK
<1>2. PICK h \in Core : h = home[u] /\ h # Nowhere
  BY <1>1, Units, CoreAssumption DEF Done
<1>3. home'[u] = h /\ units'[h] = units[h]
  BY <1>2 DEF NoneMoves
<1>4. CASE ~Contains(units[h], u)
  BY <1>2, <1>3, <1>4 DEF Done
<1>5. CASE pc[h] = "kick" /\ Running(h) = u
  <2>1. Running(h)' = Running(h) /\ pc'[h] = pc[h]
    BY <1>5, OthersRun
  <2>2. QED
    BY <1>2, <1>3, <1>5, <2>1 DEF Done
<1>6. QED
  BY <1>2, <1>4, <1>5 DEF Done

(* The clients are as they were: nobody is born, removed or announced.     *)
ClientsRest == UNCHANGED shared

LEMMA RestClients ==
    ASSUME IInv, ClientsRest
    PROVE  /\ GoneIsGone'
           /\ \A c \in Client : Raised(c)' = Raised(c) /\ Between(c)' = Between(c)
           /\ pool' = pool /\ home' = home => Absences'
<1>1. GoneIsGone'
  BY DEF IInv, GoneIsGone, ClientsRest, shared
<1>2. \A c \in Client : Raised(c)' = Raised(c) /\ Between(c)' = Between(c)
  BY DEF Raised, Between, ClientsRest, shared
<1>3. pool' = pool /\ home' = home => Absences'
  BY <1>2 DEF IInv, Absences, Unborn, ClientsRest, shared
<1>4. QED
  BY <1>1, <1>2, <1>3

(* Births is about who is Between and who is Making: where neither changes *)
(* and no unit moves, it stays.                                            *)
LEMMA RestBirths ==
    ASSUME IInv, NEW k \in Core, OthersRest(k), ~Making(k), ~Making(k)',
           \A c \in Client : Between(c)' = Between(c),
           pool' = pool, home' = home
    PROVE  Births'
<1>1. Births
  BY DEF IInv
<1>2. \A l \in Core : Making(l)' <=> Making(l)
  <2>1. \A l \in Core : l # k => (Making(l)' <=> Making(l))
    BY OthersRun
  <2>2. QED
    BY <2>1
<1>3. \A l \in Core : pc'[l] = "put" => pc[l] = "put"
  BY OthersRun DEF Making
<1>4. \A c, e \in Client : Between(c)' /\ Between(e)' => c = e
  BY <1>1 DEF Births
<1>5. (\E c \in Client : Between(c)') <=> (\E l \in Core : Making(l)')
  BY <1>1, <1>2 DEF Births
<1>6. \A l \in Core, c \in Client : pc'[l] = "put" /\ Between(c)' =>
            home'[<<c, "backward">>] = Nowhere /\ ~Contains(pool', <<c, "backward">>)
  BY <1>1, <1>3 DEF Births
<1>7. QED
  BY <1>4, <1>5, <1>6 DEF Births

(* The counts of the clients, where nothing is announced.                  *)
LEMMA RestCounts ==
    ASSUME IInv, NEW k \in Core, OthersRest(k),
           announced' = announced,
           \A u \in Channel : Done(u) => Done(u)',
           \A c \in Client : iState[c] = "DISCONNECTED" => iState'[c] = "DISCONNECTED",
           \A l \in Core, u \in Channel : l # k => (home'[u] = l <=> home[u] = l),
           pc'[k] = "announce" => iState'[Subject(k)'] = "DISCONNECTED",
           pc'[k] \in {"set", "announce"} /\ home'[Other(Running(k)')] = k =>
               announced[Subject(k)'] = 0
    PROVE  Announcements'
<1>1. Announcements /\ Roles
  BY DEF IInv
<1>2. ASSUME NEW c \in Client
      PROVE  /\ announced'[c] <= Share(<<c, "forward">>)' + Share(<<c, "backward">>)'
             /\ announced'[c] > 0 => iState'[c] = "DISCONNECTED"
  <2>1. announced'[c] = announced[c]
    OBVIOUS
  <2>2. announced'[c] <= Share(<<c, "forward">>)' + Share(<<c, "backward">>)'
    BY <2>1, SharesGrow
  <2>3. announced[c] > 0 => iState[c] = "DISCONNECTED"
    BY <1>1 DEF Announcements
  <2>4. QED
    BY <2>1, <2>2, <2>3
<1>3. ASSUME NEW l \in Core, pc'[l] = "announce"
      PROVE  iState'[Subject(l)'] = "DISCONNECTED"
  <2>1. CASE l = k
    BY <1>3, <2>1
  <2>2. CASE l # k
    <3>1. pc[l] = "announce" /\ Subject(l)' = Subject(l)
      BY <1>3, <2>2, OthersRun
    <3>2. iState[Subject(l)] = "DISCONNECTED" /\ Running(l) \in Channel
      BY <1>1, <3>1 DEF Announcements, Roles, Failing
    <3>3. Subject(l) \in Client
      BY <3>2, Units DEF Subject
    <3>4. QED
      BY <3>1, <3>2, <3>3
  <2>3. QED
    BY <2>1, <2>2
<1>4. ASSUME NEW l \in Core, pc'[l] \in {"set", "announce"},
             home'[Other(Running(l)')] = l
      PROVE  announced'[Subject(l)'] = 0
  <2>1. CASE l = k
    BY <1>4, <2>1
  <2>2. CASE l # k
    <3>1. /\ pc[l] \in {"set", "announce"} /\ Subject(l)' = Subject(l)
          /\ Running(l)' = Running(l)
      BY <1>4, <2>2, OthersRun
    <3>2. Running(l) \in Channel
      BY <1>1, <3>1 DEF Roles, Failing
    <3>3. Other(Running(l)) \in Channel
      BY <3>2, Units
    <3>4. home[Other(Running(l))] = l
      BY <1>4, <2>2, <3>1, <3>3
    <3>5. QED
      BY <1>1, <3>1, <3>4 DEF Announcements
  <2>3. QED
    BY <2>1, <2>2
<1>5. QED
  BY <1>2, <1>3, <1>4 DEF Announcements, Other
-----------------------------------------------------------------------------
(* The steps of a core: one lemma for each.                                *)
PcLabels == {"accept", "visit", "check", "set", "announce", "kick", "put", "append"}

(* Goto moves no unit.                                                     *)
LEMMA GotoRests ==
    ASSUME TypeOK, NEW k \in Core, NEW label \in PcLabels, Goto(k, label),
           UNCHANGED <<units, pos>>
    PROVE  /\ OthersRest(k) /\ pc'[k] = label /\ pc' \in [Core -> PcLabels]
           /\ Running(k)' = Running(k) /\ Subject(k)' = Subject(k)
           /\ pc[k] # "accept" =>
                 \A l \in Core : pc'[l] # "accept" => pos'[l] \in 1..Len(units'[l])
<1>1. pc' = [pc EXCEPT ![k] = label] /\ pc \in [Core -> PcLabels]
  BY DEF TypeOK, Goto, PcLabels
<1>2. \A l \in Core : pc[l] # "accept" => pos[l] \in 1..Len(units[l])
  BY DEF TypeOK
<1>3. QED
  BY <1>1, <1>2 DEF OthersRest, Running, Subject

(* A unit of a channel worked.                                             *)
LEMMA WorksIInv == ASSUME IInv, NEW k \in Core, Works(k) PROVE IInv'
<1>1. TypeOK /\ pc[k] = "visit"
  BY DEF IInv, Works, Visiting
<1>2. pos[k] \in 1..Len(units[k]) /\ units[k] \in Seq(Unit) /\ pos[k] + 1 \in Nat \ {0}
  BY <1>1 DEF TypeOK
<1>3. Continue(k, units[k], pos[k] + 1) /\ UNCHANGED <<pool, home, blocked, shared>>
  BY DEF Works
<1>4. crashed' \in BOOLEAN
  BY DEF Works, Destroyed
<1>5. /\ units' \in [Core -> Seq(Unit)] /\ units'[k] = units[k]
      /\ pos' \in [Core -> Nat]
      /\ pc'[k] \in {"accept", "visit"} /\ pc' \in [Core -> PcLabels]
      /\ OthersRest(k)
      /\ \A l \in Core : pc'[l] # "accept" => pos'[l] \in 1..Len(units'[l])
  BY <1>1, <1>2, <1>3, Continued DEF OthersRest, PcLabels
<1>6. NoneMoves /\ ClientsRest
  BY <1>3, <1>5 DEF NoneMoves, OthersRest, ClientsRest
<1>7. TypeOK'
  BY <1>1, <1>3, <1>4, <1>5 DEF TypeOK, shared, PcLabels
<1>8. Homes' /\ Once'
  BY <1>6, RestHomes
<1>9. ~Making(k) /\ ~Making(k)' /\ ~Failing(k)'
  BY <1>1, <1>5 DEF Making, Failing
<1>10. Roles'
  BY <1>5, <1>9, RestRoles
<1>11. Absences' /\ GoneIsGone' /\ \A c \in Client : Between(c)' = Between(c)
  BY <1>6, RestClients DEF NoneMoves
<1>12. Births'
  BY <1>5, <1>6, <1>9, <1>11, RestBirths DEF NoneMoves
<1>13. \A u \in Channel : Done(u) => Done(u)'
  BY <1>1, <1>5, <1>6, RestDone
<1>14. Announcements'
  BY <1>3, <1>5, <1>13, RestCounts DEF shared
<1>15. AnnouncedOnce'
  BY <1>3 DEF IInv, AnnouncedOnce, shared
<1>16. QED
  BY <1>7, <1>8, <1>10, <1>11, <1>12, <1>14, <1>15 DEF IInv

(* A unit failed and blocks its mirror.                                    *)
LEMMA FailsIInv == ASSUME IInv, NEW k \in Core, Fails(k) PROVE IInv'
<1>1. PICK u \in Channel : /\ pc[k] = "visit" /\ Running(k) = u
                           /\ blocked' = blocked \cup {Plug(u)}
                           /\ crashed' \in BOOLEAN
  BY DEF Fails, Visiting, Mirror, Destroyed
<1>2. TypeOK /\ Goto(k, "check") /\ UNCHANGED <<cores, shared>>
  BY DEF IInv, Fails
<1>3. /\ OthersRest(k) /\ pc'[k] = "check" /\ pc' \in [Core -> PcLabels]
      /\ Running(k)' = Running(k) /\ Subject(k)' = Subject(k)
      /\ \A l \in Core : pc'[l] # "accept" => pos'[l] \in 1..Len(units'[l])
  BY <1>1, <1>2, GotoRests DEF cores, PcLabels
<1>4. NoneMoves /\ ClientsRest
  BY <1>2, <1>3 DEF NoneMoves, ClientsRest, cores
<1>5. TypeOK'
  <2>1. blocked' \subseteq Unit \cup {Plug(v) : v \in Unit}
    BY <1>1, <1>2, Units DEF TypeOK
  <2>2. QED
    BY <1>1, <1>2, <1>3, <2>1 DEF TypeOK, shared, cores, PcLabels
<1>6. Homes' /\ Once'
  BY <1>4, RestHomes
<1>7. ~Making(k) /\ ~Making(k)' /\ Running(k)' \in Channel
  BY <1>1, <1>3 DEF Making
<1>8. Roles'
  BY <1>3, <1>7, RestRoles
<1>9. Absences' /\ GoneIsGone' /\ \A c \in Client : Between(c)' = Between(c)
  BY <1>4, RestClients DEF NoneMoves
<1>10. Births'
  BY <1>3, <1>4, <1>7, <1>9, RestBirths DEF NoneMoves
<1>11. \A v \in Channel : Done(v) => Done(v)'
  BY <1>1, <1>3, <1>4, RestDone
<1>12. Announcements'
  BY <1>2, <1>3, <1>11, RestCounts DEF shared, cores
<1>13. AnnouncedOnce'
  BY <1>2 DEF IInv, AnnouncedOnce, shared, cores
<1>14. QED
  BY <1>5, <1>6, <1>8, <1>9, <1>10, <1>12, <1>13 DEF IInv

(* A client that is not disconnected yet was not announced yet.            *)
LEMMA CheckIInv == ASSUME IInv, NEW k \in Core, Check(k) PROVE IInv'
<1> DEFINE next == IF iState[Subject(k)] = "DISCONNECTED" THEN "kick" ELSE "set"
<1>1. TypeOK /\ pc[k] = "check" /\ Goto(k, next) /\ next \in PcLabels
  BY DEF IInv, Check, PcLabels
<1>2. UNCHANGED <<cores, blocked, shared, crashed>>
  BY DEF Check
<1>3. Running(k) \in Channel /\ Subject(k) \in Client
  <2>1. Running(k) \in Channel
    BY <1>1 DEF IInv, Roles, Failing
  <2>2. QED
    BY <2>1, Units DEF Subject
<1>4. /\ OthersRest(k) /\ pc'[k] = next /\ pc' \in [Core -> PcLabels]
      /\ Running(k)' = Running(k) /\ Subject(k)' = Subject(k)
      /\ \A l \in Core : pc'[l] # "accept" => pos'[l] \in 1..Len(units'[l])
  BY <1>1, <1>2, GotoRests DEF cores
<1>5. NoneMoves /\ ClientsRest
  BY <1>2, <1>4 DEF NoneMoves, ClientsRest, cores
<1>6. TypeOK'
  BY <1>1, <1>2, <1>4 DEF TypeOK, shared, cores, PcLabels
<1>7. Homes' /\ Once'
  BY <1>5, RestHomes
<1>8. ~Making(k) /\ ~Making(k)' /\ Running(k)' \in Channel
  BY <1>1, <1>3, <1>4 DEF Making
<1>9. Roles'
  BY <1>4, <1>8, RestRoles
<1>10. Absences' /\ GoneIsGone' /\ \A c \in Client : Between(c)' = Between(c)
  BY <1>5, RestClients DEF NoneMoves
<1>11. Births'
  BY <1>4, <1>5, <1>8, <1>10, RestBirths DEF NoneMoves
<1>12. \A u \in Channel : Done(u) => Done(u)'
  BY <1>1, <1>4, <1>5, RestDone
<1>13. pc'[k] = "set" => announced[Subject(k)'] = 0
  <2>1. announced[Subject(k)] > 0 => iState[Subject(k)] = "DISCONNECTED"
    BY <1>3 DEF IInv, Announcements
  <2>2. announced[Subject(k)] \in 0..2
    BY <1>1, <1>3 DEF TypeOK
  <2>3. QED
    BY <1>4, <2>1, <2>2
<1>14. Announcements'
  <2>1. pc'[k] # "announce"
    BY <1>4
  <2>2. QED
    BY <1>2, <1>4, <1>12, <1>13, <2>1, RestCounts DEF shared, cores
<1>15. AnnouncedOnce'
  BY <1>2 DEF IInv, AnnouncedOnce, shared, cores
<1>16. QED
  BY <1>6, <1>7, <1>9, <1>10, <1>11, <1>14, <1>15 DEF IInv

(* A unit whose core takes it further is a unit of a client that was made. *)
LEMMA RunsRaised ==
    ASSUME IInv, NEW k \in Core, pc[k] # "accept", Running(k) \in Channel
    PROVE  Subject(k) \in Client /\ Raised(Subject(k))
<1>1. PICK c \in Client, d \in Direction : Running(k) = <<c, d>> /\ Subject(k) = c
  BY Units DEF Subject
<1>2. home[<<c, d>>] = k
  BY <1>1, RunsItsOwn
<1>3. Raised(c)
  BY <1>1, <1>2, CoreAssumption DEF IInv, Absences, Unborn
<1>4. QED
  BY <1>1, <1>3

LEMMA SetStateIInv == ASSUME IInv, NEW k \in Core, SetState(k) PROVE IInv'
<1>1. TypeOK /\ pc[k] = "set" /\ Goto(k, "announce") /\ "announce" \in PcLabels
  BY DEF IInv, SetState, PcLabels
<1>2. /\ UNCHANGED <<cores, blocked, crashed, remotes, inEvents, outEvents, drained,
                     announced, over>>
      /\ iState' = [iState EXCEPT ![Subject(k)] = "DISCONNECTED"]
  BY DEF SetState
<1>3. Running(k) \in Channel /\ Subject(k) \in Client /\ Raised(Subject(k))
  BY <1>1, RunsRaised DEF IInv, Roles, Failing
<1>4. /\ OthersRest(k) /\ pc'[k] = "announce" /\ pc' \in [Core -> PcLabels]
      /\ Running(k)' = Running(k) /\ Subject(k)' = Subject(k)
      /\ \A l \in Core : pc'[l] # "accept" => pos'[l] \in 1..Len(units'[l])
  BY <1>1, <1>2, GotoRests DEF cores
<1>5. NoneMoves
  BY <1>2, <1>4 DEF NoneMoves, cores
<1>6. /\ iState \in [Client -> {"ABSENT", "RAW", "DISCONNECTED"}]
      /\ iState' \in [Client -> {"ABSENT", "RAW", "DISCONNECTED"}]
      /\ iState'[Subject(k)] = "DISCONNECTED"
      /\ \A c \in Client : c # Subject(k) => iState'[c] = iState[c]
  BY <1>1, <1>2, <1>3 DEF TypeOK
<1>7. TypeOK'
  BY <1>1, <1>2, <1>4, <1>6 DEF TypeOK, cores, PcLabels
<1>8. Homes' /\ Once'
  BY <1>5, RestHomes
<1>9. ~Making(k) /\ ~Making(k)' /\ Running(k)' \in Channel
  BY <1>1, <1>3, <1>4 DEF Making
<1>10. Roles'
  BY <1>4, <1>9, RestRoles
<1>11. \A c \in Client : Raised(c)' <=> Raised(c)
  BY <1>3, <1>6 DEF Raised
<1>12. Absences'
  BY <1>2, <1>11 DEF IInv, Absences, Unborn, cores
<1>13. \A c \in Client : Between(c)' = Between(c)
  BY <1>2, <1>11 DEF Between
<1>14. Births'
  BY <1>4, <1>5, <1>9, <1>13, RestBirths DEF NoneMoves
<1>15. \A u \in Channel : Done(u) => Done(u)'
  BY <1>1, <1>4, <1>5, RestDone
<1>16. GoneIsGone' /\ AnnouncedOnce'
  BY <1>2 DEF IInv, GoneIsGone, AnnouncedOnce, cores
<1>17. Announcements'
  <2>1. home'[Other(Running(k)')] = k => announced[Subject(k)'] = 0
    BY <1>1, <1>4, <1>5 DEF IInv, Announcements, NoneMoves
  <2>2. \A c \in Client : iState[c] = "DISCONNECTED" => iState'[c] = "DISCONNECTED"
    BY <1>6
  <2>3. announced' = announced /\ iState'[Subject(k)'] = "DISCONNECTED"
    BY <1>2, <1>4, <1>6
  <2>4. QED
    BY <1>4, <1>5, <1>15, <2>1, <2>2, <2>3, RestCounts DEF NoneMoves
<1>18. QED
  BY <1>7, <1>8, <1>10, <1>12, <1>14, <1>16, <1>17 DEF IInv

(* The event is generated: the unit that failed is done from now on.       *)
LEMMA GenerateEventIInv == ASSUME IInv, NEW k \in Core, GenerateEvent(k) PROVE IInv'
<1> DEFINE w == Running(k)
           s == Subject(k)
<1>1. TypeOK /\ pc[k] = "announce" /\ Goto(k, "kick") /\ "kick" \in PcLabels
  BY DEF IInv, GenerateEvent, PcLabels
<1>2. /\ UNCHANGED <<cores, blocked, crashed, iState, remotes, outEvents, drained, over>>
      /\ inEvents' = Append(inEvents, s)
      /\ announced' = [announced EXCEPT ![s] = @ + 1]
  BY DEF GenerateEvent
<1>3. w \in Channel /\ s \in Client /\ Raised(s) /\ w[1] = s
  BY <1>1, RunsRaised DEF IInv, Roles, Failing, Subject
<1>4. /\ OthersRest(k) /\ pc'[k] = "kick" /\ pc' \in [Core -> PcLabels]
      /\ Running(k)' = w /\ Subject(k)' = s
      /\ \A l \in Core : pc'[l] # "accept" => pos'[l] \in 1..Len(units'[l])
  BY <1>1, <1>2, GotoRests DEF cores
<1>5. NoneMoves
  BY <1>2, <1>4 DEF NoneMoves, cores
<1>6. Homes' /\ Once'
  BY <1>5, RestHomes
<1>7. ~Making(k) /\ ~Making(k)' /\ Running(k)' \in Channel
  BY <1>1, <1>3, <1>4 DEF Making
<1>8. Roles'
  BY <1>4, <1>7, RestRoles
<1>9. \A c \in Client : Raised(c)' = Raised(c) /\ Between(c)' = Between(c)
  BY <1>2 DEF Raised, Between
<1>10. /\ announced \in [Client -> 0..2] /\ s \in Client
       /\ announced'[s] = announced[s] + 1 /\ DOMAIN announced' = Client
       /\ announced' = [c \in Client |-> announced'[c]]
       /\ \A c \in Client : c # s => announced'[c] = announced[c]
  BY <1>1, <1>2, <1>3 DEF TypeOK
<1>11. /\ inEvents' \in Seq(Client)
       /\ \A x : Contains(inEvents', x) <=> Contains(inEvents, x) \/ x = s
  BY <1>1, <1>2, <1>3, AppendOne DEF TypeOK
<1>12. Absences'
  BY <1>2, <1>3, <1>9, <1>10, <1>11 DEF IInv, Absences, Unborn, cores
<1>13. Births'
  BY <1>4, <1>5, <1>7, <1>9, RestBirths DEF NoneMoves
<1>14. GoneIsGone'
  BY <1>2 DEF IInv, GoneIsGone
<1>15. \A u \in Channel : Done(u) => Done(u)'
  BY <1>1, <1>4, <1>5, RestDone
<1>16. ASSUME NEW v \in Channel, v = w PROVE ~Done(v) /\ Done(v)'
  <2>1. home[w] = k /\ Contains(units[k], w) /\ k # Nowhere
    BY <1>1, RunsItsOwn, CoreAssumption
  <2>2. home'[w] = k
    BY <2>1, <1>5 DEF NoneMoves
  <2>3. QED
    BY <1>1, <1>4, <1>16, <2>1, <2>2 DEF Done
<1>17. \A c \in Client :
          announced'[c] <= Share(<<c, "forward">>)' + Share(<<c, "backward">>)'
  <2> SUFFICES ASSUME NEW c \in Client
               PROVE  announced'[c] <= Share(<<c, "forward">>)' + Share(<<c, "backward">>)'
    OBVIOUS
  <2>1. CASE c # s
    BY <2>1, <1>10, <1>15, SharesGrow
  <2>2. CASE c = s
    <3> DEFINE f == <<c, "forward">>
               b == <<c, "backward">>
    <3>1. f \in Channel /\ b \in Channel /\ (w = f \/ w = b)
      <4>1. f \in Channel /\ b \in Channel
        BY Units DEF Direction
      <4>2. w = <<w[1], w[2]>> /\ w[2] \in {"forward", "backward"}
        BY <1>3, Units DEF Direction
      <4>3. QED
        BY <4>1, <4>2, <1>3, <2>2
    <3>2. announced[c] <= Share(f) + Share(b) /\ announced[c] \in 0..2
      BY <1>10, <2>2 DEF IInv, Announcements
    <3>3. \A v \in Channel : v = w => Share(v) = 0 /\ Share(v)' = 1
      BY <1>16 DEF Share
    <3>4. ASSUME NEW u \in Channel
          PROVE  Share(u) \in 0..1 /\ Share(u)' \in 0..1 /\ Share(u) <= Share(u)'
      <4>1. Done(u) => Done(u)'
        BY <1>15
      <4>2. Share(u) = (IF Done(u) THEN 1 ELSE 0) /\ Share(u)' = (IF Done(u)' THEN 1 ELSE 0)
        BY DEF Share
      <4>3. QED
        BY <4>1, <4>2
    <3> DEFINE sf == Share(f)
               sb == Share(b)
    <3>5. /\ sf \in 0..1 /\ sf' \in 0..1 /\ sf <= sf'
          /\ sb \in 0..1 /\ sb' \in 0..1 /\ sb <= sb'
          /\ (sf = 0 /\ sf' = 1) \/ (sb = 0 /\ sb' = 1)
      <4>1. sf \in 0..1 /\ sf' \in 0..1 /\ sf <= sf'
        BY <3>1, <3>4
      <4>2. sb \in 0..1 /\ sb' \in 0..1 /\ sb <= sb'
        BY <3>1, <3>4
      <4>3. (sf = 0 /\ sf' = 1) \/ (sb = 0 /\ sb' = 1)
        BY <3>1, <3>3
      <4>4. QED
        BY <4>1, <4>2, <4>3
    <3>6. announced[c] <= sf + sb /\ announced'[c] = announced[c] + 1
      BY <3>2, <1>10, <2>2
    <3> HIDE DEF sf, sb
    <3>7. announced'[c] <= sf' + sb'
      BY <3>2, <3>5, <3>6
    <3>8. QED
      BY <3>7 DEF sf, sb
  <2>3. QED
    BY <2>1, <2>2
<1>18. announced' \in [Client -> 0..2]
  <2>1. \A c \in Client : announced'[c] \in Nat
    BY <1>10
  <2>2. \A u : Share(u)' \in 0..1
    BY DEF Share
  <2>3. ASSUME NEW c \in Client PROVE announced'[c] \in 0..2
    <3>1. Share(<<c, "forward">>)' \in 0..1 /\ Share(<<c, "backward">>)' \in 0..1
      BY <2>2
    <3>2. announced'[c] \in Nat
          /\ announced'[c] <= Share(<<c, "forward">>)' + Share(<<c, "backward">>)'
      BY <2>1, <1>17
    <3>3. QED
      BY ONLY <3>1, <3>2
  <2>4. QED
    BY <2>3, <1>10
<1>19. TypeOK'
  BY <1>1, <1>2, <1>4, <1>11, <1>18 DEF TypeOK, cores, PcLabels
<1>20. AnnouncedOnce'
  <2> SUFFICES ASSUME NEW c \in Client,
                      home[<<c, "forward">>] = home[<<c, "backward">>]
               PROVE  announced'[c] <= 1
    BY <1>5 DEF AnnouncedOnce, NoneMoves
  <2>1. CASE c # s
    BY <2>1, <1>10 DEF IInv, AnnouncedOnce
  <2>2. CASE c = s
    <3>1. home[w] = k
      BY <1>1, RunsItsOwn
    <3>2. home[Other(w)] = k
      <4>1. w = <<w[1], w[2]>> /\ w[2] \in {"forward", "backward"}
        BY <1>3, Units DEF Direction
      <4>2. w[2] = "forward" => Other(w) = <<c, "backward">> /\ w = <<c, "forward">>
        BY <4>1, <2>2, <1>3 DEF Other
      <4>3. w[2] = "backward" => Other(w) = <<c, "forward">> /\ w = <<c, "backward">>
        BY <4>1, <2>2, <1>3 DEF Other
      <4>4. QED
        BY <4>1, <4>2, <4>3, <3>1
    <3>3. announced[c] = 0
      BY <3>2, <1>1, <2>2 DEF IInv, Announcements
    <3>4. QED
      BY <3>3, <1>10, <2>2
  <2>3. QED
    BY <2>1, <2>2
<1>21. Announcements'
  <2>1. \A l \in Core : l # k => (pc'[l] = pc[l] /\ Running(l)' = Running(l)
                                  /\ Subject(l)' = Subject(l))
    BY <1>4, OthersRun
  <2>2. ASSUME NEW c \in Client, announced'[c] > 0 PROVE iState'[c] = "DISCONNECTED"
    <3>1. CASE c = s
      BY <3>1, <1>1, <1>2 DEF IInv, Announcements
    <3>2. CASE c # s
      BY <3>2, <2>2, <1>2, <1>10 DEF IInv, Announcements
    <3>3. QED
      BY <3>1, <3>2
  <2>3. ASSUME NEW l \in Core, pc'[l] = "announce"
        PROVE  iState'[Subject(l)'] = "DISCONNECTED"
    <3>1. l # k /\ pc[l] = "announce"
      BY <1>4, <2>1, <2>3
    <3>2. QED
      BY <3>1, <2>1, <1>2 DEF IInv, Announcements
  <2>4. ASSUME NEW l \in Core, pc'[l] \in {"set", "announce"},
               home'[Other(Running(l)')] = l
        PROVE  announced'[Subject(l)'] = 0
    <3>1. l # k /\ pc[l] \in {"set", "announce"} /\ home[Other(Running(l))] = l
      BY <1>4, <1>5, <2>1, <2>4 DEF NoneMoves
    <3>2. Subject(l) \in Client /\ Running(l) \in Channel
      BY <3>1, RunsRaised DEF IInv, Roles, Failing
    <3>3. announced[Subject(l)] = 0
      BY <3>1 DEF IInv, Announcements
    <3>4. Subject(l) # s
      <4> SUFFICES ASSUME Subject(l) = s PROVE FALSE
        OBVIOUS
      <4>1. w = Running(l) \/ w = Other(Running(l))
        BY <1>3, <3>2, Units DEF Subject
      <4>2. home[w] = k /\ home[Running(l)] = l
        BY <1>1, <3>1, RunsItsOwn
      <4>3. QED
        BY <4>1, <4>2, <3>1
    <3>5. QED
      BY <3>1, <3>2, <3>3, <3>4, <2>1, <1>10
  <2>5. QED
    BY <1>17, <2>2, <2>3, <2>4 DEF Announcements, Other
<1>22. QED
  BY <1>6, <1>8, <1>12, <1>13, <1>14, <1>19, <1>20, <1>21 DEF IInv

(* The unit leaves its core.                                               *)
LEMMA KickIInv == ASSUME IInv, NEW k \in Core, Kick(k) PROVE IInv'
<1>1. TypeOK /\ pc[k] \in {"kick", "visit"}
  BY DEF IInv, Kick
<1>2. PICK w \in Unit : w = Running(k)
  BY <1>1, RunsItsOwn
<1>3. /\ Contains(units[k], w) /\ home[w] = k /\ pos[k] \in 1..Len(units[k])
      /\ units[k] \in Seq(Unit)
  BY <1>1, <1>2, RunsItsOwn DEF TypeOK
<1>4. PICK left : left = RemoveAt(units[k], pos[k])
  OBVIOUS
<1>5. /\ left \in Seq(Unit) /\ NoTwice(left) /\ ~Contains(left, w)
      /\ \A x : Contains(left, x) => Contains(units[k], x)
  <2>1. NoTwice(units[k])
    BY DEF IInv, Once
  <2>2. /\ left \in Seq(Unit)
        /\ \A x : Contains(left, x) => Contains(units[k], x)
        /\ NoTwice(left) /\ ~Contains(left, units[k][pos[k]])
    BY <1>3, <1>4, <2>1, Leaving
  <2>3. QED
    BY <2>2, <1>2 DEF Running
<1>6. Continue(k, left, pos[k]) /\ UNCHANGED <<pool, home, shared>>
  BY <1>4 DEF Kick
<1>7. /\ units' \in [Core -> Seq(Unit)] /\ units'[k] = left
      /\ pos' \in [Core -> Nat]
      /\ pc'[k] \in {"accept", "visit"} /\ pc' \in [Core -> PcLabels]
      /\ OthersRest(k)
      /\ \A l \in Core : pc'[l] # "accept" => pos'[l] \in 1..Len(units'[l])
  <2>1. pos[k] \in Nat \ {0}
    BY <1>3
  <2>2. QED
    BY <1>1, <1>5, <1>6, <2>1, Continued DEF OthersRest, PcLabels
<1>8. blocked' \subseteq blocked /\ crashed' \in BOOLEAN
  BY DEF Kick
<1>9. TypeOK'
  BY <1>1, <1>6, <1>7, <1>8 DEF TypeOK, shared, PcLabels
<1>10. \A l \in Core : \A x : Contains(units'[l], x) => Contains(units[l], x)
  BY <1>5, <1>7 DEF OthersRest
<1>11. Homes'
  BY <1>6, <1>10 DEF IInv, Homes
<1>12. Once'
  <2>1. ASSUME NEW l \in Core PROVE NoTwice(units'[l])
    <3>1. CASE l = k
      BY <3>1, <1>5, <1>7
    <3>2. CASE l # k
      BY <3>2, <1>7 DEF IInv, Once, OthersRest
    <3>3. QED
      BY <3>1, <3>2
  <2>2. QED
    BY <2>1, <1>6 DEF IInv, Once
<1>13. ~Making(k) /\ ~Making(k)' /\ ~Failing(k)'
  BY <1>1, <1>7 DEF Making, Failing
<1>14. Roles'
  BY <1>7, <1>13, RestRoles
<1>15. Absences' /\ GoneIsGone' /\ \A c \in Client : Between(c)' = Between(c)
  BY <1>6, RestClients DEF ClientsRest
<1>16. Births'
  BY <1>6, <1>7, <1>13, <1>15, RestBirths
<1>17. ASSUME NEW u \in Channel, Done(u) PROVE Done(u)'
  <2>1. PICK h \in Core : h = home[u] /\ h # Nowhere
    BY <1>1, <1>17, Units, CoreAssumption DEF TypeOK, Done
  <2>2. home'[u] = h
    BY <1>6, <2>1
  <2>3. CASE ~Contains(units[h], u)
    BY <1>10, <2>1, <2>2, <2>3 DEF Done
  <2>4. CASE pc[h] = "kick" /\ Running(h) = u /\ h = k
    <3>1. ~Contains(units'[h], u)
      BY <2>4, <1>2, <1>5, <1>7
    <3>2. QED
      BY <2>1, <2>2, <3>1 DEF Done
  <2>5. CASE pc[h] = "kick" /\ Running(h) = u /\ h # k
    <3>1. Running(h)' = Running(h) /\ pc'[h] = pc[h]
      BY <1>7, <2>5, OthersRun
    <3>2. QED
      BY <2>1, <2>2, <2>5, <3>1 DEF Done
  <2>6. QED
    BY <1>17, <2>1, <2>3, <2>4, <2>5 DEF Done
<1>18. Announcements'
  BY <1>6, <1>7, <1>17, RestCounts DEF shared
<1>19. AnnouncedOnce'
  BY <1>6 DEF IInv, AnnouncedOnce, shared
<1>20. QED
  BY <1>9, <1>11, <1>12, <1>14, <1>15, <1>16, <1>18, <1>19 DEF IInv

(* A core takes the unit at the end of the pool, or none.                  *)
LEMMA AcceptNone == ASSUME IInv, NEW k \in Core, Accept(k), pool = <<>> PROVE IInv'
<1>1. TypeOK /\ pc[k] = "accept" /\ units[k] \in Seq(Unit)
  BY DEF IInv, Accept, TypeOK
<1>2. Continue(k, units[k], 1) /\ UNCHANGED <<pool, home, blocked, shared, crashed>>
  BY DEF Accept
<1>3. /\ units' \in [Core -> Seq(Unit)] /\ units'[k] = units[k]
      /\ pos' \in [Core -> Nat]
      /\ pc'[k] \in {"accept", "visit"} /\ pc' \in [Core -> PcLabels]
      /\ OthersRest(k)
      /\ \A l \in Core : pc'[l] # "accept" => pos'[l] \in 1..Len(units'[l])
  <2>1. 1 \in Nat \ {0}
    OBVIOUS
  <2>2. QED
    BY <1>1, <1>2, <2>1, Continued DEF OthersRest, PcLabels
<1>4. NoneMoves /\ ClientsRest
  BY <1>2, <1>3 DEF NoneMoves, OthersRest, ClientsRest
<1>5. TypeOK'
  BY <1>1, <1>2, <1>3 DEF TypeOK, shared, PcLabels
<1>6. Homes' /\ Once'
  BY <1>4, RestHomes
<1>7. ~Making(k) /\ ~Making(k)' /\ ~Failing(k)'
  BY <1>1, <1>3 DEF Making, Failing
<1>8. Roles'
  BY <1>3, <1>7, RestRoles
<1>9. Absences' /\ GoneIsGone' /\ \A c \in Client : Between(c)' = Between(c)
  BY <1>4, RestClients DEF NoneMoves
<1>10. Births'
  BY <1>3, <1>4, <1>7, <1>9, RestBirths DEF NoneMoves
<1>11. \A u \in Channel : Done(u) => Done(u)'
  BY <1>1, <1>3, <1>4, RestDone
<1>12. Announcements'
  BY <1>2, <1>3, <1>11, RestCounts DEF shared
<1>13. AnnouncedOnce'
  BY <1>2 DEF IInv, AnnouncedOnce, shared
<1>14. QED
  BY <1>5, <1>6, <1>8, <1>9, <1>10, <1>12, <1>13 DEF IInv

LEMMA AcceptOne == ASSUME IInv, NEW k \in Core, Accept(k), pool # <<>> PROVE IInv'
<1>1. TypeOK /\ pc[k] = "accept" /\ units[k] \in Seq(Unit) /\ pool \in Seq(Unit)
  BY DEF IInv, Accept, TypeOK
<1>2. PICK u : u = Last(pool)
  OBVIOUS
<1>3. /\ u \in Unit /\ Contains(pool, u) /\ Front(pool) \in Seq(Unit)
      /\ \A x : Contains(pool, x) <=> Contains(Front(pool), x) \/ x = u
      /\ NoTwice(Front(pool)) /\ ~Contains(Front(pool), u)
  BY <1>1, <1>2, TakeLast DEF IInv, Once
<1>4. home[u] = Nowhere /\ \A l \in Core : ~Contains(units[l], u)
  BY <1>3, CoreAssumption DEF IInv, Homes
<1>5. PICK mine : mine = Append(units[k], u)
  OBVIOUS
<1>6. /\ mine \in Seq(Unit) /\ NoTwice(mine)
      /\ \A x : Contains(mine, x) <=> Contains(units[k], x) \/ x = u
  BY <1>1, <1>3, <1>4, <1>5, AppendOne DEF IInv, Once
<1>7. /\ pool' = Front(pool) /\ home' = [home EXCEPT ![u] = k]
      /\ Continue(k, mine, 1) /\ UNCHANGED <<blocked, shared, crashed>>
  BY <1>2, <1>5 DEF Accept
<1>8. /\ units' \in [Core -> Seq(Unit)] /\ units'[k] = mine
      /\ pos' \in [Core -> Nat]
      /\ pc'[k] \in {"accept", "visit"} /\ pc' \in [Core -> PcLabels]
      /\ OthersRest(k)
      /\ \A l \in Core : pc'[l] # "accept" => pos'[l] \in 1..Len(units'[l])
  <2>1. 1 \in Nat \ {0}
    OBVIOUS
  <2>2. QED
    BY <1>1, <1>6, <1>7, <2>1, Continued DEF OthersRest, PcLabels
<1>9. /\ home' \in [Unit -> Core \cup {Nowhere}] /\ home'[u] = k
      /\ \A x \in Unit : x # u => home'[x] = home[x]
  BY <1>1, <1>3, <1>7 DEF TypeOK
<1>10. TypeOK'
  BY <1>1, <1>3, <1>7, <1>8, <1>9 DEF TypeOK, shared, PcLabels
<1>11. \A l \in Core : \A x : Contains(units'[l], x) <=> Contains(units[l], x) \/ (l = k /\ x = u)
  BY <1>6, <1>8 DEF OthersRest
<1>12. Homes'
  BY <1>3, <1>4, <1>7, <1>9, <1>11 DEF IInv, Homes
<1>13. Once'
  <2>1. ASSUME NEW l \in Core PROVE NoTwice(units'[l])
    <3>1. CASE l = k
      BY <3>1, <1>6, <1>8
    <3>2. CASE l # k
      BY <3>2, <1>8 DEF IInv, Once, OthersRest
    <3>3. QED
      BY <3>1, <3>2
  <2>2. QED
    BY <2>1, <1>3, <1>7 DEF IInv, Once
<1>14. ~Making(k) /\ ~Making(k)' /\ ~Failing(k)'
  BY <1>1, <1>8 DEF Making, Failing
<1>15. Roles'
  BY <1>8, <1>14, RestRoles
<1>16. GoneIsGone' /\ \A c \in Client : Between(c)' = Between(c) /\ Raised(c)' = Raised(c)
  BY <1>7, RestClients DEF ClientsRest
<1>17. \A c \in Client, d \in Direction : <<c, d>> \in Unit
  BY Units
<1>18. Absences'
  <2> SUFFICES ASSUME NEW c \in Client, ~Raised(c) PROVE Unborn(c)'
    BY <1>16 DEF Absences
  <2>1. Unborn(c)
    BY DEF IInv, Absences
  <2>2. ASSUME NEW d \in Direction
        PROVE  home'[<<c, d>>] = Nowhere /\ ~Contains(pool', <<c, d>>)
    BY <2>1, <1>3, <1>7, <1>9, <1>17 DEF Unborn
  <2>3. /\ c \notin remotes' /\ over'[c] = 0 /\ announced'[c] = 0
        /\ ~Contains(inEvents', c) /\ ~Contains(outEvents', c)
    BY <2>1, <1>7 DEF Unborn, shared
  <2>4. QED
    BY <2>2, <2>3 DEF Unborn
<1>19. Births'
  <2>1. Births
    BY DEF IInv
  <2>2. \A l \in Core : Making(l)' <=> Making(l)
    <3>1. \A l \in Core : l # k => (Making(l)' <=> Making(l))
      BY <1>8, OthersRun
    <3>2. QED
      BY <3>1, <1>14
  <2>3. \A l \in Core : pc'[l] = "put" => pc[l] = "put"
    BY <1>8, OthersRun
  <2>4. ASSUME NEW l \in Core, NEW c \in Client, pc[l] = "put", Between(c)
        PROVE  home'[<<c, "backward">>] = Nowhere /\ ~Contains(pool', <<c, "backward">>)
    <3>1. <<c, "backward">> \in Unit
      BY <1>17 DEF Direction
    <3>2. home[<<c, "backward">>] = Nowhere /\ ~Contains(pool, <<c, "backward">>)
      BY <2>1, <2>4 DEF Births
    <3>3. QED
      BY <3>1, <3>2, <1>3, <1>7, <1>9
  <2>5. QED
    BY <2>1, <2>2, <2>3, <2>4, <1>16 DEF Births
<1>20. ~Done(u)
  BY <1>4 DEF Done
<1>21. ASSUME NEW v \in Channel, Done(v) PROVE Done(v)'
  <2>1. v # u /\ v \in Unit
    BY <1>20, <1>21, Units
  <2>2. PICK h \in Core : h = home[v] /\ h # Nowhere
    BY <1>1, <1>21, <2>1, CoreAssumption DEF TypeOK, Done
  <2>3. home'[v] = h
    BY <1>9, <2>1, <2>2
  <2>4. CASE ~Contains(units[h], v)
    BY <1>11, <2>1, <2>2, <2>3, <2>4 DEF Done
  <2>5. CASE pc[h] = "kick" /\ Running(h) = v
    <3>1. Running(h)' = Running(h) /\ pc'[h] = pc[h]
      BY <1>1, <1>8, <2>5, OthersRun
    <3>2. QED
      BY <2>2, <2>3, <2>5, <3>1 DEF Done
  <2>6. QED
    BY <1>21, <2>2, <2>4, <2>5 DEF Done
<1>22. Announcements'
  <2>1. \A l \in Core, v \in Channel : l # k => (home'[v] = l <=> home[v] = l)
    BY <1>4, <1>9, Units, CoreAssumption
  <2>2. QED
    BY <2>1, <1>7, <1>8, <1>21, RestCounts DEF shared
<1>23. AnnouncedOnce'
  <2> SUFFICES ASSUME NEW c \in Client, home'[<<c, "forward">>] = home'[<<c, "backward">>]
               PROVE  announced[c] <= 1
    BY <1>7 DEF AnnouncedOnce, shared
  <2>1. <<c, "forward">> \in Unit /\ <<c, "backward">> \in Unit
    BY <1>17 DEF Direction
  <2>2. CASE u # <<c, "forward">> /\ u # <<c, "backward">>
    BY <1>9, <2>1, <2>2 DEF IInv, AnnouncedOnce
  <2>3. CASE u = <<c, "forward">> \/ u = <<c, "backward">>
    <3>1. announced[c] <= Share(<<c, "forward">>) + Share(<<c, "backward">>)
      BY DEF IInv, Announcements
    <3>2. announced[c] \in Nat
      <4>1. announced \in [Client -> 0..2]
        BY <1>1 DEF TypeOK
      <4>2. QED
        BY <4>1
    <3>3. /\ Share(<<c, "forward">>) \in 0..1 /\ Share(<<c, "backward">>) \in 0..1
          /\ Share(u) = 0
      BY <1>20 DEF Share
    <3>4. QED
      BY <2>3, <3>1, <3>2, <3>3
  <2>4. QED
    BY <2>2, <2>3
<1>24. QED
  BY <1>10, <1>12, <1>13, <1>15, <1>16, <1>18, <1>19, <1>22, <1>23 DEF IInv
-----------------------------------------------------------------------------
(* The client center.  While a core runs it, no other core makes a client. *)
LEMMA CenterAlone ==
    ASSUME IInv, NEW k \in Core, pc[k] # "accept", Running(k) = Center
    PROVE  /\ \A l \in Core : Making(l) => l = k
           /\ ~Making(k) => \A c \in Client : ~Between(c)
<1>1. \A l \in Core : Making(l) => Running(l) = Center /\ pc[l] # "accept"
  BY DEF IInv, Roles, Making
<1>2. \A l \in Core : Making(l) => l = k
  BY <1>1, OneMaker
<1>3. ~Making(k) => \A c \in Client : ~Between(c)
  BY <1>2 DEF IInv, Births
<1>4. QED
  BY <1>2, <1>3

(* The client that is made is the only one between its birth and aRemotes. *)
LEMMA TheNewest ==
    ASSUME IInv, NEW k \in Core, Making(k)
    PROVE  /\ Newest \in Client /\ Between(Newest)
           /\ \A c \in Client : Between(c) => c = Newest
<1>1. \E c \in Client : Between(c)
  BY DEF IInv, Births
<1>2. Newest = CHOOSE c \in Client : Between(c)
  BY DEF Newest, Between
<1>3. Newest \in Client /\ Between(Newest)
  BY <1>1, <1>2
<1>4. QED
  BY <1>3 DEF IInv, Births

LEMMA PutForwardIInv ==
    ASSUME IInv, NEW k \in Core, NEW c \in Client, PutForward(k, c) PROVE IInv'
<1> DEFINE f == <<c, "forward">>
           b == <<c, "backward">>
<1>1. TypeOK /\ pc[k] = "visit" /\ Running(k) = Center /\ Goto(k, "put")
  BY DEF IInv, PutForward, Visiting
<1>2. /\ iState[c] = "ABSENT" /\ iState' = [iState EXCEPT ![c] = "RAW"]
      /\ pool' = Append(pool, f)
      /\ UNCHANGED <<units, pos, home, blocked, crashed, remotes, inEvents, outEvents,
                     drained, announced, over>>
  BY DEF PutForward
<1>3. /\ OthersRest(k) /\ pc'[k] = "put" /\ pc' \in [Core -> PcLabels]
      /\ Running(k)' = Running(k) /\ Subject(k)' = Subject(k)
      /\ \A l \in Core : pc'[l] # "accept" => pos'[l] \in 1..Len(units'[l])
  BY <1>1, <1>2, GotoRests DEF PcLabels
<1>4. Unborn(c)
  BY <1>2 DEF IInv, Absences, Raised
<1>5. f \in Unit /\ b \in Unit /\ f # b
  <2>1. f \in Channel /\ b \in Channel /\ f[2] = "forward" /\ b[2] = "backward"
    BY Units DEF Direction
  <2>2. QED
    BY <2>1, Units
<1>6. /\ ~Contains(pool, f) /\ ~Contains(pool, b) /\ home[f] = Nowhere /\ home[b] = Nowhere
      /\ c \notin remotes /\ over[c] = 0 /\ announced[c] = 0
  BY <1>4 DEF Unborn, Direction
<1>7. /\ pool' \in Seq(Unit) /\ NoTwice(pool')
      /\ \A x : Contains(pool', x) <=> Contains(pool, x) \/ x = f
  <2>1. pool \in Seq(Unit) /\ NoTwice(pool)
    BY <1>1 DEF TypeOK, IInv, Once
  <2>2. pool' = Append(pool, f) /\ f \in Unit /\ ~Contains(pool, f)
    BY <1>2, <1>5, <1>6
  <2> HIDE DEF f
  <2>3. QED
    BY <2>1, <2>2, AppendOne
<1>8. /\ iState \in [Client -> {"ABSENT", "RAW", "DISCONNECTED"}]
      /\ iState' \in [Client -> {"ABSENT", "RAW", "DISCONNECTED"}]
      /\ iState'[c] = "RAW" /\ \A e \in Client : e # c => iState'[e] = iState[e]
  BY <1>1, <1>2 DEF TypeOK
<1>9. TypeOK'
  BY <1>1, <1>2, <1>3, <1>7, <1>8 DEF TypeOK, PcLabels
<1>10. Homes'
  BY <1>2, <1>6, <1>7 DEF IInv, Homes
<1>11. Once'
  BY <1>2, <1>7 DEF IInv, Once
<1>12. ~Making(k) /\ Making(k)' /\ ~Failing(k)'
  BY <1>1, <1>3 DEF Making, Failing
<1>13. Roles'
  BY <1>1, <1>3, <1>12, RestRoles
<1>14. /\ \A e \in Client : Raised(e)' <=> Raised(e) \/ e = c
       /\ \A e \in Client : Between(e)' <=> e = c
  <2>1. \A e \in Client : Raised(e)' <=> Raised(e) \/ e = c
    BY <1>8 DEF Raised
  <2>2. \A e \in Client : ~Between(e)
    BY <1>1, <1>12, CenterAlone
  <2>3. QED
    BY <2>1, <2>2, <1>2, <1>6 DEF Between
<1>15. Absences'
  <2> SUFFICES ASSUME NEW e \in Client, ~Raised(e), e # c PROVE Unborn(e)'
    BY <1>14 DEF Absences
  <2>1. Unborn(e)
    BY DEF IInv, Absences
  <2>2. \A d \in Direction : <<e, d>> # f
    OBVIOUS
  <2>3. QED
    BY <2>1, <2>2, <1>2, <1>7 DEF Unborn
<1>16. Births'
  <2>1. \A e, g \in Client : Between(e)' /\ Between(g)' => e = g
    BY <1>14
  <2>2. (\E e \in Client : Between(e)') <=> (\E l \in Core : Making(l)')
    BY <1>12, <1>14
  <2>3. \A l \in Core, e \in Client : pc'[l] = "put" /\ Between(e)' =>
            home'[<<e, "backward">>] = Nowhere /\ ~Contains(pool', <<e, "backward">>)
    BY <1>2, <1>5, <1>6, <1>7, <1>14
  <2>4. QED
    BY <2>1, <2>2, <2>3 DEF Births
<1>17. GoneIsGone' /\ AnnouncedOnce'
  BY <1>2 DEF IInv, GoneIsGone, AnnouncedOnce
<1>18. \A u \in Channel : Done(u) => Done(u)'
  <2> SUFFICES ASSUME NEW u \in Channel, Done(u) PROVE Done(u)'
    OBVIOUS
  <2>1. PICK h \in Core : h = home[u] /\ h # Nowhere
    BY <1>1, Units, CoreAssumption DEF TypeOK, Done
  <2>2. home'[u] = h /\ units'[h] = units[h]
    BY <2>1, <1>2
  <2>3. CASE ~Contains(units[h], u)
    BY <2>1, <2>2, <2>3 DEF Done
  <2>4. CASE pc[h] = "kick" /\ Running(h) = u
    <3>1. Running(h)' = Running(h) /\ pc'[h] = pc[h]
      BY <1>1, <1>3, <2>4, OthersRun
    <3>2. QED
      BY <2>1, <2>2, <2>4, <3>1 DEF Done
  <2>5. QED
    BY <2>1, <2>3, <2>4 DEF Done
<1>19. Announcements'
  <2>1. \A e \in Client : iState[e] = "DISCONNECTED" => iState'[e] = "DISCONNECTED"
    BY <1>2, <1>8
  <2>2. QED
    BY <2>1, <1>2, <1>3, <1>18, RestCounts
<1>20. QED
  BY <1>9, <1>10, <1>11, <1>13, <1>15, <1>16, <1>17, <1>19 DEF IInv

LEMMA PutBackwardIInv ==
    ASSUME IInv, NEW k \in Core, PutBackward(k) PROVE IInv'
<1>1. TypeOK /\ pc[k] = "put" /\ Goto(k, "append") /\ Making(k)
  BY DEF IInv, PutBackward, Making
<1>2. PICK c \in Client : /\ c = Newest /\ Between(c)
                          /\ \A e \in Client : Between(e) => e = c
  BY <1>1, TheNewest
<1> DEFINE b == <<c, "backward">>
<1>3. pool' = Append(pool, b) /\ UNCHANGED <<units, pos, home, blocked, shared, crashed>>
  BY <1>2 DEF PutBackward
<1>4. /\ OthersRest(k) /\ pc'[k] = "append" /\ pc' \in [Core -> PcLabels]
      /\ Running(k)' = Running(k) /\ Subject(k)' = Subject(k)
      /\ \A l \in Core : pc'[l] # "accept" => pos'[l] \in 1..Len(units'[l])
  BY <1>1, <1>3, GotoRests DEF PcLabels
<1>5. b \in Unit /\ home[b] = Nowhere /\ ~Contains(pool, b)
  <2>1. b \in Unit
    BY Units DEF Direction
  <2>2. home[b] = Nowhere /\ ~Contains(pool, b)
    BY <1>1, <1>2 DEF IInv, Births
  <2>3. QED
    BY <2>1, <2>2
<1>6. /\ pool' \in Seq(Unit) /\ NoTwice(pool')
      /\ \A x : Contains(pool', x) <=> Contains(pool, x) \/ x = b
  <2>1. pool \in Seq(Unit) /\ NoTwice(pool)
    BY <1>1 DEF TypeOK, IInv, Once
  <2>2. QED
    BY <2>1, <1>3, <1>5, AppendOne, SMTT(60)
<1>7. TypeOK'
  BY <1>1, <1>3, <1>4, <1>6 DEF TypeOK, shared, PcLabels
<1>8. Homes'
  BY <1>3, <1>5, <1>6 DEF IInv, Homes
<1>9. Once'
  BY <1>3, <1>6 DEF IInv, Once
<1>10. Making(k)' /\ ~Failing(k)' /\ Running(k) = Center
  BY <1>1, <1>4 DEF IInv, Roles, Making, Failing
<1>11. Roles'
  BY <1>4, <1>10, RestRoles
<1>12. GoneIsGone' /\ \A e \in Client : Raised(e)' = Raised(e) /\ Between(e)' = Between(e)
  BY <1>3, RestClients DEF ClientsRest
<1>13. Absences'
  <2> SUFFICES ASSUME NEW e \in Client, ~Raised(e) PROVE Unborn(e)'
    BY <1>12 DEF Absences
  <2>1. Unborn(e)
    BY DEF IInv, Absences
  <2>2. \A d \in Direction : <<e, d>> # b
    BY <1>2 DEF Between
  <2>3. QED
    BY <2>1, <2>2, <1>3, <1>6 DEF Unborn, shared
<1>14. Births'
  <2>1. \A e, g \in Client : Between(e)' /\ Between(g)' => e = g
    BY <1>2, <1>12
  <2>2. (\E e \in Client : Between(e)') <=> (\E l \in Core : Making(l)')
    BY <1>2, <1>10, <1>12
  <2>3. ASSUME NEW l \in Core, pc'[l] = "put" PROVE FALSE
    <3>1. l # k
      BY <1>4, <2>3
    <3>2. pc[l] = "put"
      BY <1>4, <2>3, <3>1, OthersRun
    <3>3. Making(l)
      BY <3>2 DEF Making
    <3>4. QED
      BY <1>1, <1>10, <3>1, <3>3, CenterAlone
  <2>4. QED
    BY <2>1, <2>2, <2>3 DEF Births
<1>15. AnnouncedOnce'
  BY <1>3 DEF IInv, AnnouncedOnce, shared
<1>16. \A u \in Channel : Done(u) => Done(u)'
  <2> SUFFICES ASSUME NEW u \in Channel, Done(u) PROVE Done(u)'
    OBVIOUS
  <2>1. PICK h \in Core : h = home[u] /\ h # Nowhere
    BY <1>1, Units, CoreAssumption DEF TypeOK, Done
  <2>2. home'[u] = h /\ units'[h] = units[h]
    BY <2>1, <1>3
  <2>3. CASE ~Contains(units[h], u)
    BY <2>1, <2>2, <2>3 DEF Done
  <2>4. CASE pc[h] = "kick" /\ Running(h) = u
    <3>1. Running(h)' = Running(h) /\ pc'[h] = pc[h]
      BY <1>1, <1>4, <2>4, OthersRun
    <3>2. QED
      BY <2>1, <2>2, <2>4, <3>1 DEF Done
  <2>5. QED
    BY <2>1, <2>3, <2>4 DEF Done
<1>17. Announcements'
  BY <1>3, <1>4, <1>16, RestCounts DEF shared
<1>18. QED
  BY <1>7, <1>8, <1>9, <1>11, <1>12, <1>13, <1>14, <1>15, <1>17 DEF IInv

LEMMA AppendClientIInv ==
    ASSUME IInv, NEW k \in Core, AppendClient(k) PROVE IInv'
<1>1. TypeOK /\ pc[k] = "append" /\ Goto(k, "visit") /\ Making(k)
  BY DEF IInv, AppendClient, Making
<1>2. PICK c \in Client : /\ c = Newest /\ Between(c)
                          /\ \A e \in Client : Between(e) => e = c
  BY <1>1, TheNewest
<1>3. /\ remotes' = remotes \cup {c}
      /\ UNCHANGED <<cores, blocked, crashed, iState, inEvents, outEvents, drained,
                     announced, over>>
  BY <1>2 DEF AppendClient
<1>4. /\ OthersRest(k) /\ pc'[k] = "visit" /\ pc' \in [Core -> PcLabels]
      /\ Running(k)' = Running(k) /\ Subject(k)' = Subject(k)
      /\ \A l \in Core : pc'[l] # "accept" => pos'[l] \in 1..Len(units'[l])
  BY <1>1, <1>3, GotoRests DEF cores, PcLabels
<1>5. NoneMoves
  BY <1>3, <1>4 DEF NoneMoves, cores
<1>6. TypeOK'
  BY <1>1, <1>3, <1>4 DEF TypeOK, cores, PcLabels
<1>7. Homes' /\ Once'
  BY <1>5, RestHomes
<1>8. ~Making(k)' /\ ~Failing(k)' /\ Running(k) = Center
  BY <1>1, <1>4 DEF IInv, Roles, Making, Failing
<1>9. Roles'
  BY <1>4, <1>8, RestRoles
<1>10. \A e \in Client : (Raised(e)' <=> Raised(e)) /\ ~Between(e)'
  BY <1>2, <1>3 DEF Raised, Between
<1>11. Absences'
  <2>1. Raised(c)
    BY <1>2 DEF Between
  <2>2. QED
    BY <2>1, <1>3, <1>10 DEF IInv, Absences, Unborn, cores
<1>12. \A l \in Core : ~Making(l)'
  <2>1. \A l \in Core : l # k => ~Making(l)
    BY <1>1, <1>8, CenterAlone
  <2>2. \A l \in Core : l # k => Making(l)' = Making(l)
    BY <1>4, OthersRun
  <2>3. QED
    BY <2>1, <2>2, <1>8
<1>13. Births'
  BY <1>10, <1>12 DEF Births
<1>14. GoneIsGone'
  BY <1>2, <1>3 DEF IInv, GoneIsGone, Between
<1>15. AnnouncedOnce'
  BY <1>3 DEF IInv, AnnouncedOnce, cores
<1>16. \A u \in Channel : Done(u) => Done(u)'
  BY <1>1, <1>4, <1>5, RestDone
<1>17. Announcements'
  BY <1>3, <1>4, <1>16, RestCounts DEF cores
<1>18. QED
  BY <1>6, <1>7, <1>9, <1>11, <1>13, <1>14, <1>15, <1>17 DEF IInv

(* The client of the last event is removed; it was made, and it is not the *)
(* one being made, for the core of the client center makes none now.       *)
LEMMA ProcessEventsIInv ==
    ASSUME IInv, NEW k \in Core, ProcessEvents(k) PROVE IInv'
<1>1. TypeOK /\ pc[k] = "visit" /\ Running(k) = Center
  BY DEF IInv, ProcessEvents, Visiting
<1>2. pos[k] \in 1..Len(units[k]) /\ units[k] \in Seq(Unit) /\ pos[k] + 1 \in Nat \ {0}
  BY <1>1 DEF TypeOK
<1>3. /\ Continue(k, units[k], pos[k] + 1) /\ inEvents' = <<>>
      /\ UNCHANGED <<pool, home, blocked, iState, announced>>
  BY DEF ProcessEvents
<1>4. /\ units' \in [Core -> Seq(Unit)] /\ units'[k] = units[k]
      /\ pos' \in [Core -> Nat]
      /\ pc'[k] \in {"accept", "visit"} /\ pc' \in [Core -> PcLabels]
      /\ OthersRest(k)
      /\ \A l \in Core : pc'[l] # "accept" => pos'[l] \in 1..Len(units'[l])
  BY <1>1, <1>2, <1>3, Continued DEF OthersRest, PcLabels
<1>5. NoneMoves
  BY <1>3, <1>4 DEF NoneMoves, OthersRest
<1>6. /\ Moved \in Seq(Client)
      /\ \A x : Contains(Moved, x) <=> Contains(outEvents, x) \/ Contains(inEvents, x)
  BY <1>1, Joining DEF TypeOK, Moved
<1>7. /\ remotes' \subseteq remotes
      /\ over \in [Client -> Nat] /\ over' \in [Client -> Nat]
      /\ outEvents' \in Seq(Client) /\ drained' \in BOOLEAN /\ crashed' \in BOOLEAN
      /\ \A x : Contains(outEvents', x) => Contains(outEvents, x) \/ Contains(inEvents, x)
      /\ \A e \in Client : \/ over'[e] = over[e] /\ (e \in remotes' <=> e \in remotes)
                           \/ over'[e] # 0 /\ e \notin remotes' /\ Raised(e)
  <2>1. CASE Moved = <<>>
    <3>1. UNCHANGED <<remotes, outEvents, drained, over, crashed>>
      BY <2>1 DEF ProcessEvents
    <3>2. QED
      BY <3>1, <1>1 DEF TypeOK
  <2>2. CASE Moved # <<>>
    <3>1. PICK gone : gone = Last(Moved)
      OBVIOUS
    <3>2. /\ crashed' = MoveCrashes
          /\ outEvents' = Front(Moved)
          /\ drained' = (drained \/ Len(Moved) = 1)
          /\ remotes' = remotes \ {gone}
          /\ over' = [over EXCEPT ![gone] = @ + 1]
      BY <2>2, <3>1 DEF ProcessEvents, RemoveClient
    <3>3. /\ gone \in Client /\ Contains(Moved, gone) /\ Front(Moved) \in Seq(Client)
          /\ \A x : Contains(Front(Moved), x) => Contains(Moved, x)
      BY <1>6, <2>2, <3>1, TakeLast
    <3>4. Raised(gone)
      BY <1>6, <3>3 DEF IInv, Absences, Unborn
    <3>5. /\ over \in [Client -> Nat] /\ over' \in [Client -> Nat]
          /\ over'[gone] = over[gone] + 1
          /\ \A e \in Client : e # gone => over'[e] = over[e]
      <4>1. over \in [Client -> Nat]
        BY <1>1 DEF TypeOK
      <4>2. QED
        BY <4>1, <3>2, <3>3
    <3>6. drained' \in BOOLEAN /\ crashed' \in BOOLEAN
      BY <1>1, <3>2 DEF TypeOK, MoveCrashes
    <3>7. over'[gone] # 0
      BY <3>3, <3>5
    <3>8. QED
      BY <1>6, <3>2, <3>3, <3>4, <3>5, <3>6, <3>7
  <2>3. QED
    BY <2>1, <2>2
<1>8. TypeOK'
  <2>1. inEvents' \in Seq(Client)
    BY <1>3, EmptySeq
  <2>2. QED
    BY <1>1, <1>3, <1>4, <1>7, <2>1 DEF TypeOK, PcLabels
<1>9. Homes' /\ Once'
  BY <1>5, RestHomes
<1>10. ~Making(k) /\ ~Making(k)' /\ ~Failing(k)'
  BY <1>1, <1>4 DEF Making, Failing
<1>11. Roles'
  BY <1>4, <1>10, RestRoles
<1>12. \A e \in Client : Raised(e)' <=> Raised(e)
  BY <1>3 DEF Raised
<1>13. \A e \in Client : ~Between(e) /\ ~Between(e)'
  <2>1. \A e \in Client : ~Between(e)
    BY <1>1, <1>10, CenterAlone
  <2>2. QED
    BY <2>1, <1>7, <1>12 DEF Between
<1>14. \A x : ~Contains(inEvents', x)
  BY <1>3 DEF Contains
<1>15. Absences'
  <2> SUFFICES ASSUME NEW e \in Client, ~Raised(e) PROVE Unborn(e)'
    BY <1>12 DEF Absences
  <2>1. Unborn(e)
    BY DEF IInv, Absences
  <2>2. QED
    BY <2>1, <1>3, <1>7, <1>14 DEF Unborn
<1>16. Births'
  <2>1. \A e \in Client : Between(e)' = Between(e)
    BY <1>3, <1>13 DEF Between, Raised
  <2>2. QED
    BY <2>1, <1>3, <1>4, <1>10, RestBirths
<1>17. GoneIsGone'
  BY <1>7 DEF IInv, GoneIsGone
<1>18. \A u \in Channel : Done(u) => Done(u)'
  BY <1>1, <1>4, <1>5, RestDone
<1>19. Announcements'
  BY <1>3, <1>4, <1>18, RestCounts
<1>20. AnnouncedOnce'
  BY <1>3 DEF IInv, AnnouncedOnce
<1>21. QED
  BY <1>8, <1>9, <1>11, <1>15, <1>16, <1>17, <1>19, <1>20 DEF IInv
-----------------------------------------------------------------------------
(* The theorems.                                                           *)
LEMMA NextIInv == IInv /\ [Next]_vars => IInv'
<1> SUFFICES ASSUME IInv, [Next]_vars PROVE IInv'
  OBVIOUS
<1>1. ASSUME NEW k \in Core, Accept(k) PROVE IInv'
  BY <1>1, AcceptNone, AcceptOne
<1>2. ASSUME NEW k \in Core, Iterate(k) PROVE IInv'
  BY <1>1, <1>2, WorksIInv, FailsIInv, CheckIInv, SetStateIInv, GenerateEventIInv,
     KickIInv, PutForwardIInv, PutBackwardIInv, AppendClientIInv, ProcessEventsIInv
     DEF Iterate
<1>3. CASE UNCHANGED vars
  <2> USE <1>3 DEF vars, cores, shared
  <2>1. TypeOK'
    BY DEF IInv, TypeOK
  <2>2. Homes' /\ Once' /\ Roles'
    BY DEF IInv, Homes, Once, Roles, Making, Failing, Running
  <2>3. Absences' /\ Births'
    BY DEF IInv, Absences, Births, Unborn, Between, Raised, Making
  <2>4. GoneIsGone' /\ AnnouncedOnce'
    BY DEF IInv, GoneIsGone, AnnouncedOnce
  <2>5. Announcements'
    BY DEF IInv, Announcements, Share, Done, Running, Subject, Other
  <2>6. QED
    BY <2>1, <2>2, <2>3, <2>4, <2>5 DEF IInv
<1>4. QED
  BY <1>2, <1>3 DEF Next

LEMMA IInvImpliesSoleRunner == IInv => SoleRunner
<1> SUFFICES ASSUME IInv, NEW u \in Unit,
                    NEW k \in Core \cup {Nowhere}, Contains(Everywhere[k], u)
             PROVE  home[u] = k
  BY DEF SoleRunner, Everywhere
<1>1. Everywhere[k] = IF k = Nowhere THEN pool ELSE units[k]
  BY DEF Everywhere
<1>2. QED
  BY <1>1 DEF IInv, Homes

(* The invariant of which the others are parts: wherever a unit is, how far *)
(* a core is with it, and what is known of its client belong together.     *)
THEOREM Invariant == Spec => []IInv
<1>1. Init => IInv
  BY InitIInv
<1>2. IInv /\ [Next]_vars => IInv'
  BY NextIInv
<1>3. QED
  BY <1>1, <1>2, PTL DEF Spec

(* Every core runs a unit at a place of its own list, and a client's end is *)
(* announced twice at most.                                                *)
THEOREM TypeCorrect == Spec => []TypeOK
<1>1. IInv => TypeOK
  BY DEF IInv
<1>2. QED
  BY <1>1, Invariant, PTL

(* A unit is in the pool or on one core, where its home says: two cores    *)
(* never run the same unit at the same time.                               *)
THEOREM OneRunner == Spec => []SoleRunner
<1>1. IInv => SoleRunner
  BY IInvImpliesSoleRunner
<1>2. QED
  BY <1>1, Invariant, PTL

(* The client center never removes a client before it appended it: a client *)
(* of which the modules were told that it is over is not in aRemotes.      *)
THEOREM NoReturn == Spec => []GoneIsGone
<1>1. IInv => GoneIsGone
  BY DEF IInv
<1>2. QED
  BY <1>1, Invariant, PTL

(* disconnect tests the state and sets it in two steps: where both units of *)
(* a client run on one core, they announce its end once all the same.      *)
THEOREM OneEnd == Spec => []AnnouncedOnce
<1>1. IInv => AnnouncedOnce
  BY DEF IInv
<1>2. QED
  BY <1>1, Invariant, PTL
=============================================================================
