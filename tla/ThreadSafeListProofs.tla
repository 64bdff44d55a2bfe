------------------------ MODULE ThreadSafeListProofs ------------------------
(***************************************************************************)
(* Theorems about ThreadSafeList, for every set of consumers, every choice *)
(* of usages and any number of push_back calls.                            *)
(***************************************************************************)
EXTENDS ThreadSafeList, FiniteSetTheorems, SequenceTheorems, TLAPS

NoTwice(s) == \A i, j \in DOMAIN s : s[i] = s[j] => i = j
Listed == Linked("iInput") \cup Linked("iOutput")

(* The nodes made so far are the first ones; the others are as made.       *)
Numbered ==
    /\ \E m \in 0..pushed : Used = 1..m
    /\ \A n \in Node \ Used : prev[n] = Null /\ next[n] = Null

(* A node is in one list, or in one pool and then without links.           *)
Places ==
    /\ Listed \subseteq Used
    /\ Linked("iInput") \cap Linked("iOutput") = {}
    /\ NoTwice(iNodePool["iInput"])
    /\ Values(iNodePool["iInput"]) \cap Values(iNodePool["iOutput"]) = {}
    /\ \A l \in List : \A n \in Values(iNodePool[l]) :
          n \in Used \ Listed /\ prev[n] = Null /\ next[n] = Null

(* The links of a list are those of a doubly linked one: no two nodes have *)
(* the same predecessor, and the head is nobody's.                         *)
Doubly ==
    \A l \in List :
        /\ pHead[l] # Null => next[pHead[l]] = Null
        /\ \A n \in Linked(l) : prev[n] # Null => next[prev[n]] = n

(* The values in the lists are different, and not taken yet.               *)
Objects ==
    /\ \A n, m \in Listed : object[n] = object[m] => n = m
    /\ \A n \in Listed : object[n] \in 1..pushed \ Values(taken)
    /\ Values(taken) \subseteq 1..pushed

(* Where the list is moved as a whole, pFirst is its first node; in the    *)
(* list it is moved to, pFirst is null only until something comes.         *)
First ==
    /\ usage # "pool" =>
          /\ pFirst["iInput"] = Null <=> pHead["iInput"] = Null
          /\ pFirst["iInput"] # Null =>
                pFirst["iInput"] \in Linked("iInput") /\ prev[pFirst["iInput"]] = Null
    /\ pFirst["iOutput"] = Null => pHead["iOutput"] = Null

(* One thread moves lists, and each thread does what its usage lets it.    *)
Threads ==
    /\ usage # "events" => pHead["iOutput"] = Null
    /\ \A c \in Consumer :
          /\ pc[c] # "idle" => c \in Consumers
          /\ pc[c] = "moving" => usage # "pool" /\ pFirst["iInput"] # Null
          /\ pc[c] \in {"taking", "locking"} => usage # "queue"

Shape == Numbered /\ Places /\ Doubly /\ Objects /\ First /\ Threads /\ NothingForgotten

IInv == TypeOK /\ TakenOnce /\ (~nullHead => Shape)
-----------------------------------------------------------------------------
(* What can be reached from a node backwards.                              *)
LEMMA NullIsNone == Null \notin Node /\ Node \subseteq Nat
BY ConsumerAssumption DEF Null, Node

HIDE DEF Null, Node

LEMMA ReachLeast ==
    ASSUME NEW f, NEW h, NEW S \in SUBSET Node, Closed(f, h, S)
    PROVE  Reach(f, h) \subseteq S
BY DEF Reach

LEMMA ReachClosed ==
    ASSUME NEW f \in [Node -> Node \cup {Null}], NEW h \in Node \cup {Null}
    PROVE  /\ Reach(f, h) \in SUBSET Node
           /\ h # Null => h \in Reach(f, h)
           /\ \A n \in Reach(f, h) : f[n] # Null => f[n] \in Reach(f, h)
<1>1. Reach(f, h) \in SUBSET Node
  BY DEF Reach
<1>2. ASSUME h # Null PROVE h \in Reach(f, h)
  BY <1>2 DEF Reach, Closed
<1>3. ASSUME NEW n \in Reach(f, h), f[n] # Null PROVE f[n] \in Reach(f, h)
  <2>1. n \in Node /\ f[n] \in Node
    BY <1>1, <1>3
  <2>2. ASSUME NEW S \in SUBSET Node, Closed(f, h, S) PROVE f[n] \in S
    BY <1>3, <2>2 DEF Reach, Closed
  <2>3. QED
    BY <2>1, <2>2 DEF Reach
<1>4. QED
  BY <1>1, <1>2, <1>3

LEMMA ClosedBy ==
    ASSUME NEW f, NEW h, NEW S, h # Null => h \in S,
           \A n \in S : f[n] # Null => f[n] \in S
    PROVE  Closed(f, h, S)
BY DEF Closed

LEMMA ClosedHas ==
    ASSUME NEW f, NEW h, NEW S, Closed(f, h, S)
    PROVE  /\ h # Null => h \in S
           /\ \A n \in S : f[n] # Null => f[n] \in S
BY DEF Closed

(* R is what is reached if it is closed and in every closed set.           *)
LEMMA ReachIs ==
    ASSUME NEW f, NEW h, NEW R \in SUBSET Node, Closed(f, h, R),
           \A S \in SUBSET Node : Closed(f, h, S) => R \subseteq S
    PROVE  Reach(f, h) = R
BY DEF Reach

LEMMA ReachNothing ==
    ASSUME NEW f
    PROVE  Reach(f, Null) = {}
<1>1. Closed(f, Null, {})
  BY ClosedBy
<1>2. QED
  BY <1>1, ReachLeast

LEMMA ReachSame ==
    ASSUME NEW f \in [Node -> Node \cup {Null}], NEW h \in Node \cup {Null},
           NEW g, \A n \in Reach(f, h) : g[n] = f[n]
    PROVE  Reach(g, h) = Reach(f, h)
<1> DEFINE R == Reach(f, h)
<1>1. /\ R \in SUBSET Node /\ (h # Null => h \in R)
      /\ \A n \in R : f[n] # Null => f[n] \in R
  BY ReachClosed
<1> HIDE DEF R
<1>2. \A n \in R : g[n] = f[n]
  BY DEF R
<1>3. Closed(g, h, R)
  BY <1>1, <1>2, ClosedBy
<1>4. ASSUME NEW S \in SUBSET Node, Closed(g, h, S) PROVE R \subseteq S
  <2>1. /\ h # Null => h \in S
        /\ \A n \in S : g[n] # Null => g[n] \in S
    BY <1>4, ClosedHas
  <2>2. Closed(f, h, S \cap R)
    <3>1. h # Null => h \in S \cap R
      BY <1>1, <2>1
    <3>2. \A n \in S \cap R : f[n] # Null => f[n] \in S \cap R
      BY <1>1, <1>2, <2>1
    <3>3. QED
      BY <3>1, <3>2, ClosedBy
  <2>3. S \cap R \in SUBSET Node
    BY <1>1
  <2>4. R \subseteq S \cap R
    BY <2>2, <2>3, ReachLeast DEF R
  <2>5. QED
    BY <2>4
<1>5. Reach(g, h) = R
  BY <1>1, <1>3, <1>4, ReachIs
<1>6. QED
  BY <1>5 DEF R

(* A node put before the head.                                             *)
LEMMA ReachPush ==
    ASSUME NEW f \in [Node -> Node \cup {Null}], NEW h \in Node \cup {Null},
           NEW n \in Node, NEW g, g[n] = h,
           \A m \in Reach(f, h) : g[m] = f[m]
    PROVE  Reach(g, n) = Reach(f, h) \cup {n}
<1> DEFINE R == Reach(f, h)
<1>1. /\ R \in SUBSET Node /\ (h # Null => h \in R)
      /\ \A m \in R : f[m] # Null => f[m] \in R
  BY ReachClosed
<1> HIDE DEF R
<1>2. \A m \in R : g[m] = f[m]
  BY DEF R
<1>3. Closed(g, n, R \cup {n})
  <2>1. \A m \in R \cup {n} : g[m] # Null => g[m] \in R \cup {n}
    BY <1>1, <1>2
  <2>2. QED
    BY <2>1, ClosedBy
<1>4. ASSUME NEW S \in SUBSET Node, Closed(g, n, S) PROVE R \cup {n} \subseteq S
  <2>1. n \in S /\ \A m \in S : g[m] # Null => g[m] \in S
    BY <1>4, ClosedHas, NullIsNone
  <2>2. Closed(f, h, S \cap R)
    <3>1. h # Null => h \in S \cap R
      BY <1>1, <2>1
    <3>2. \A m \in S \cap R : f[m] # Null => f[m] \in S \cap R
      BY <1>1, <1>2, <2>1
    <3>3. QED
      BY <3>1, <3>2, ClosedBy
  <2>3. S \cap R \in SUBSET Node
    BY <1>1
  <2>4. R \subseteq S \cap R
    BY <2>2, <2>3, ReachLeast DEF R
  <2>5. QED
    BY <2>1, <2>4
<1>5. R \cup {n} \in SUBSET Node
  BY <1>1
<1>6. Reach(g, n) = R \cup {n}
  BY <1>3, <1>4, <1>5, ReachIs
<1>7. QED
  BY <1>6 DEF R

(* The head taken out.                                                     *)
LEMMA ReachPop ==
    ASSUME NEW f \in [Node -> Node \cup {Null}], NEW h \in Node,
           \A m \in Reach(f, h) : f[m] # h,
           NEW g, \A m \in Reach(f, h) \ {h} : g[m] = f[m]
    PROVE  Reach(g, f[h]) = Reach(f, h) \ {h}
<1> DEFINE R == Reach(f, h)
<1>1. /\ R \in SUBSET Node /\ h \in R /\ h # Null
      /\ \A m \in R : f[m] # Null => f[m] \in R
  BY ReachClosed, NullIsNone
<1> HIDE DEF R
<1>2. (\A m \in R \ {h} : g[m] = f[m]) /\ \A m \in R : f[m] # h
  BY DEF R
<1>3. Closed(g, f[h], R \ {h})
  <2>1. f[h] # Null => f[h] \in R \ {h}
    BY <1>1, <1>2
  <2>2. \A m \in R \ {h} : g[m] # Null => g[m] \in R \ {h}
    BY <1>1, <1>2
  <2>3. QED
    BY <2>1, <2>2, ClosedBy
<1>4. ASSUME NEW S \in SUBSET Node, Closed(g, f[h], S) PROVE R \ {h} \subseteq S
  <2>1. /\ f[h] # Null => f[h] \in S
        /\ \A m \in S : g[m] # Null => g[m] \in S
    BY <1>4, ClosedHas
  <2>2. Closed(f, h, (S \cap R) \cup {h})
    <3>1. \A m \in (S \cap R) \cup {h} : f[m] # Null => f[m] \in (S \cap R) \cup {h}
      BY <1>1, <1>2, <2>1
    <3>2. QED
      BY <3>1, ClosedBy
  <2>3. (S \cap R) \cup {h} \in SUBSET Node
    BY <1>1
  <2>4. R \subseteq (S \cap R) \cup {h}
    BY <2>2, <2>3, ReachLeast DEF R
  <2>5. QED
    BY <2>4
<1>5. R \ {h} \in SUBSET Node
  BY <1>1
<1>6. Reach(g, f[h]) = R \ {h}
  BY <1>3, <1>4, <1>5, ReachIs
<1>7. QED
  BY <1>6 DEF R

(* The last node b of a list linked to the head of another.                *)
LEMMA ReachJoin ==
    ASSUME NEW f \in [Node -> Node \cup {Null}], NEW h \in Node \cup {Null},
           NEW k \in Node \cup {Null}, NEW b \in Reach(f, h), f[b] = Null,
           NEW g, g[b] = k, \A n \in Reach(f, h) \ {b} : g[n] = f[n],
           \A n \in Reach(f, k) : g[n] = f[n]
    PROVE  Reach(g, h) = Reach(f, h) \cup Reach(f, k)
<1> DEFINE R == Reach(f, h)
           Q == Reach(f, k)
<1>1. /\ R \in SUBSET Node /\ (h # Null => h \in R)
      /\ \A n \in R : f[n] # Null => f[n] \in R
  BY ReachClosed
<1>2. /\ Q \in SUBSET Node /\ (k # Null => k \in Q)
      /\ \A n \in Q : f[n] # Null => f[n] \in Q
  BY ReachClosed
<1> HIDE DEF R, Q
<1>3. /\ b \in R /\ (\A n \in R \ {b} : g[n] = f[n]) /\ \A n \in Q : g[n] = f[n]
  BY DEF R, Q
<1>4. Closed(g, h, R \cup Q)
  <2>1. \A n \in R \cup Q : g[n] # Null => g[n] \in R \cup Q
    BY <1>1, <1>2, <1>3
  <2>2. QED
    BY <1>1, <2>1, ClosedBy
<1>5. ASSUME NEW S \in SUBSET Node, Closed(g, h, S) PROVE R \cup Q \subseteq S
  <2>1. /\ h # Null => h \in S
        /\ \A n \in S : g[n] # Null => g[n] \in S
    BY <1>5, ClosedHas
  <2>2. Closed(f, h, S \cap R)
    <3>1. h # Null => h \in S \cap R
      BY <1>1, <2>1
    <3>2. \A n \in S \cap R : f[n] # Null => f[n] \in S \cap R
      BY <1>1, <1>3, <2>1
    <3>3. QED
      BY <3>1, <3>2, ClosedBy
  <2>3. R \subseteq S \cap R
    BY <1>1, <2>2, ReachLeast DEF R
  <2>4. k # Null => k \in S
    BY <1>3, <2>1, <2>3
  <2>5. Closed(f, k, S \cap Q)
    <3>1. \A n \in S \cap Q : f[n] # Null => f[n] \in S \cap Q
      BY <1>2, <1>3, <2>1
    <3>2. QED
      BY <1>2, <2>4, <3>1, ClosedBy
  <2>6. Q \subseteq S \cap Q
    BY <1>2, <2>5, ReachLeast DEF Q
  <2>7. QED
    BY <2>3, <2>6
<1>6. R \cup Q \in SUBSET Node
  BY <1>1, <1>2
<1>7. Reach(g, h) = R \cup Q
  BY <1>4, <1>5, <1>6, ReachIs
<1>8. QED
  BY <1>7 DEF R, Q
-----------------------------------------------------------------------------
(* The pools of nodes.                                                     *)
LEMMA LastOut ==
    ASSUME NEW S, NEW s \in Seq(S), s # <<>>, NoTwice(s)
    PROVE  /\ s[Len(s)] \in Values(s) /\ s[Len(s)] \in S
           /\ SubSeq(s, 1, Len(s) - 1) \in Seq(S)
           /\ NoTwice(SubSeq(s, 1, Len(s) - 1))
           /\ Values(SubSeq(s, 1, Len(s) - 1)) = Values(s) \ {s[Len(s)]}
<1>1. Len(s) \in Nat \ {0} /\ DOMAIN s = 1..Len(s)
  BY LenProperties, EmptySeq
<1>2. PICK r : r = SubSeq(s, 1, Len(s) - 1)
  OBVIOUS
<1>3. /\ r \in Seq(S) /\ Len(r) = Len(s) - 1 /\ DOMAIN r = 1..Len(s) - 1
      /\ \A i \in 1..Len(s) - 1 : r[i] = s[i]
  BY <1>1, <1>2, SubSeqProperties, LenProperties
<1>4. s[Len(s)] \in Values(s) /\ s[Len(s)] \in S
  BY <1>1 DEF Values
<1>5. NoTwice(r)
  BY <1>1, <1>3 DEF NoTwice
<1>6. Values(r) = Values(s) \ {s[Len(s)]}
  BY <1>1, <1>3 DEF NoTwice, Values
<1>7. QED
  BY <1>2, <1>3, <1>4, <1>5, <1>6

LEMMA PutIn ==
    ASSUME NEW S, NEW s \in Seq(S), NEW o \in S
    PROVE  /\ Append(s, o) \in Seq(S)
           /\ Values(Append(s, o)) = Values(s) \cup {o}
           /\ NoTwice(s) /\ o \notin Values(s) => NoTwice(Append(s, o))
<1>1. PICK r : r = Append(s, o)
  OBVIOUS
<1>2. /\ r \in Seq(S) /\ Len(s) \in Nat /\ DOMAIN s = 1..Len(s)
      /\ DOMAIN r = 1..Len(s) + 1 /\ r[Len(s) + 1] = o
      /\ \A i \in 1..Len(s) : r[i] = s[i]
  BY <1>1, AppendProperties, LenProperties
<1>3. Values(r) = Values(s) \cup {o}
  <2>1. Values(r) \subseteq Values(s) \cup {o}
    BY <1>2 DEF Values
  <2>2. Values(s) \subseteq Values(r)
    BY <1>2 DEF Values
  <2>3. o \in Values(r)
    BY <1>2 DEF Values
  <2>4. QED
    BY <2>1, <2>2, <2>3
<1>4. NoTwice(s) /\ o \notin Values(s) => NoTwice(r)
  <2> SUFFICES ASSUME NoTwice(s), o \notin Values(s) PROVE NoTwice(r)
    OBVIOUS
  <2>1. \A i \in 1..Len(s) : s[i] # o
    BY <1>2 DEF Values
  <2>2. QED
    BY <1>2, <2>1 DEF NoTwice
<1>5. QED
  BY <1>1, <1>2, <1>3, <1>4

(* getNode returns a node that is nowhere and has no links.                *)
LEMMA NewNodeIs ==
    ASSUME TypeOK, Shape, pushed < MaxPush, NEW n, n = NewNode("iInput")
    PROVE  /\ n \in Node \ Listed /\ prev[n] = Null /\ next[n] = Null
           /\ \E m \in 0..pushed + 1 : Used \cup {n} = 1..m
           /\ PoolLess("iInput") \in [List -> Seq(Node)]
           /\ NoTwice(PoolLess("iInput")["iInput"])
           /\ Values(PoolLess("iInput")["iInput"]) = Values(iNodePool["iInput"]) \ {n}
           /\ PoolLess("iInput")["iOutput"] = iNodePool["iOutput"]
           /\ n \notin Values(iNodePool["iOutput"])
<1>1. /\ "iInput" \in List /\ "iOutput" \in List
      /\ iNodePool \in [List -> Seq(Node)] /\ iNodePool["iInput"] \in Seq(Node)
      /\ pushed \in Nat /\ MaxPush \in Nat /\ Used \subseteq Node
  BY ConsumerAssumption DEF TypeOK, List, Used
<1>2. PICK m \in 0..pushed : Used = 1..m
  BY DEF Shape, Numbered
<1>3. CASE iNodePool["iInput"] = <<>>
  <2>1. n = m + 1
    <3>1. Cardinality(Used) = m
      BY <1>1, <1>2, FS_Interval
    <3>2. QED
      BY <1>3, <3>1 DEF NewNode
  <2>2. n \in Node /\ n \notin Used /\ Used \cup {n} = 1..(m + 1) /\ m + 1 \in 0..pushed + 1
    BY <1>1, <1>2, <2>1 DEF Node
  <2>3. PoolLess("iInput") = iNodePool /\ n \notin Values(iNodePool["iInput"])
    BY <1>1, <1>3, <2>2 DEF PoolLess, Shape, Places
  <2>4. n \notin Values(iNodePool["iOutput"])
    BY <1>1, <2>2 DEF Shape, Places
  <2>5. n \notin Listed /\ prev[n] = Null /\ next[n] = Null
    BY <2>2 DEF Shape, Places, Numbered
  <2>6. NoTwice(iNodePool["iInput"])
    BY DEF Shape, Places
  <2>7. QED
    BY <1>1, <2>2, <2>3, <2>4, <2>5, <2>6
<1>4. CASE iNodePool["iInput"] # <<>>
  <2>1. PICK s : s = iNodePool["iInput"]
    OBVIOUS
  <2>2. s \in Seq(Node) /\ s # <<>> /\ NoTwice(s) /\ n = s[Len(s)]
    BY <1>1, <1>4, <2>1 DEF Shape, Places, NewNode
  <2>3. PICK r : r = SubSeq(s, 1, Len(s) - 1)
    OBVIOUS
  <2>4. /\ n \in Values(s) /\ n \in Node /\ r \in Seq(Node) /\ NoTwice(r)
        /\ Values(r) = Values(s) \ {n}
    BY <2>2, <2>3, LastOut
  <2>5. PoolLess("iInput") = [iNodePool EXCEPT !["iInput"] = r]
    BY <1>4, <2>1, <2>3 DEF PoolLess
  <2>6. /\ PoolLess("iInput") \in [List -> Seq(Node)]
        /\ PoolLess("iInput")["iInput"] = r
        /\ PoolLess("iInput")["iOutput"] = iNodePool["iOutput"]
    BY <1>1, <2>4, <2>5
  <2>7. n \in Used \ Listed /\ prev[n] = Null /\ next[n] = Null
    BY <1>1, <2>1, <2>4 DEF Shape, Places
  <2>8. n \notin Values(iNodePool["iOutput"])
    BY <2>1, <2>4 DEF Shape, Places
  <2>9. Used \cup {n} = 1..m /\ m \in 0..pushed + 1
    BY <1>1, <1>2, <2>7
  <2>10. QED
    BY <2>1, <2>4, <2>6, <2>7, <2>8, <2>9
<1>5. QED
  BY <1>3, <1>4
-----------------------------------------------------------------------------
(* push_back.                                                              *)
LEMMA SetIs ==
    ASSUME NEW f \in [Node -> Node \cup {Null}], NEW n \in Node \cup {Null},
           NEW v \in Node \cup {Null}
    PROVE  /\ Set(f, n, v) \in [Node -> Node \cup {Null}]
           /\ n # Null => Set(f, n, v)[n] = v
           /\ \A m \in Node : m # n => Set(f, n, v)[m] = f[m]
BY DEF Set

LEMMA Linkage ==
    ASSUME TypeOK
    PROVE  /\ Linked("iInput") \subseteq Node /\ Linked("iOutput") \subseteq Node
           /\ \A l \in List : Linked(l) \subseteq Listed
           /\ \A l \in List : pHead[l] # Null => pHead[l] \in Linked(l)
           /\ \A l \in List : pHead[l] = Null => Linked(l) = {}
           /\ \A l \in List : \A n \in Linked(l) : prev[n] # Null => prev[n] \in Linked(l)
BY ReachClosed, ReachNothing DEF Linked, Listed, List, TypeOK

LEMMA PushKeeps ==
    ASSUME TypeOK, TakenOnce, Shape, Push
    PROVE  TypeOK' /\ Shape'
<1>1. PICK n : n = NewNode("iInput")
  OBVIOUS
<1>2. PICK h : h = pHead["iInput"]
  OBVIOUS
<1>3. /\ n \in Node \ Listed /\ prev[n] = Null /\ next[n] = Null
      /\ \E m \in 0..pushed + 1 : Used \cup {n} = 1..m
      /\ iNodePool' \in [List -> Seq(Node)] /\ NoTwice(iNodePool'["iInput"])
      /\ Values(iNodePool'["iInput"]) = Values(iNodePool["iInput"]) \ {n}
      /\ iNodePool'["iOutput"] = iNodePool["iOutput"]
      /\ n \notin Values(iNodePool["iOutput"])
  BY <1>1, NewNodeIs DEF Push
<1>4. /\ "iInput" \in List /\ "iOutput" \in List /\ n # Null
      /\ h \in Node \cup {Null} /\ n # h
      /\ h # Null => h \in Linked("iInput")
      /\ pushed \in Nat /\ MaxPush \in Nat /\ pushed + 1 \in 1..MaxPush
  <2>1. "iInput" \in List /\ "iOutput" \in List
    BY DEF List
  <2>2. pushed \in Nat /\ MaxPush \in Nat /\ pushed + 1 \in 1..MaxPush
    BY ConsumerAssumption DEF TypeOK, Push
  <2>3. h \in Node \cup {Null} /\ (h # Null => h \in Linked("iInput"))
    BY <1>2, <2>1, Linkage DEF TypeOK
  <2>4. QED
    BY <1>3, <2>1, <2>2, <2>3, NullIsNone DEF Listed
<1>5. /\ pushed' = pushed + 1 /\ usage' = usage /\ pc' = pc /\ taken' = taken
      /\ nullHead' = nullHead
      /\ object' = [object EXCEPT ![n] = pushed + 1]
      /\ next' = Set(next, h, n)
      /\ prev' = IF h = Null THEN prev ELSE [prev EXCEPT ![n] = h]
      /\ pHead' = [pHead EXCEPT !["iInput"] = n]
      /\ pFirst' = IF pFirst["iInput"] = Null
                   THEN [pFirst EXCEPT !["iInput"] = n] ELSE pFirst
  BY <1>1, <1>2 DEF Push
<1>6. /\ prev' \in [Node -> Node \cup {Null}] /\ prev'[n] = h
      /\ \A m \in Node : m # n => prev'[m] = prev[m]
  BY <1>3, <1>4, <1>5 DEF TypeOK
<1>7. /\ next' \in [Node -> Node \cup {Null}] /\ (h # Null => next'[h] = n)
      /\ \A m \in Node : m # h => next'[m] = next[m]
  <2>1. n \in Node \cup {Null} /\ h \in Node \cup {Null} /\ next \in [Node -> Node \cup {Null}]
    BY <1>3, <1>4 DEF TypeOK
  <2>2. next' = Set(next, h, n)
    BY <1>5
  <2>3. QED
    BY <2>1, <2>2 DEF Set
<1>8. /\ object' \in [Node -> 0..MaxPush] /\ object'[n] = pushed + 1
      /\ \A m \in Node : m # n => object'[m] = object[m]
  BY <1>3, <1>4, <1>5 DEF TypeOK
<1>9. /\ pHead' \in [List -> Node \cup {Null}] /\ pHead'["iInput"] = n
      /\ pHead'["iOutput"] = pHead["iOutput"]
  BY <1>3, <1>4, <1>5 DEF TypeOK
<1>10. /\ pFirst' \in [List -> Node \cup {Null}]
       /\ pFirst'["iInput"] = IF pFirst["iInput"] = Null THEN n ELSE pFirst["iInput"]
       /\ pFirst'["iOutput"] = pFirst["iOutput"]
  BY <1>3, <1>4, <1>5 DEF TypeOK
<1>11. TypeOK'
  BY <1>3, <1>4, <1>5, <1>6, <1>7, <1>8, <1>9, <1>10 DEF TypeOK
<1>12. Linked("iInput")' = Linked("iInput") \cup {n} /\ Linked("iOutput")' = Linked("iOutput")
  <2>1. prev \in [Node -> Node \cup {Null}] /\ pHead["iOutput"] \in Node \cup {Null}
    BY <1>4 DEF TypeOK
  <2>2. /\ \A m \in Reach(prev, h) : prev'[m] = prev[m]
        /\ \A m \in Reach(prev, pHead["iOutput"]) : prev'[m] = prev[m]
    BY <1>2, <1>3, <1>6, Linkage DEF Linked, Listed
  <2>3. Reach(prev', n) = Reach(prev, h) \cup {n}
    <3>1. n \in Node /\ h \in Node \cup {Null} /\ prev'[n] = h
      BY <1>3, <1>4, <1>6
    <3>2. QED
      BY <2>1, <2>2, <3>1, ReachPush
  <2>4. Reach(prev', pHead["iOutput"]) = Reach(prev, pHead["iOutput"])
    BY <2>1, <2>2, ReachSame
  <2>5. QED
    BY <1>2, <1>9, <2>3, <2>4 DEF Linked
<1>13. Used' = Used \cup {n} /\ Listed' = Listed \cup {n}
  <2>1. Used' = Used \cup {n}
    BY <1>3, <1>4, <1>8 DEF Used
  <2>2. QED
    BY <1>12, <2>1 DEF Listed
<1>14. Numbered'
  <2>1. \A m \in Node \ Used' : prev'[m] = Null /\ next'[m] = Null
    <3>1. h # Null => h \in Used
      BY <1>4, Linkage DEF Shape, Places, Listed
    <3>2. QED
      BY <1>6, <1>7, <1>13, <3>1, NullIsNone DEF Shape, Numbered
  <2>2. QED
    BY <1>3, <1>5, <1>13, <2>1 DEF Numbered
<1>15. Places'
  <2>1. Listed' \subseteq Used' /\ Linked("iInput")' \cap Linked("iOutput")' = {}
    BY <1>3, <1>12, <1>13 DEF Shape, Places, Listed
  <2>2. Values(iNodePool'["iInput"]) \cap Values(iNodePool'["iOutput"]) = {}
    BY <1>3 DEF Shape, Places
  <2>3. ASSUME NEW l \in List, NEW m \in Values(iNodePool'[l])
        PROVE  m \in Used' \ Listed' /\ prev'[m] = Null /\ next'[m] = Null
    <3>1. m \in Values(iNodePool[l]) /\ m # n
      BY <1>3, <2>3 DEF List
    <3>2. m \in Used \ Listed /\ prev[m] = Null /\ next[m] = Null /\ m \in Node
      BY <3>1 DEF Shape, Places, Used
    <3>3. m # h
      BY <1>4, <3>2, NullIsNone DEF Listed
    <3>4. QED
      BY <1>6, <1>7, <1>13, <3>1, <3>2, <3>3
  <2>4. (\A l \in List : \A m \in Values(iNodePool[l]) :
            m \in Used \ Listed /\ prev[m] = Null /\ next[m] = Null)'
    BY <2>3 DEF Values
  <2>5. QED
    BY <1>3, <2>1, <2>2, <2>4 DEF Places, Values, NoTwice
<1>16. Doubly'
  <2>1. next'[n] = Null /\ (pHead["iOutput"] # Null => next'[pHead["iOutput"]] = Null)
    <3>1. pHead["iOutput"] # Null => pHead["iOutput"] \in Linked("iOutput")
      BY <1>4, Linkage
    <3>2. pHead["iOutput"] # Null => pHead["iOutput"] # h /\ pHead["iOutput"] \in Node
      BY <1>4, <3>1, Linkage DEF Shape, Places
    <3>3. pHead["iOutput"] # Null => next[pHead["iOutput"]] = Null
      BY <1>4 DEF Shape, Doubly
    <3>4. QED
      BY <1>3, <1>4, <1>7, <3>2, <3>3
  <2>2. ASSUME NEW m \in Linked("iInput"), prev'[m] # Null PROVE next'[prev'[m]] = m
    <3>1. m \in Node /\ m # n /\ prev'[m] = prev[m]
      BY <1>3, <1>6, Linkage DEF Listed
    <3>2. prev[m] \in Node /\ next[prev[m]] = m
      BY <1>4, <2>2, <3>1, Linkage DEF Shape, Doubly
    <3>3. prev[m] # h
      BY <1>2, <1>4, <3>1, <3>2, NullIsNone DEF Shape, Doubly
    <3>4. QED
      BY <1>7, <3>1, <3>2, <3>3
  <2>3. ASSUME NEW m \in Linked("iOutput"), prev'[m] # Null PROVE next'[prev'[m]] = m
    <3>1. m \in Node /\ m # n /\ prev'[m] = prev[m]
      BY <1>3, <1>6, Linkage DEF Listed
    <3>2. prev[m] \in Linked("iOutput") /\ prev[m] \in Node /\ next[prev[m]] = m
      BY <1>4, <2>3, <3>1, Linkage DEF Shape, Doubly
    <3>3. prev[m] # h
      BY <1>4, <3>2, NullIsNone DEF Shape, Places
    <3>4. QED
      BY <1>7, <3>1, <3>2, <3>3
  <2>4. prev'[n] # Null => next'[prev'[n]] = n
    BY <1>6, <1>7
  <2>5. \A l \in List : l = "iInput" \/ l = "iOutput"
    BY DEF List
  <2>6. QED
    BY <1>9, <1>12, <2>1, <2>2, <2>3, <2>4, <2>5 DEF Doubly
<1>17. Objects'
  <2>1. \A m \in Listed : object'[m] = object[m] /\ object'[m] \in 1..pushed \ Values(taken)
    BY <1>3, <1>8, Linkage DEF Shape, Objects, Listed
  <2>2. \A m, k \in Listed : object'[m] = object'[k] => m = k
    BY <2>1 DEF Shape, Objects
  <2>3. Values(taken) \subseteq 1..pushed
    BY DEF Shape, Objects
  <2>4. object'[n] \in 1..pushed' \ Values(taken) /\ \A m \in Listed : object'[m] # object'[n]
    BY <1>4, <1>5, <1>8, <2>1, <2>3
  <2>5. 1..pushed \subseteq 1..pushed'
    BY <1>4, <1>5
  <2>6. \A m, k \in Listed' : object'[m] = object'[k] => m = k
    BY <1>13, <2>2, <2>4
  <2>7. \A m \in Listed' : object'[m] \in 1..pushed' \ Values(taken)
    BY <1>13, <2>1, <2>4, <2>5
  <2>8. QED
    BY <1>5, <2>3, <2>5, <2>6, <2>7 DEF Objects, Values
<1>18. First'
  <2> SUFFICES ASSUME usage # "pool"
               PROVE  /\ pFirst'["iInput"] # Null /\ pHead'["iInput"] # Null
                      /\ pFirst'["iInput"] \in Linked("iInput")'
                      /\ prev'[pFirst'["iInput"]] = Null
    BY <1>5, <1>9, <1>10 DEF First, Shape
  <2>1. CASE pFirst["iInput"] = Null
    <3>1. h = Null
      BY <1>2, <2>1 DEF Shape, First
    <3>2. QED
      BY <1>4, <1>6, <1>9, <1>10, <1>12, <2>1, <3>1
  <2>2. CASE pFirst["iInput"] # Null
    <3>1. pFirst["iInput"] \in Linked("iInput") /\ prev[pFirst["iInput"]] = Null
      BY <2>2 DEF Shape, First
    <3>2. pFirst["iInput"] # n /\ pFirst["iInput"] \in Node
      BY <1>3, <3>1, Linkage DEF Listed
    <3>3. QED
      BY <1>4, <1>6, <1>9, <1>10, <1>12, <2>2, <3>1, <3>2
  <2>3. QED
    BY <2>1, <2>2
<1>19. Threads'
  BY <1>4, <1>5, <1>9, <1>10 DEF Shape, Threads, Consumers
<1>20. NothingForgotten'
  <2> SUFFICES ASSUME usage # "queue", ~nullHead
               PROVE  1..pushed' = Values(taken) \cup Held("iInput")' \cup Held("iOutput")'
    BY <1>5 DEF NothingForgotten, Values
  <2>1. 1..pushed = Values(taken) \cup Held("iInput") \cup Held("iOutput")
    BY DEF Shape, NothingForgotten
  <2>2. /\ \A m \in Linked("iInput") : object'[m] = object[m]
        /\ \A m \in Linked("iOutput") : object'[m] = object[m]
        /\ object'[n] = pushed + 1
    BY <1>3, <1>8, Linkage DEF Listed
  <2>3. /\ Held("iInput")' = Held("iInput") \cup {pushed + 1}
        /\ Held("iOutput")' = Held("iOutput")
    BY <1>12, <2>2 DEF Held
  <2>4. 1..pushed' = 1..pushed \cup {pushed + 1}
    BY <1>4, <1>5
  <2>5. QED
    BY <2>1, <2>3, <2>4
<1>21. QED
  BY <1>11, <1>14, <1>15, <1>16, <1>17, <1>18, <1>19, <1>20 DEF Shape
-----------------------------------------------------------------------------
(* The tests made without the lock.                                        *)
LEMMA SameHeap ==
    ASSUME TypeOK, Shape,
           UNCHANGED <<usage, heap, lists, pushed, taken, nullHead>>
    PROVE  Numbered' /\ Places' /\ Doubly' /\ Objects' /\ First' /\ NothingForgotten'
<1>1. /\ usage' = usage /\ prev' = prev /\ next' = next /\ object' = object
      /\ pFirst' = pFirst /\ pHead' = pHead /\ iNodePool' = iNodePool
      /\ pushed' = pushed /\ taken' = taken /\ nullHead' = nullHead
  BY DEF heap, lists
<1>2. /\ Linked("iInput")' = Linked("iInput") /\ Linked("iOutput")' = Linked("iOutput")
      /\ \A l \in List : Linked(l)' = Linked(l)
  BY <1>1 DEF Linked
<1>3. Listed' = Listed /\ Used' = Used
  BY <1>1, <1>2 DEF Listed, Used
<1>4. Numbered'
  BY <1>1, <1>3 DEF Shape, Numbered
<1>5. Places'
  BY <1>1, <1>2, <1>3 DEF Shape, Places, Values, NoTwice
<1>6. Doubly'
  BY <1>1, <1>2 DEF Shape, Doubly
<1>7. Objects'
  BY <1>1, <1>3 DEF Shape, Objects, Values
<1>8. First'
  BY <1>1, <1>2 DEF Shape, First
<1>9. NothingForgotten'
  BY <1>1, <1>2 DEF Shape, NothingForgotten, Values, Held
<1>10. QED
  BY <1>4, <1>5, <1>6, <1>7, <1>8, <1>9

LEMMA LookKeeps ==
    ASSUME TypeOK, TakenOnce, Shape, NEW c \in Consumer, Look(c)
    PROVE  TypeOK' /\ Shape'
<1>1. UNCHANGED <<usage, heap, lists, pushed, taken, nullHead>>
  BY DEF Look
<1>2. TypeOK'
  BY <1>1 DEF Look, TypeOK, heap, lists
<1>3. Threads'
  BY <1>1 DEF Look, Shape, Threads, Consumers, TypeOK, heap, lists
<1>4. QED
  BY <1>1, <1>2, <1>3, SameHeap DEF Shape

LEMMA TestHeadKeeps ==
    ASSUME TypeOK, TakenOnce, Shape, NEW c \in Consumer, TestHead(c)
    PROVE  TypeOK' /\ Shape'
<1>1. UNCHANGED <<usage, heap, lists, pushed, taken, nullHead>>
  BY DEF TestHead
<1>2. TypeOK'
  BY <1>1 DEF TestHead, TypeOK, heap, lists
<1>3. Threads'
  BY <1>1 DEF TestHead, Shape, Threads, Consumers, TypeOK, heap, lists
<1>4. QED
  BY <1>1, <1>2, <1>3, SameHeap DEF Shape

(* A value taken was in a list: it was not taken before.                   *)
LEMMA TakenOne ==
    ASSUME TypeOK, TakenOnce, Objects, NEW n \in Listed, taken' = Append(taken, object[n])
    PROVE  /\ taken' \in Seq(1..MaxPush) /\ TakenOnce'
           /\ Values(taken') = Values(taken) \cup {object[n]}
<1>1. object[n] \in 1..MaxPush /\ object[n] \notin Values(taken)
  BY ConsumerAssumption DEF Objects, TypeOK
<1>2. taken \in Seq(1..MaxPush) /\ NoTwice(taken)
  BY DEF TypeOK, TakenOnce, NoTwice
<1>3. /\ taken' \in Seq(1..MaxPush) /\ NoTwice(taken')
      /\ Values(taken') = Values(taken) \cup {object[n]}
  <2>1. PICK v : v = object[n]
    OBVIOUS
  <2>2. PICK S : S = 1..MaxPush
    OBVIOUS
  <2>3. v \in S /\ taken \in Seq(S) /\ NoTwice(taken) /\ v \notin Values(taken)
    BY <1>1, <1>2, <2>1, <2>2
  <2>4. /\ Append(taken, v) \in Seq(S) /\ NoTwice(Append(taken, v))
        /\ Values(Append(taken, v)) = Values(taken) \cup {v}
    BY <2>3, PutIn
  <2>5. QED
    BY <2>1, <2>2, <2>4
<1>4. QED
  BY <1>3 DEF TakenOnce, NoTwice

(* One consumer alone can be moving a list.                                *)
LEMMA OneMover ==
    ASSUME TypeOK, Threads, NEW c \in Consumer, pc[c] = "moving",
           NEW d \in Consumer, d # c
    PROVE  pc[d] = "idle"
BY DEF Threads, Consumers
-----------------------------------------------------------------------------
(* takeLast.                                                               *)
LEMMA TakeKeeps ==
    ASSUME TypeOK, TakenOnce, Shape, NEW c \in Consumer, Take(c), pHead[Source] # Null
    PROVE  TypeOK' /\ TakenOnce' /\ Shape'
<1>1. PICK l \in List : l = Source
  BY DEF Source, List
<1>2. PICK h : h = pHead[l]
  OBVIOUS
<1>3. PICK q : q = prev[h]
  OBVIOUS
<1>4. /\ usage # "queue" /\ (l = "iInput" => usage = "pool") /\ pc[c] = "locking"
      /\ l = "iInput" \/ l = "iOutput"
  BY <1>1 DEF Take, Shape, Threads, Source, List
<1>5. /\ prev \in [Node -> Node \cup {Null}] /\ next \in [Node -> Node \cup {Null}]
      /\ h \in Node /\ h # Null /\ h \in Linked(l) /\ h \in Listed /\ next[h] = Null
      /\ q \in Node \cup {Null} /\ q # h /\ (q # Null => q \in Linked(l) /\ next[q] = h)
  <2>1. /\ prev \in [Node -> Node \cup {Null}] /\ next \in [Node -> Node \cup {Null}]
        /\ h \in Node /\ h # Null /\ h \in Linked(l) /\ h \in Listed /\ next[h] = Null
    BY <1>1, <1>2, Linkage DEF TypeOK, Shape, Doubly
  <2>2. q \in Node \cup {Null} /\ (q # Null => q \in Linked(l) /\ next[q] = h)
    BY <1>3, <2>1, Linkage DEF Shape, Doubly
  <2>3. QED
    BY <2>1, <2>2, NullIsNone
<1>6. \A m \in Linked(l) : prev[m] # h
  <2>1. Linked(l) \subseteq Node /\ Null \notin Node
    BY Linkage, NullIsNone DEF Listed
  <2>2. QED
    BY <1>5, <2>1 DEF Shape, Doubly
<1>7. /\ usage' = usage /\ object' = object /\ pFirst' = pFirst /\ pushed' = pushed
      /\ nullHead' = nullHead /\ taken' = Append(taken, object[h])
      /\ pHead' = [pHead EXCEPT ![l] = q]
      /\ next' = [Set(next, q, Null) EXCEPT ![h] = Null] /\ prev' = [prev EXCEPT ![h] = Null]
      /\ iNodePool' = [iNodePool EXCEPT ![l] = Append(@, h)]
      /\ pc' = [pc EXCEPT ![c] = "idle"]
  BY <1>1, <1>2, <1>3, <1>5 DEF Take, Exclude, Recycle, Set
<1>8. /\ prev' \in [Node -> Node \cup {Null}] /\ prev'[h] = Null
      /\ \A m \in Node : m # h => prev'[m] = prev[m]
  BY <1>5, <1>7
<1>9. /\ next' \in [Node -> Node \cup {Null}] /\ next'[h] = Null
      /\ q # Null => next'[q] = Null
      /\ \A m \in Node : m # h /\ m # q => next'[m] = next[m]
  BY <1>5, <1>7 DEF Set
<1>10. /\ pHead' \in [List -> Node \cup {Null}] /\ pHead'[l] = q
       /\ \A k \in List : k # l => pHead'[k] = pHead[k]
  BY <1>5, <1>7 DEF TypeOK
<1>11. /\ taken' \in Seq(1..MaxPush) /\ TakenOnce'
       /\ Values(taken') = Values(taken) \cup {object[h]}
  BY <1>5, <1>7, TakenOne DEF Shape
<1>12. /\ iNodePool' \in [List -> Seq(Node)]
       /\ Values(iNodePool'[l]) = Values(iNodePool[l]) \cup {h}
       /\ NoTwice(iNodePool[l]) => NoTwice(iNodePool'[l])
       /\ \A k \in List : k # l => iNodePool'[k] = iNodePool[k]
  <2>1. PICK s : s = iNodePool[l]
    OBVIOUS
  <2>2. s \in Seq(Node) /\ h \in Node /\ h \notin Values(s)
    BY <1>5, <2>1 DEF TypeOK, Shape, Places
  <2>3. /\ Append(s, h) \in Seq(Node) /\ Values(Append(s, h)) = Values(s) \cup {h}
        /\ NoTwice(s) => NoTwice(Append(s, h))
    BY <2>2, PutIn
  <2>4. iNodePool' = [iNodePool EXCEPT ![l] = Append(s, h)]
    BY <1>7, <2>1
  <2>5. QED
    BY <2>1, <2>3, <2>4 DEF TypeOK
<1>13. TypeOK'
  BY <1>7, <1>8, <1>9, <1>10, <1>11, <1>12 DEF TypeOK
<1>14. Linked(l)' = Linked(l) \ {h} /\ \A k \in List : k # l => Linked(k)' = Linked(k)
  <2>1. \A k \in List : pHead[k] \in Node \cup {Null}
    BY DEF TypeOK
  <2>2. /\ \A m \in Reach(prev, h) \ {h} : prev'[m] = prev[m]
        /\ \A m \in Reach(prev, h) : prev[m] # h
    BY <1>2, <1>5, <1>6, <1>8, Linkage, ReachClosed DEF Linked
  <2>3. Reach(prev', q) = Reach(prev, h) \ {h}
    BY <1>3, <1>5, <2>2, ReachPop
  <2>4. ASSUME NEW k \in List, k # l PROVE Reach(prev', pHead[k]) = Reach(prev, pHead[k])
    <3>1. h \notin Reach(prev, pHead[k])
      BY <1>4, <1>5, <2>4 DEF Shape, Places, List, Linked
    <3>2. \A m \in Reach(prev, pHead[k]) : prev'[m] = prev[m]
      BY <1>5, <1>8, <2>1, <3>1, ReachClosed
    <3>3. QED
      BY <1>5, <2>1, <3>2, ReachSame
  <2>5. QED
    BY <1>2, <1>10, <2>3, <2>4 DEF Linked
<1>15. Listed' = Listed \ {h} /\ Used' = Used /\ \A k \in List : Linked(k)' \subseteq Linked(k)
  <2>1. \A k \in List : k # l => h \notin Linked(k)
    BY <1>4, <1>5 DEF Shape, Places, List
  <2>2. Listed' = Listed \ {h}
    BY <1>4, <1>14, <2>1 DEF Listed, List
  <2>3. QED
    BY <1>7, <1>14, <2>2 DEF Used
<1>16. Numbered'
  <2>1. h \in Used /\ (q # Null => q \in Used)
    BY <1>5, Linkage DEF Shape, Places
  <2>2. \A m \in Node \ Used : prev'[m] = Null /\ next'[m] = Null
    BY <1>8, <1>9, <2>1, NullIsNone DEF Shape, Numbered
  <2>3. QED
    BY <1>7, <1>15, <2>2 DEF Shape, Numbered
<1>17. Places'
  <2>1. Listed' \subseteq Used' /\ Linked("iInput")' \cap Linked("iOutput")' = {}
    BY <1>15 DEF Shape, Places, List
  <2>2. \A k \in List : h \notin Values(iNodePool[k])
    BY <1>5 DEF Shape, Places
  <2>3. /\ Values(iNodePool'["iInput"]) \cap Values(iNodePool'["iOutput"]) = {}
        /\ NoTwice(iNodePool'["iInput"])
    BY <1>4, <1>12, <2>2 DEF Shape, Places, List
  <2>4. ASSUME NEW k \in List, NEW m \in Values(iNodePool'[k])
        PROVE  m \in Used' \ Listed' /\ prev'[m] = Null /\ next'[m] = Null
    <3>1. CASE m = h
      BY <1>5, <1>8, <1>9, <1>15, <3>1 DEF Shape, Places
    <3>2. CASE m # h
      <4>1. m \in Values(iNodePool[k])
        BY <1>12, <2>4, <3>2
      <4>2. m \in Used \ Listed /\ prev[m] = Null /\ next[m] = Null /\ m \in Node
        BY <4>1 DEF Shape, Places, Used
      <4>3. m # q
        BY <1>5, <4>2, Linkage, NullIsNone
      <4>4. QED
        BY <1>8, <1>9, <1>15, <3>2, <4>2, <4>3
    <3>3. QED
      BY <3>1, <3>2
  <2>5. (\A k \in List : \A m \in Values(iNodePool[k]) :
            m \in Used \ Listed /\ prev[m] = Null /\ next[m] = Null)'
    BY <2>4 DEF Values
  <2>6. QED
    BY <2>1, <2>3, <2>5 DEF Places, Values, NoTwice
<1>18. Doubly'
  <2>1. ASSUME NEW k \in List, pHead'[k] # Null PROVE next'[pHead'[k]] = Null
    <3>1. CASE k = l
      BY <1>9, <1>10, <2>1, <3>1
    <3>2. CASE k # l
      <4>1. pHead[k] \in Linked(k) /\ next[pHead[k]] = Null /\ pHead[k] \in Node
        BY <1>10, <2>1, <3>2, Linkage DEF Shape, Doubly, TypeOK
      <4>2. pHead[k] # h /\ pHead[k] # q
        BY <1>4, <1>5, <3>2, <4>1, NullIsNone DEF Shape, Places, List
      <4>3. QED
        BY <1>9, <1>10, <3>2, <4>1, <4>2
    <3>3. QED
      BY <3>1, <3>2
  <2>2. ASSUME NEW k \in List, NEW m \in Linked(k)', prev'[m] # Null
        PROVE  next'[prev'[m]] = m
    <3>1. m \in Linked(k) /\ m # h /\ m \in Node
      BY <1>4, <1>5, <1>14, <2>2, Linkage DEF Shape, Places, List
    <3>2. prev'[m] = prev[m] /\ prev[m] \in Node /\ prev[m] \in Linked(k) /\ next[prev[m]] = m
      BY <1>5, <1>8, <2>2, <3>1, Linkage DEF Shape, Doubly
    <3>3. prev[m] # h /\ prev[m] # q
      BY <1>5, <3>1, <3>2, NullIsNone
    <3>4. QED
      BY <1>9, <3>2, <3>3
  <2>3. QED
    BY <2>1, <2>2 DEF Doubly
<1>19. Objects'
  <2>1. \A m \in Listed : object[m] = object[h] => m = h
    BY <1>5 DEF Shape, Objects
  <2>2. object[h] \in 1..pushed
    BY <1>5 DEF Shape, Objects
  <2>3. \A m \in Listed' : object[m] \in 1..pushed \ Values(taken')
    BY <1>11, <1>15, <2>1 DEF Shape, Objects
  <2>4. Values(taken') \subseteq 1..pushed
    BY <1>11, <2>2 DEF Shape, Objects
  <2>5. \A m, k \in Listed' : object[m] = object[k] => m = k
    BY <1>15 DEF Shape, Objects
  <2>6. QED
    BY <1>7, <2>3, <2>4, <2>5 DEF Objects, Values
<1>20. First'
  <2>1. CASE l = "iInput"
    BY <1>4, <1>7, <1>10, <2>1 DEF Shape, First, List
  <2>2. CASE l = "iOutput"
    <3>1. /\ pHead'["iInput"] = pHead["iInput"] /\ Linked("iInput")' = Linked("iInput")
          /\ h \notin Linked("iInput")
      BY <1>5, <1>10, <1>14, <2>2 DEF Shape, Places, List
    <3>2. pFirst["iOutput"] # Null
      BY <1>2, <1>5, <2>2 DEF Shape, First
    <3>3. pFirst["iInput"] \in Linked("iInput") => prev'[pFirst["iInput"]] = prev[pFirst["iInput"]]
      BY <1>8, <3>1, Linkage
    <3>4. QED
      BY <1>7, <3>1, <3>2, <3>3 DEF Shape, First
  <2>3. QED
    BY <1>4, <2>1, <2>2
<1>21. Threads'
  <2>1. usage # "events" => pHead'["iOutput"] = Null
    BY <1>1, <1>2, <1>4, <1>5, <1>10 DEF Shape, Threads, Source, List
  <2>2. QED
    BY <1>7, <2>1 DEF Shape, Threads, Consumers, TypeOK
<1>22. NothingForgotten'
  <2> SUFFICES ASSUME ~nullHead
               PROVE  1..pushed = Values(taken') \cup Held("iInput")' \cup Held("iOutput")'
    BY <1>7 DEF NothingForgotten, Values
  <2>1. 1..pushed = Values(taken) \cup Held("iInput") \cup Held("iOutput")
    BY <1>4 DEF Shape, NothingForgotten
  <2>2. \A k \in List : k # l => Held(k)' = Held(k)
    BY <1>7, <1>14 DEF Held
  <2>3. Held(l)' \cup {object[h]} = Held(l)
    BY <1>5, <1>7, <1>14 DEF Held
  <2>4. QED
    BY <1>4, <1>11, <2>1, <2>2, <2>3 DEF List
<1>23. QED
  BY <1>11, <1>13, <1>16, <1>17, <1>18, <1>19, <1>20, <1>21, <1>22 DEF Shape
-----------------------------------------------------------------------------
(* moveTo(array).                                                          *)
LEMMA MoveToArrayKeeps ==
    ASSUME TypeOK, TakenOnce, Shape, NEW c \in Consumer, MoveToArray(c)
    PROVE  TypeOK' /\ TakenOnce' /\ Shape'
<1>1. PICK f : f = pFirst["iInput"]
  OBVIOUS
<1>2. PICK g : g = next[f]
  OBVIOUS
<1>3. /\ "iInput" \in List /\ "iOutput" \in List /\ usage = "queue" /\ pc[c] = "moving"
      /\ pHead["iOutput"] = Null /\ Linked("iOutput") = {}
  BY Linkage DEF MoveToArray, Shape, Threads, List
<1>4. /\ prev \in [Node -> Node \cup {Null}] /\ next \in [Node -> Node \cup {Null}]
      /\ f \in Node /\ f # Null /\ f \in Listed /\ prev[f] = Null
      /\ g \in Node \cup {Null}
  <2>1. f # Null /\ f \in Linked("iInput") /\ prev[f] = Null
    BY <1>1, <1>3 DEF Shape, Threads, First
  <2>2. QED
    BY <1>2, <1>3, <2>1, Linkage DEF TypeOK, Listed
<1>5. /\ usage' = usage /\ object' = object /\ pushed' = pushed
      /\ nullHead' = nullHead /\ taken' = Append(taken, object[f])
      /\ pFirst' = [pFirst EXCEPT !["iInput"] = Null]
      /\ pHead' = [pHead EXCEPT !["iInput"] = Null]
      /\ next' = [next EXCEPT ![f] = Null] /\ prev' = [Set(prev, g, Null) EXCEPT ![f] = Null]
      /\ iNodePool' = [iNodePool EXCEPT !["iInput"] = Append(@, f)]
      /\ pc' = [pc EXCEPT ![c] = "idle"]
  BY <1>1, <1>2, <1>4 DEF MoveToArray, Exclude, Recycle, Set
<1>6. /\ next' \in [Node -> Node \cup {Null}] /\ next'[f] = Null
      /\ \A m \in Node : next'[m] = next[m] \/ next'[m] = Null
  BY <1>4, <1>5
<1>7. /\ prev' \in [Node -> Node \cup {Null}] /\ prev'[f] = Null
      /\ \A m \in Node : prev'[m] = prev[m] \/ prev'[m] = Null
  BY <1>4, <1>5 DEF Set
<1>8. /\ pHead' \in [List -> Node \cup {Null}] /\ pHead'["iInput"] = Null
      /\ pHead'["iOutput"] = Null
      /\ pFirst' \in [List -> Node \cup {Null}] /\ pFirst'["iInput"] = Null
  BY <1>3, <1>5 DEF TypeOK
<1>9. /\ taken' \in Seq(1..MaxPush) /\ TakenOnce'
      /\ Values(taken') = Values(taken) \cup {object[f]}
  BY <1>4, <1>5, TakenOne DEF Shape
<1>10. /\ iNodePool' \in [List -> Seq(Node)]
       /\ Values(iNodePool'["iInput"]) = Values(iNodePool["iInput"]) \cup {f}
       /\ NoTwice(iNodePool'["iInput"])
       /\ iNodePool'["iOutput"] = iNodePool["iOutput"]
  <2>1. PICK s : s = iNodePool["iInput"]
    OBVIOUS
  <2>2. s \in Seq(Node) /\ f \in Node /\ f \notin Values(s) /\ NoTwice(s)
    BY <1>3, <1>4, <2>1 DEF TypeOK, Shape, Places
  <2>3. /\ Append(s, f) \in Seq(Node) /\ Values(Append(s, f)) = Values(s) \cup {f}
        /\ NoTwice(Append(s, f))
    BY <2>2, PutIn
  <2>4. iNodePool' = [iNodePool EXCEPT !["iInput"] = Append(s, f)]
    BY <1>5, <2>1
  <2>5. QED
    BY <1>3, <2>1, <2>3, <2>4 DEF TypeOK
<1>11. TypeOK'
  BY <1>5, <1>6, <1>7, <1>8, <1>9, <1>10 DEF TypeOK
<1>12. /\ \A l \in List : Linked(l)' = {} /\ pHead'[l] = Null
       /\ Listed' = {} /\ Used' = Used
  <2>1. Linked("iInput")' = {} /\ Linked("iOutput")' = {}
    BY <1>8, ReachNothing DEF Linked
  <2>2. Used' = Used
    BY <1>5 DEF Used
  <2>3. QED
    BY <1>8, <2>1, <2>2 DEF Listed, List
<1>13. Numbered'
  BY <1>5, <1>6, <1>7, <1>12 DEF Shape, Numbered
<1>14. Places'
  <2>1. Listed' \subseteq Used' /\ Linked("iInput")' \cap Linked("iOutput")' = {}
    BY <1>3, <1>12
  <2>2. Values(iNodePool'["iInput"]) \cap Values(iNodePool'["iOutput"]) = {}
    BY <1>3, <1>4, <1>10 DEF Shape, Places
  <2>3. ASSUME NEW l \in List, NEW m \in Values(iNodePool'[l])
        PROVE  m \in Used' \ Listed' /\ prev'[m] = Null /\ next'[m] = Null
    <3>1. CASE m = f
      BY <1>4, <1>6, <1>7, <1>12, <3>1 DEF Shape, Places
    <3>2. CASE m # f
      <4>1. m \in Values(iNodePool[l])
        BY <1>10, <2>3, <3>2 DEF List
      <4>2. m \in Used /\ prev[m] = Null /\ next[m] = Null /\ m \in Node
        BY <4>1 DEF Shape, Places, Used
      <4>3. QED
        BY <1>6, <1>7, <1>12, <4>2
    <3>3. QED
      BY <3>1, <3>2
  <2>4. (\A l \in List : \A m \in Values(iNodePool[l]) :
            m \in Used \ Listed /\ prev[m] = Null /\ next[m] = Null)'
    BY <2>3 DEF Values
  <2>5. QED
    BY <1>10, <2>1, <2>2, <2>4 DEF Places, Values, NoTwice
<1>15. Doubly' /\ First'
  BY <1>3, <1>8, <1>12 DEF Doubly, First
<1>16. Objects'
  <2>1. object[f] \in 1..pushed /\ Values(taken) \subseteq 1..pushed
    BY <1>4 DEF Shape, Objects
  <2>2. Values(taken') \subseteq 1..pushed
    BY <1>9, <2>1
  <2>3. QED
    BY <1>5, <1>12, <2>2 DEF Objects, Values
<1>17. Threads'
  <2>1. \A d \in Consumer : pc'[d] = "idle"
    BY <1>3, <1>5, OneMover DEF TypeOK, Shape
  <2>2. QED
    BY <1>5, <1>8, <2>1 DEF Threads
<1>18. NothingForgotten'
  BY <1>3, <1>5 DEF NothingForgotten
<1>19. QED
  BY <1>9, <1>11, <1>13, <1>14, <1>15, <1>16, <1>17, <1>18 DEF Shape
-----------------------------------------------------------------------------
(* moveTo(list).                                                           *)
LEMMA MoveToListType ==
    ASSUME TypeOK, Shape, NEW c \in Consumer, MoveToList(c)
    PROVE  TypeOK'
<1>1. PICK f : f = pFirst["iInput"]
  OBVIOUS
<1>2. PICK h : h = pHead["iOutput"]
  OBVIOUS
<1>3. f \in Node \cup {Null} /\ h \in Node \cup {Null} /\ "iInput" \in List /\ "iOutput" \in List
  BY <1>1, <1>2 DEF TypeOK, List
<1>4. /\ UNCHANGED <<usage, object, iNodePool, pushed, taken>>
      /\ nullHead' \in BOOLEAN
      /\ next' = next \/ next' = Set(next, h, f)
      /\ prev' = prev \/ prev' = [prev EXCEPT ![f] = h]
      /\ \/ pFirst' = [pFirst EXCEPT !["iOutput"] = f, !["iInput"] = Null]
         \/ pFirst' = [pFirst EXCEPT !["iInput"] = Null]
      /\ pHead' = [pHead EXCEPT !["iOutput"] = pHead["iInput"], !["iInput"] = Null]
      /\ pc' = [pc EXCEPT ![c] = "taking"]
  BY <1>1, <1>2 DEF MoveToList
<1>5. next' \in [Node -> Node \cup {Null}]
  BY <1>3, <1>4 DEF TypeOK, Set
<1>6. prev' \in [Node -> Node \cup {Null}]
  BY <1>3, <1>4 DEF TypeOK
<1>7. pFirst' \in [List -> Node \cup {Null}] /\ pHead' \in [List -> Node \cup {Null}]
  <2>1. pFirst \in [List -> Node \cup {Null}] /\ pHead \in [List -> Node \cup {Null}]
    BY DEF TypeOK
  <2>2. pHead["iInput"] \in Node \cup {Null}
    BY <1>3, <2>1
  <2>3. pHead' \in [List -> Node \cup {Null}]
    BY <1>4, <2>1, <2>2
  <2>4. pFirst' \in [List -> Node \cup {Null}]
    BY <1>3, <1>4, <2>1
  <2>5. QED
    BY <2>3, <2>4
<1>8. QED
  BY <1>4, <1>5, <1>6, <1>7 DEF TypeOK

LEMMA MoveToListKeeps ==
    ASSUME TypeOK, Shape, NEW c \in Consumer, MoveToList(c), ~nullHead'
    PROVE  Shape'
<1>1. PICK f : f = pFirst["iInput"]
  OBVIOUS
<1>2. PICK h : h = pHead["iOutput"]
  OBVIOUS
<1>3. PICK k : k = pHead["iInput"]
  OBVIOUS
<1>4. /\ "iInput" \in List /\ "iOutput" \in List /\ usage = "events" /\ pc[c] = "moving"
      /\ prev \in [Node -> Node \cup {Null}] /\ next \in [Node -> Node \cup {Null}]
      /\ f \in Node /\ f # Null /\ f \in Linked("iInput") /\ prev[f] = Null
      /\ h \in Node \cup {Null} /\ (h # Null => h \in Linked("iOutput"))
      /\ k \in Node /\ k # Null /\ k \in Linked("iInput")
      /\ Linked("iInput") \cap Linked("iOutput") = {}
  <2>1. /\ "iInput" \in List /\ "iOutput" \in List /\ usage = "events" /\ pc[c] = "moving"
        /\ prev \in [Node -> Node \cup {Null}] /\ next \in [Node -> Node \cup {Null}]
    BY DEF MoveToList, List, TypeOK
  <2>2. f # Null /\ f \in Linked("iInput") /\ prev[f] = Null /\ k # Null
    BY <1>1, <1>3, <2>1 DEF Shape, Threads, First
  <2>3. k \in Linked("iInput") /\ (h # Null => h \in Linked("iOutput"))
    BY <1>2, <1>3, <2>1, <2>2, Linkage
  <2>4. f \in Node /\ k \in Node /\ h \in Node \cup {Null}
    BY <2>2, <2>3, Linkage
  <2>5. QED
    BY <2>1, <2>2, <2>3, <2>4 DEF Shape, Places
<1>5. /\ usage' = usage /\ object' = object /\ iNodePool' = iNodePool
      /\ pushed' = pushed /\ taken' = taken
      /\ pHead' = [pHead EXCEPT !["iOutput"] = k, !["iInput"] = Null]
      /\ pc' = [pc EXCEPT ![c] = "taking"]
  BY <1>3 DEF MoveToList
<1>6. \/ /\ pFirst["iOutput"] = Null /\ prev' = prev /\ next' = next
         /\ pFirst' = [pFirst EXCEPT !["iOutput"] = f, !["iInput"] = Null]
      \/ /\ pFirst["iOutput"] # Null /\ h # Null /\ next' = Set(next, h, f)
         /\ prev' = [prev EXCEPT ![f] = h]
         /\ pFirst' = [pFirst EXCEPT !["iInput"] = Null]
  BY <1>1, <1>2 DEF MoveToList
<1>7. /\ prev' \in [Node -> Node \cup {Null}] /\ prev'[f] = h
      /\ \A m \in Node : m # f => prev'[m] = prev[m]
  <2>1. CASE pFirst["iOutput"] = Null
    BY <1>2, <1>4, <1>6, <2>1 DEF Shape, First
  <2>2. CASE pFirst["iOutput"] # Null
    BY <1>4, <1>6, <2>2
  <2>3. QED
    BY <2>1, <2>2
<1>8. /\ h # Null => next'[h] = f
      /\ \A m \in Node : m # h => next'[m] = next[m]
  <2>1. CASE pFirst["iOutput"] = Null
    BY <1>2, <1>4, <1>6, <2>1 DEF Shape, First
  <2>2. CASE pFirst["iOutput"] # Null
    BY <1>4, <1>6, <2>2 DEF Set
  <2>3. QED
    BY <2>1, <2>2
<1>9. pHead'["iInput"] = Null /\ pHead'["iOutput"] = k
  BY <1>4, <1>5 DEF TypeOK
<1>10. pFirst'["iInput"] = Null /\ pFirst'["iOutput"] # Null
  BY <1>4, <1>6 DEF TypeOK
<1>11. Linked("iInput")' = {} /\ Linked("iOutput")' = Listed
  <2>1. f \in Reach(prev, k) /\ Reach(prev, k) = Linked("iInput") /\ Reach(prev, h) = Linked("iOutput")
    BY <1>2, <1>3, <1>4 DEF Linked
  <2>2. \A m \in Reach(prev, k) \ {f} : prev'[m] = prev[m]
    BY <1>7, <2>1, Linkage
  <2>3. \A m \in Reach(prev, h) : prev'[m] = prev[m]
    BY <1>4, <1>7, <2>1, Linkage
  <2>4. /\ prev \in [Node -> Node \cup {Null}] /\ k \in Node \cup {Null}
        /\ h \in Node \cup {Null} /\ prev[f] = Null /\ prev'[f] = h
    BY <1>4, <1>7
  <2>5. Reach(prev', k) = Reach(prev, k) \cup Reach(prev, h)
    <3>1. f \in Reach(prev, k)
      BY <2>1
    <3>2. QED
      BY <2>2, <2>3, <2>4, <3>1, ReachJoin
  <2>6. QED
    BY <1>9, <2>1, <2>5, ReachNothing DEF Linked, Listed
<1>12. Listed' = Listed /\ Used' = Used
  BY <1>5, <1>11 DEF Listed, Used
<1>13. f \in Used /\ (h # Null => h \in Used)
  BY <1>4 DEF Shape, Places, Listed
<1>14. Numbered'
  <2>1. \A m \in Node \ Used : prev'[m] = Null /\ next'[m] = Null
    BY <1>7, <1>8, <1>13, NullIsNone DEF Shape, Numbered
  <2>2. QED
    BY <1>5, <1>12, <2>1 DEF Shape, Numbered
<1>15. Places'
  <2>1. ASSUME NEW l \in List, NEW m \in Values(iNodePool[l])
        PROVE  m \in Used \ Listed /\ prev'[m] = Null /\ next'[m] = Null
    <3>1. m \in Used \ Listed /\ prev[m] = Null /\ next[m] = Null /\ m \in Node
      BY <2>1 DEF Shape, Places, Used
    <3>2. m # f /\ m # h
      BY <1>4, <3>1, NullIsNone DEF Listed
    <3>3. QED
      BY <1>7, <1>8, <3>1, <3>2
  <2>2. (\A l \in List : \A m \in Values(iNodePool[l]) :
            m \in Used \ Listed /\ prev[m] = Null /\ next[m] = Null)'
    BY <1>5, <1>12, <2>1 DEF Values
  <2>3. QED
    BY <1>5, <1>11, <1>12, <2>2 DEF Shape, Places, Values, NoTwice
<1>16. Doubly'
  <2>1. next'[k] = Null
    <3>1. k # h /\ next[k] = Null
      BY <1>3, <1>4, NullIsNone DEF Shape, Doubly
    <3>2. QED
      BY <1>4, <1>8, <3>1
  <2>2. ASSUME NEW m \in Listed, prev'[m] # Null PROVE next'[prev'[m]] = m
    <3>1. CASE m = f
      BY <1>7, <1>8, <2>2, <3>1
    <3>2. CASE m # f
      <4>1. PICK l \in List : m \in Linked(l)
        BY <1>4 DEF Listed
      <4>2. m \in Node /\ prev'[m] = prev[m] /\ prev[m] # Null
        BY <1>7, <2>2, <3>2, Linkage DEF Listed
      <4>3. prev[m] \in Node /\ next[prev[m]] = m
        BY <1>4, <4>1, <4>2 DEF Shape, Doubly
      <4>4. prev[m] # h
        BY <1>2, <1>4, <4>2, <4>3, NullIsNone DEF Shape, Doubly
      <4>5. QED
        BY <1>8, <4>2, <4>3, <4>4
    <3>3. QED
      BY <3>1, <3>2
  <2>3. QED
    BY <1>9, <1>11, <2>1, <2>2 DEF Doubly, List
<1>17. Objects'
  BY <1>5, <1>12 DEF Shape, Objects, Values
<1>18. First'
  BY <1>9, <1>10 DEF First
<1>19. Threads'
  <2>1. \A d \in Consumer : d # c => pc'[d] = "idle"
    BY <1>4, <1>5, OneMover DEF TypeOK, Shape
  <2>2. pc'[c] = "taking"
    BY <1>5 DEF TypeOK
  <2>3. c \in Consumers
    BY <1>4 DEF Shape, Threads
  <2>4. QED
    BY <1>4, <1>5, <2>1, <2>2, <2>3 DEF Threads, Consumers
<1>20. NothingForgotten'
  <2>1. Held("iInput")' \cup Held("iOutput")' = Held("iInput") \cup Held("iOutput")
    BY <1>5, <1>11 DEF Held, Listed
  <2>2. 1..pushed = Values(taken) \cup Held("iInput") \cup Held("iOutput")
    BY <1>4 DEF Shape, NothingForgotten, MoveToList
  <2>3. 1..pushed = Values(taken) \cup Held("iInput")' \cup Held("iOutput")'
    BY <2>1, <2>2
  <2>4. QED
    BY <1>5, <2>3 DEF NothingForgotten, Values
<1>21. QED
  BY <1>14, <1>15, <1>16, <1>17, <1>18, <1>19, <1>20 DEF Shape
-----------------------------------------------------------------------------
LEMMA InitHolds == Init => IInv
<1> SUFFICES ASSUME Init PROVE IInv
  OBVIOUS
<1>1. /\ pushed = 0 /\ taken = <<>> /\ MaxPush \in Nat
      /\ \A l \in List : pHead[l] = Null /\ pFirst[l] = Null /\ iNodePool[l] = <<>>
      /\ "iInput" \in List /\ "iOutput" \in List
  BY ConsumerAssumption DEF Init, List
<1>2. TypeOK
  <2>1. /\ prev \in [Node -> Node \cup {Null}] /\ next \in [Node -> Node \cup {Null}]
        /\ pFirst \in [List -> Node \cup {Null}] /\ pHead \in [List -> Node \cup {Null}]
    BY DEF Init
  <2>2. object \in [Node -> 0..MaxPush] /\ pushed \in 0..MaxPush
    BY <1>1 DEF Init
  <2>3. iNodePool \in [List -> Seq(Node)] /\ taken \in Seq(1..MaxPush)
    BY DEF Init
  <2>4. QED
    BY <2>1, <2>2, <2>3 DEF Init, TypeOK
<1>3. /\ \A l \in List : Linked(l) = {}
      /\ Listed = {} /\ Used = {} /\ Values(taken) = {}
      /\ \A l \in List : Values(iNodePool[l]) = {}
  <2>1. \A l \in List : Linked(l) = {}
    BY <1>1, ReachNothing DEF Linked
  <2>2. Used = {} /\ Listed = {}
    BY <1>1, <2>1 DEF Init, Used, Listed
  <2>3. QED
    BY <1>1, <2>1, <2>2 DEF Values
<1>4. Numbered
  <2>1. Used = 1..0 /\ 0 \in 0..pushed
    BY <1>1, <1>3
  <2>2. \A n \in Node : prev[n] = Null /\ next[n] = Null
    BY DEF Init
  <2>3. QED
    BY <2>1, <2>2 DEF Numbered
<1>5. Places /\ Doubly /\ Objects /\ First /\ Threads
  BY <1>1, <1>3 DEF Init, Places, Doubly, Objects, First, Threads, NoTwice
<1>6. NothingForgotten
  <2>1. Held("iInput") = {} /\ Held("iOutput") = {}
    BY <1>1, <1>3 DEF Held
  <2>2. QED
    BY <1>1, <1>3, <2>1 DEF NothingForgotten
<1>7. TakenOnce
  BY <1>1 DEF TakenOnce
<1>8. QED
  BY <1>2, <1>4, <1>5, <1>6, <1>7 DEF IInv, Shape

LEMMA NextKeeps == IInv /\ [Next]_vars => IInv'
<1> SUFFICES ASSUME IInv, [Next]_vars PROVE IInv'
  OBVIOUS
<1>1. CASE Push
  <2>1. ~nullHead /\ taken' = taken
    BY <1>1 DEF Push
  <2>2. TypeOK' /\ Shape'
    BY <1>1, <2>1, PushKeeps DEF IInv
  <2>3. QED
    BY <2>1, <2>2 DEF IInv, TakenOnce
<1>2. ASSUME NEW c \in Consumer, Look(c) PROVE IInv'
  <2>1. ~nullHead /\ taken' = taken
    BY <1>2 DEF Look
  <2>2. TypeOK' /\ Shape'
    BY <1>2, <2>1, LookKeeps DEF IInv
  <2>3. QED
    BY <2>1, <2>2 DEF IInv, TakenOnce
<1>3. ASSUME NEW c \in Consumer, TestHead(c) PROVE IInv'
  <2>1. ~nullHead /\ taken' = taken
    BY <1>3 DEF TestHead
  <2>2. TypeOK' /\ Shape'
    BY <1>3, <2>1, TestHeadKeeps DEF IInv
  <2>3. QED
    BY <2>1, <2>2 DEF IInv, TakenOnce
<1>4. ASSUME NEW c \in Consumer, MoveToArray(c) PROVE IInv'
  <2>1. ~nullHead
    BY <1>4 DEF MoveToArray
  <2>2. QED
    BY <1>4, <2>1, MoveToArrayKeeps DEF IInv
<1>5. ASSUME NEW c \in Consumer, MoveToList(c) PROVE IInv'
  <2>1. ~nullHead /\ taken' = taken
    BY <1>5 DEF MoveToList
  <2>2. TypeOK'
    BY <1>5, <2>1, MoveToListType DEF IInv
  <2>3. ~nullHead' => Shape'
    BY <1>5, <2>1, MoveToListKeeps DEF IInv
  <2>4. QED
    BY <2>1, <2>2, <2>3 DEF IInv, TakenOnce
<1>6. ASSUME NEW c \in Consumer, Take(c) PROVE IInv'
  <2>1. ~nullHead
    BY <1>6 DEF Take
  <2>2. CASE pHead[Source] = Null
    <3>1. /\ nullHead' = TRUE /\ UNCHANGED <<usage, object, pFirst, pushed>>
          /\ UNCHANGED <<prev, next, pHead, iNodePool, taken>>
          /\ pc' = [pc EXCEPT ![c] = "idle"]
      BY <1>6, <2>2 DEF Take
    <3>2. TypeOK' /\ TakenOnce'
      BY <3>1 DEF IInv, TypeOK, TakenOnce
    <3>3. QED
      BY <3>1, <3>2 DEF IInv
  <2>3. CASE pHead[Source] # Null
    BY <1>6, <2>1, <2>3, TakeKeeps DEF IInv
  <2>4. QED
    BY <2>2, <2>3
<1>7. CASE UNCHANGED vars
  <2>1. UNCHANGED <<usage, heap, lists, pushed, taken, nullHead>> /\ pc' = pc
    BY <1>7 DEF vars
  <2>2. TypeOK' /\ TakenOnce' /\ nullHead' = nullHead
    BY <2>1 DEF IInv, TypeOK, TakenOnce, heap, lists
  <2>3. ~nullHead => Threads'
    BY <2>1 DEF IInv, Shape, Threads, Consumers, heap, lists
  <2>4. ~nullHead => Shape'
    BY <2>1, <2>3, SameHeap DEF IInv, Shape
  <2>5. QED
    BY <2>2, <2>4 DEF IInv
<1>8. QED
  BY <1>1, <1>2, <1>3, <1>4, <1>5, <1>6, <1>7 DEF Next
-----------------------------------------------------------------------------
(* In every usage, until a null pHead is dereferenced, the two lists and   *)
(* the pools hold nodes of their own and the links are those of lists.     *)
THEOREM Invariant == Spec => []IInv
<1>1. QED
  BY InitHolds, NextKeeps, PTL DEF Spec

(* Every variable keeps its type, whatever the threads do to the lists.    *)
THEOREM TypeCorrect == Spec => []TypeOK
<1>1. IInv => TypeOK
  BY DEF IInv
<1>2. QED
  BY <1>1, Invariant, PTL

(* However many threads take from a list with takeLast, and in whatever    *)
(* usage, no value that was pushed is taken twice.                         *)
THEOREM TakenAtMostOnce == Spec => []TakenOnce
<1>1. IInv => TakenOnce
  BY DEF IInv
<1>2. QED
  BY <1>1, Invariant, PTL

(* A node given back to a pool is out of both lists and has no links left, *)
(* so that push_back can use it again; the two lists share no node.        *)
THEOREM FreeNodes == Spec => []FreeNodesUnlinked
<1>1. IInv => FreeNodesUnlinked
  BY DEF IInv, Shape, Places, FreeNodesUnlinked, Listed
<1>2. QED
  BY <1>1, Invariant, PTL

(* Where elements are taken one by one (the unit pool, the client events), *)
(* a value that was pushed has been taken or is still in one of the lists. *)
THEOREM NoneForgotten == Spec => []NothingForgotten
<1>1. IInv => NothingForgotten
  BY DEF IInv, Shape, NothingForgotten
<1>2. QED
  BY <1>1, Invariant, PTL
=============================================================================
