------------------------- MODULE ClientCenterProofs -------------------------
(***************************************************************************)
(* Theorems about ClientCenter, for any ports, any connections and any     *)
(* number of calls of sharePort.                                           *)
(***************************************************************************)
EXTENDS ClientCenter, SequenceTheorems, FiniteSetTheorems, TLAPS

(* No element stands twice in a sequence.                                   *)
NoTwice(s) == \A i, j \in 1..Len(s) : s[i] = s[j] => i = j

(* The types of the variables.                                              *)
Label == {<<"ports", "accept">>, <<"ports", "serve">>}
         \cup (Queue \X {"accept", "process", "delete", "remove"})
Call == [at : {"acceptAll"}, i : Nat \ {0}, tested : BOOLEAN,
         read : Incoming \cup {NoConn}, all : SUBSET Incoming, ended : Nat]
App == {Outside} \cup [at : {"share"}, port : Port] \cup Call

TypeOK ==
    /\ pendingPorts \in Seq(Port) /\ ports \in Seq([port : Port, iOpened : BOOLEAN])
    /\ backlog \in [Port -> Seq(Incoming)]
    /\ pending \in [Queue -> Seq(Conn)] /\ output \in [Queue -> Seq(Conn)]
    /\ \A q \in Queue : /\ pending[q] \in Seq(Kind(q))
                        /\ output[q] \in Seq(Kind(q))
    /\ iState \in [Incoming -> {"WAIT", "ACCEPT"}]
    /\ object \in [Conn -> {"none", "live", "deleted"}]
    /\ pc \in Label /\ pos \in Nat \ {0}
    /\ app \in App
    /\ visits \in Seq(Conn) /\ before \subseteq Conn
    /\ crashed \in BOOLEAN

(* The connections of the system are in one backlog, once, and no object    *)
(* was made of them.                                                        *)
Backlogs ==
    /\ \A p, r \in Port : \A i \in 1..Len(backlog[p]), j \in 1..Len(backlog[r]) :
          backlog[p][i] = backlog[r][j] => p = r /\ i = j
    /\ \A p \in Port : \A i \in 1..Len(backlog[p]) : object[backlog[p][i]] = "none"

(* A connection is in a list or an array, once; there are objects of those  *)
(* of the lists, and of those of the arrays but for the one to be removed.  *)
Dying(q, i) == pc = <<q, "remove">> /\ i = pos
Lists(q) ==
    /\ NoTwice(pending[q]) /\ NoTwice(output[q])
    /\ \A i \in 1..Len(pending[q]), j \in 1..Len(output[q]) : pending[q][i] # output[q][j]
    /\ \A i \in 1..Len(pending[q]) : object[pending[q][i]] = "live"
    /\ \A i \in 1..Len(output[q]) :
          object[output[q][i]] = IF Dying(q, i) THEN "deleted" ELSE "live"
    /\ pc \in {<<q, "delete">>, <<q, "remove">>} => pos <= Len(output[q])

(* What was processed in the loop that runs, and what is still to be.       *)
InLoop(q) == pc \in {<<q, "process">>, <<q, "delete">>, <<q, "remove">>}
Visited == {visits[i] : i \in 1..Len(visits)}
From(q, n) == {output[q][i] : i \in n..Len(output[q])}
Rest(q) == IF pc = <<q, "process">> THEN From(q, pos) ELSE From(q, pos + 1)
Rounds ==
    /\ NoTwice(visits)
    /\ \A q \in Queue : InLoop(q) =>
          Rest(q) \cap Visited = {} /\ before = Rest(q) \cup Visited
    /\ (\A q \in Queue : ~InLoop(q)) => visits = <<>>

(* What a call of acceptAll has passed over: it found it, and it waits, but *)
(* it is neither ahead nor about to be accepted.  There is no more of it    *)
(* than was removed meanwhile; and where the index was found to be, there   *)
(* is an element still if nothing was.                                      *)
Reading == app.read # NoConn
Ahead == From("aIncs", IF Reading THEN app.i + 1 ELSE app.i)
Missed == {c \in app.all : /\ iState[c] = "WAIT" /\ object[c] = "live"
                           /\ c \notin Ahead /\ ~(Reading /\ c = app.read)}
Removing == IF pc = <<"aIncs", "remove">> THEN 1 ELSE 0
Tested == app.tested => ~Reading /\ (app.i <= Len(output["aIncs"]) \/ app.ended > 0)
Calls ==
    app.at = "acceptAll" =>
        /\ Tested
        /\ Reading => object[app.read] = "live" \/ app.ended > 0
        /\ \A c \in app.all : object[c] # "none"
        /\ IsFiniteSet(app.all)
        /\ Cardinality(Missed) + Removing <= app.ended

Crashes == crashed => app.at = "acceptAll" /\ app.ended > 0

IInv ==
    /\ TypeOK /\ Backlogs /\ (\A q \in Queue : Lists(q)) /\ Rounds /\ Calls /\ Crashes
-----------------------------------------------------------------------------
(* What is in a sequence without one of its elements, or with one more.     *)
LEMMA Without ==
    ASSUME NEW S, NEW s \in Seq(S), NEW n \in 1..Len(s)
    PROVE  /\ RemoveAt(s, n) \in Seq(S)
           /\ Len(RemoveAt(s, n)) = Len(s) - 1
           /\ \A i \in 1..Len(s) - 1 :
                 RemoveAt(s, n)[i] = IF i < n THEN s[i] ELSE s[i + 1]
<1>1. Len(s) \in Nat /\ \A i \in 1..Len(s) : s[i] \in S
  BY LenProperties, ElementOfSeq
<1> DEFINE a == SubSeq(s, 1, n - 1)
           b == SubSeq(s, n + 1, Len(s))
<1>2. a \in Seq(S) /\ Len(a) = n - 1 /\ \A i \in 1..n - 1 : a[i] = s[i]
  <2>1. \A i \in 1..n - 1 : s[i] \in S
    BY <1>1
  <2>2. QED
    BY <1>1, <2>1, SubSeqProperties
<1>3. b \in Seq(S) /\ Len(b) = Len(s) - n /\ \A i \in 1..Len(s) - n : b[i] = s[n + i]
  <2>1. \A i \in n + 1..Len(s) : s[i] \in S
    BY <1>1
  <2>2. QED
    BY <1>1, <2>1, SubSeqProperties
<1> HIDE DEF a, b
<1>4. /\ a \o b \in Seq(S)
      /\ Len(a \o b) = Len(s) - 1
      /\ \A i \in 1..Len(s) - 1 : (a \o b)[i] = IF i < n THEN s[i] ELSE s[i + 1]
  <2>1. /\ a \o b \in Seq(S)
        /\ Len(a \o b) = Len(a) + Len(b)
        /\ \A i \in 1..Len(a) + Len(b) :
              (a \o b)[i] = IF i <= Len(a) THEN a[i] ELSE b[i - Len(a)]
    BY <1>2, <1>3, ConcatProperties
  <2>2. QED
    BY <1>1, <1>2, <1>3, <2>1
<1>5. RemoveAt(s, n) = a \o b
  BY DEF RemoveAt, a, b
<1>6. QED
  BY <1>4, <1>5

LEMMA With ==
    ASSUME NEW S, NEW s \in Seq(S), NEW e \in S
    PROVE  /\ Append(s, e) \in Seq(S)
           /\ Len(Append(s, e)) = Len(s) + 1
           /\ \A i \in 1..Len(s) : Append(s, e)[i] = s[i]
           /\ Append(s, e)[Len(s) + 1] = e
BY AppendProperties, LenProperties

LEMMA Following ==
    ASSUME NEW S, NEW s \in Seq(S), s # <<>>
    PROVE  /\ Head(s) = s[1] /\ Head(s) \in S /\ Len(s) \in Nat \ {0}
           /\ Tail(s) \in Seq(S) /\ Len(Tail(s)) = Len(s) - 1
           /\ \A i \in 1..Len(s) - 1 : Tail(s)[i] = s[i + 1]
BY HeadTailProperties, EmptySeq, LenProperties, ElementOfSeq

(* A sequence has finitely many elements.                                  *)
LEMMA FewElements ==
    ASSUME NEW S, NEW s \in Seq(S)
    PROVE  /\ ToSet(s) = {s[i] : i \in 1..Len(s)}
           /\ ToSet(s) \subseteq S
           /\ IsFiniteSet(ToSet(s))
<1>1. DOMAIN s = 1..Len(s) /\ Len(s) \in Nat /\ \A i \in 1..Len(s) : s[i] \in S
  BY LenProperties, ElementOfSeq
<1>2. ToSet(s) = {s[i] : i \in 1..Len(s)}
  BY <1>1 DEF ToSet
<1>3. IsFiniteSet(1..Len(s))
  BY <1>1, FS_Interval
<1>4. IsFiniteSet({s[i] : i \in 1..Len(s)})
  <2> DEFINE f == [i \in 1..Len(s) |-> s[i]]
             T == {s[i] : i \in 1..Len(s)}
  <2>1. f \in Surjection(1..Len(s), T)
    BY DEF Surjection
  <2>2. QED
    BY <1>3, <2>1, FS_Surjection
<1>5. QED
  BY <1>1, <1>2, <1>4

(* Accept moves the first element at most.                                 *)
LEMMA MovedOne ==
    ASSUME NEW S, NEW in \in Seq(S), NEW out \in Seq(S)
    PROVE  /\ Moved(in, out) \in Seq(S)
           /\ Len(Moved(in, out)) \in {Len(out), Len(out) + 1}
           /\ \A i \in 1..Len(out) : Moved(in, out)[i] = out[i]
           /\ Len(Moved(in, out)) = Len(out) + 1 =>
                 in # <<>> /\ 1 \in 1..Len(in) /\ Moved(in, out)[Len(out) + 1] = in[1]
<1>1. CASE in = <<>>
  <2>1. Moved(in, out) = out /\ Len(out) \in Nat
    BY <1>1, LenProperties DEF Moved
  <2>2. QED
    BY <2>1
<1>2. CASE in # <<>>
  <2>1. in[1] \in S /\ 1 \in 1..Len(in)
    BY <1>2, EmptySeq, LenProperties, ElementOfSeq
  <2>2. Moved(in, out) = Append(out, in[1])
    BY <1>2 DEF Moved
  <2>3. QED
    BY <1>2, <2>1, <2>2, With
<1>3. QED
  BY <1>1, <1>2

(* A finite set with an element more, at most.                             *)
LEMMA OneMore ==
    ASSUME NEW A, NEW x, NEW B, IsFiniteSet(A), B \subseteq A \cup {x}
    PROVE  IsFiniteSet(B) /\ Cardinality(B) \in Nat /\ Cardinality(B) <= Cardinality(A) + 1
<1>1. /\ IsFiniteSet(A \cup {x})
      /\ Cardinality(A \cup {x}) = IF x \in A THEN Cardinality(A) ELSE Cardinality(A) + 1
  BY FS_AddElement
<1>2. Cardinality(A) \in Nat
  BY FS_CardinalityType
<1>3. IsFiniteSet(B) /\ Cardinality(B) <= Cardinality(A \cup {x})
  BY <1>1, FS_Subset
<1>4. Cardinality(B) \in Nat
  BY <1>3, FS_CardinalityType
<1>5. QED
  BY <1>1, <1>2, <1>3, <1>4

LEMMA NoMore ==
    ASSUME NEW A, NEW B, NEW n \in Nat, NEW m \in Nat,
           IsFiniteSet(A), B \subseteq A, Cardinality(A) + n <= m
    PROVE  Cardinality(B) + n <= m
<1>1. IsFiniteSet(B) /\ Cardinality(B) <= Cardinality(A)
  BY FS_Subset
<1>2. Cardinality(A) \in Nat /\ Cardinality(B) \in Nat
  BY <1>1, FS_CardinalityType
<1>3. QED
  BY <1>1, <1>2
-----------------------------------------------------------------------------
(* What is left of the invariant where little changes.                     *)
LEMMA Calling ==
    ASSUME TypeOK
    PROVE  /\ app.at = "acceptAll" => app \in Call
           /\ app.at = "share" => app.port \in Port
           /\ Outside \in App /\ Outside.at = "outside"
           /\ \A p \in Port : Sharing(p) \in App /\ Sharing(p).at = "share"
BY DEF TypeOK, App, Call, Outside, Sharing

LEMMA Kinds ==
    /\ Queue = {"aIncs", "aOuts"} /\ Conn = Incoming \cup Outgoing
    /\ Kind("aIncs") = Incoming /\ Kind("aOuts") = Outgoing
    /\ Incoming \cap Outgoing = {}
BY KindAssumption DEF Queue, Conn, Kind

LEMMA KeepsLists ==
    ASSUME NEW q \in Queue, Lists(q),
           pending'[q] = pending[q], output'[q] = output[q],
           \A c \in Kind(q) : object[c] # "none" => object'[c] = object[c],
           TypeOK, \A i : Dying(q, i)' <=> Dying(q, i),
           pc' \in {<<q, "delete">>, <<q, "remove">>} => pos' <= Len(output[q])
    PROVE  Lists(q)'
<1>1. /\ \A i \in 1..Len(pending[q]) : pending[q][i] \in Kind(q)
      /\ \A i \in 1..Len(output[q]) : output[q][i] \in Kind(q)
  BY ElementOfSeq DEF TypeOK
<1>2. QED
  BY <1>1 DEF Lists

LEMMA KeepsRounds ==
    ASSUME Rounds, visits' = visits, before' = before,
           \A q \in Queue : ~InLoop(q) /\ ~InLoop(q)'
    PROVE  Rounds'
BY DEF Rounds

LEMMA SameRounds ==
    ASSUME Rounds, visits' = visits, before' = before, pc' = pc, pos' = pos, output' = output
    PROVE  Rounds'
<1>1. Visited' = Visited /\ \A q \in Queue : Rest(q)' = Rest(q) /\ (InLoop(q)' <=> InLoop(q))
  BY DEF Rest, From, Visited, InLoop
<1>2. QED
  BY <1>1 DEF Rounds

LEMMA GrowingCalls ==
    ASSUME TypeOK, Calls, app' = app, Removing' = Removing,
           app.at = "acceptAll" => /\ Ahead \subseteq Ahead'
                                   /\ Len(output'["aIncs"]) >= Len(output["aIncs"]),
           Len(output'["aIncs"]) \in Nat,
           \A c \in Incoming :
              /\ object[c] = "live" => object'[c] = "live"
              /\ object[c] # "none" => object'[c] = object[c]
              /\ iState'[c] = "WAIT" => iState[c] = "WAIT"
    PROVE  Calls'
<1> SUFFICES ASSUME app.at = "acceptAll" PROVE Calls'
  BY DEF Calls
<1>1. app \in Call
  BY Calling
<1>2. Reading' = Reading
  BY DEF Reading
<1>3. /\ app.all \subseteq Incoming /\ app.read \in Incoming \cup {NoConn} /\ app.ended \in Nat
      /\ Removing \in Nat
  BY <1>1 DEF Call, Removing
<1>4. /\ Reading => object[app.read] = "live" \/ app.ended > 0
      /\ \A c \in app.all : object[c] # "none"
      /\ IsFiniteSet(app.all)
      /\ Cardinality(Missed) + Removing <= app.ended
  BY DEF Calls
<1>5. Missed' \subseteq Missed
  BY <1>2, <1>3, <1>4 DEF Missed
<1>6. IsFiniteSet(Missed)
  BY <1>4, FS_Subset DEF Missed
<1>7. /\ Cardinality(Missed') <= Cardinality(Missed)
      /\ Cardinality(Missed) \in Nat
      /\ Cardinality(Missed') \in Nat
  BY <1>5, <1>6, FS_Subset, FS_CardinalityType
<1>8. Cardinality(Missed') + Removing' <= app.ended
  BY <1>3, <1>4, <1>7
<1>9. Reading' => object'[app.read] = "live" \/ app.ended > 0
  BY <1>2, <1>3, <1>4 DEF Reading
<1>10. \A c \in app.all : object'[c] # "none"
  BY <1>3, <1>4
<1>11. Tested'
  <2>1. Tested /\ app.i \in Nat /\ Len(output["aIncs"]) \in Nat
    BY <1>1, Kinds, LenProperties DEF Calls, Call, TypeOK
  <2>2. QED
    BY <2>1, <1>2 DEF Tested
<1>12. QED
  BY <1>4, <1>8, <1>9, <1>10, <1>11 DEF Calls

LEMMA KeepsCalls ==
    ASSUME TypeOK, Calls, app' = app, output'["aIncs"] = output["aIncs"], Removing' = Removing,
           \A c \in Incoming :
              /\ object[c] = "live" => object'[c] = "live"
              /\ object[c] # "none" => object'[c] = object[c]
              /\ iState'[c] = "WAIT" => iState[c] = "WAIT"
    PROVE  Calls'
<1>1. Ahead' = Ahead
  BY DEF Ahead, Reading, From
<1>2. Len(output["aIncs"]) \in Nat
  BY Kinds, LenProperties DEF TypeOK
<1>3. QED
  BY <1>1, <1>2, GrowingCalls
-----------------------------------------------------------------------------
(* The steps of the application's thread, and of remote peers.             *)
LEMMA Sharings ==
    ASSUME IInv, (\E p \in Port : SharePort(p)) \/ PushPort
    PROVE  IInv'
<1>1. /\ UNCHANGED <<ports, backlog, pending, output, iState, object,
                      pc, pos, visits, before, crashed>>
      /\ app.at # "acceptAll"
  BY Calling DEF SharePort, PushPort, centers, queues, IInv
<1>2. app' \in App /\ pendingPorts' \in Seq(Port) /\ app'.at # "acceptAll"
  <2>1. CASE \E p \in Port : SharePort(p)
    BY <2>1, Calling DEF SharePort, IInv, TypeOK
  <2>2. CASE PushPort
    <3>1. app.port \in Port
      BY <2>2, Calling DEF PushPort, IInv
    <3>2. pendingPorts' = Append(pendingPorts, app.port) /\ app' = Outside
      BY <2>2 DEF PushPort
    <3>3. QED
      BY <3>1, <3>2, Calling, With DEF IInv, TypeOK
  <2>3. QED
    BY <2>1, <2>2
<1>3. TypeOK'
  BY <1>1, <1>2 DEF IInv, TypeOK
<1>4. Backlogs' /\ (\A q \in Queue : Lists(q)') /\ Rounds'
  <2>1. Backlogs'
    BY <1>1 DEF IInv, Backlogs
  <2>2. \A q \in Queue : Lists(q)'
    BY <1>1 DEF IInv, Lists, Dying
  <2>3. Rounds'
    BY <1>1, SameRounds DEF IInv
  <2>4. QED
    BY <2>1, <2>2, <2>3
<1>5. Calls' /\ Crashes'
  BY <1>1, <1>2 DEF IInv, Calls, Crashes
<1>6. QED
  BY <1>3, <1>4, <1>5 DEF IInv

(* A list with an element more that is nowhere.                            *)
LEMMA Pushed ==
    ASSUME TypeOK, NEW q \in Queue, NEW c \in Kind(q),
           Lists(q), object[c] = "none", object' = [object EXCEPT ![c] = "live"],
           pending' = [pending EXCEPT ![q] = Append(@, c)], output' = output,
           \A i : Dying(q, i)' <=> Dying(q, i),
           pc' \in {<<q, "delete">>, <<q, "remove">>} => pos' <= Len(output[q])
    PROVE  Lists(q)'
<1>1. /\ pending[q] \in Seq(Kind(q)) /\ output[q] \in Seq(Kind(q))
      /\ pending'[q] = Append(pending[q], c) /\ output'[q] = output[q]
      /\ Len(pending[q]) \in Nat
  BY LenProperties DEF TypeOK
<1>2. c \in Conn /\ \A d \in Conn : object'[d] = IF d = c THEN "live" ELSE object[d]
  BY Kinds DEF TypeOK
<1>3. /\ \A i \in 1..Len(pending[q]) : pending[q][i] \in Kind(q)
      /\ \A i \in 1..Len(output[q]) : output[q][i] \in Kind(q)
      /\ Kind(q) \subseteq Conn
  BY <1>1, ElementOfSeq, Kinds
<1>4. /\ Len(pending'[q]) = Len(pending[q]) + 1
      /\ \A i \in 1..Len(pending[q]) : pending'[q][i] = pending[q][i]
      /\ pending'[q][Len(pending[q]) + 1] = c
  BY <1>1, With
<1>5. /\ \A i \in 1..Len(pending[q]) : pending[q][i] # c /\ object[pending[q][i]] = "live"
      /\ \A i \in 1..Len(output[q]) :
            /\ output[q][i] # c
            /\ object[output[q][i]] = IF Dying(q, i) THEN "deleted" ELSE "live"
  BY DEF Lists
<1>6. NoTwice(pending'[q])
  BY <1>1, <1>4, <1>5 DEF Lists, NoTwice
<1>7. \A i \in 1..Len(pending'[q]), j \in 1..Len(output[q]) : pending'[q][i] # output[q][j]
  BY <1>1, <1>4, <1>5 DEF Lists
<1>8. \A i \in 1..Len(pending'[q]) : object'[pending'[q][i]] = "live"
  BY <1>1, <1>2, <1>3, <1>4, <1>5
<1>9. \A i \in 1..Len(output[q]) :
         object'[output[q][i]] = IF Dying(q, i) THEN "deleted" ELSE "live"
  BY <1>2, <1>3, <1>5
<1>10. NoTwice(output'[q])
  BY <1>1 DEF Lists
<1>11. QED
  BY <1>1, <1>6, <1>7, <1>8, <1>9, <1>10 DEF Lists

(* A connection of connectTo.                                              *)
LEMMA Connecting ==
    ASSUME IInv, NEW c \in Outgoing, ConnectTo(c)
    PROVE  IInv'
<1>1. /\ UNCHANGED <<pendingPorts, ports, backlog, output, iState, pc,
                      pos, app, visits, before, crashed>>
      /\ object[c] = "none" /\ object' = [object EXCEPT ![c] = "live"]
      /\ pending' = [pending EXCEPT !["aOuts"] = Append(@, c)]
  BY DEF ConnectTo, centers
<1>2. TypeOK /\ c \in Conn /\ Incoming \cap Outgoing = {}
  BY Kinds DEF IInv
<1>3. \A d \in Conn : object'[d] = IF d = c THEN "live" ELSE object[d]
  BY <1>1, <1>2 DEF TypeOK
<1>4. TypeOK'
  <2>1. pending'["aOuts"] \in Seq(Outgoing) /\ pending'["aOuts"] \in Seq(Conn)
        /\ pending'["aIncs"] = pending["aIncs"]
    <3>1. pending["aOuts"] \in Seq(Outgoing) /\ pending["aOuts"] \in Seq(Conn)
      BY <1>2, Kinds DEF TypeOK
    <3>2. pending'["aOuts"] = Append(pending["aOuts"], c) /\ pending'["aIncs"] = pending["aIncs"]
      BY <1>1, <1>2, Kinds DEF TypeOK
    <3>3. QED
      BY <3>1, <3>2, <1>2, With
  <2>2. pending' \in [Queue -> Seq(Conn)] /\ \A q \in Queue : pending'[q] \in Seq(Kind(q))
    BY <2>1, <1>1, <1>2, Kinds DEF TypeOK
  <2>3. object' \in [Conn -> {"none", "live", "deleted"}]
    BY <1>1, <1>2 DEF TypeOK
  <2>4. QED
    BY <2>2, <2>3, <1>1, <1>2 DEF TypeOK
<1>5. Backlogs'
  <2>1. \A p \in Port : \A i \in 1..Len(backlog[p]) : backlog[p][i] \in Incoming
    BY <1>2, ElementOfSeq DEF TypeOK
  <2>2. QED
    BY <2>1, <1>1, <1>2, <1>3, Kinds DEF IInv, Backlogs
<1>6. Lists("aIncs")'
  <2>1. \A d \in Incoming : object'[d] = object[d]
    BY <1>2, <1>3, Kinds
  <2>2. pending'["aIncs"] = pending["aIncs"]
    BY <1>1, <1>2, Kinds DEF TypeOK
  <2>3. \A i : Dying("aIncs", i)' <=> Dying("aIncs", i)
    BY <1>1 DEF Dying
  <2>4. Lists("aIncs")
    BY Kinds DEF IInv
  <2>5. pc' \in {<<"aIncs", "delete">>, <<"aIncs", "remove">>} => pos' <= Len(output["aIncs"])
    BY <1>1, <2>4 DEF Lists
  <2>6. QED
    BY <1>1, <1>2, <2>1, <2>2, <2>3, <2>4, <2>5, Kinds, KeepsLists
<1>7. Lists("aOuts")'
  <2>1. \A i : Dying("aOuts", i)' <=> Dying("aOuts", i)
    BY <1>1 DEF Dying
  <2>2. Lists("aOuts")
    BY Kinds DEF IInv
  <2>3. pc' \in {<<"aOuts", "delete">>, <<"aOuts", "remove">>} => pos' <= Len(output["aOuts"])
    BY <1>1, <2>2 DEF Lists
  <2>4. QED
    BY <1>1, <1>2, <2>1, <2>2, <2>3, Kinds, Pushed
<1>8. Rounds'
  BY <1>1, SameRounds DEF IInv
<1>9. Calls'
  <2>1. Removing' = Removing
    BY <1>1 DEF Removing
  <2>2. \A d \in Incoming : object'[d] = object[d]
    BY <1>2, <1>3, Kinds
  <2>3. QED
    BY <1>1, <2>1, <2>2, KeepsCalls DEF IInv
<1>10. Crashes'
  BY <1>1 DEF IInv, Crashes
<1>11. QED
  BY <1>2, <1>4, <1>5, <1>6, <1>7, <1>8, <1>9, <1>10, Kinds DEF IInv

(* A remote peer connects.                                                 *)
LEMMA Arriving ==
    ASSUME IInv, NEW c \in Incoming, NEW p \in Port, Arrive(c, p)
    PROVE  IInv'
<1>1. /\ UNCHANGED <<pendingPorts, ports, pending, output, iState, object,
                      pc, pos, app, visits, before, crashed>>
      /\ object[c] = "none" /\ backlog' = [backlog EXCEPT ![p] = Append(@, c)]
      /\ \A r \in Port : c \notin ToSet(backlog[r])
  BY DEF Arrive, centers, queues
<1>2. TypeOK
  BY DEF IInv
<1>3. \A r \in Port : /\ backlog[r] \in Seq(Incoming)
                      /\ backlog'[r] = IF r = p THEN Append(backlog[p], c) ELSE backlog[r]
                      /\ \A i \in 1..Len(backlog[r]) : backlog[r][i] # c
                      /\ Len(backlog[r]) \in Nat
  BY <1>1, <1>2, FewElements, LenProperties DEF TypeOK
<1>4. /\ backlog'[p] \in Seq(Incoming) /\ Len(backlog'[p]) = Len(backlog[p]) + 1
      /\ \A i \in 1..Len(backlog[p]) : backlog'[p][i] = backlog[p][i]
      /\ backlog'[p][Len(backlog[p]) + 1] = c
  <2>1. backlog[p] \in Seq(Incoming) /\ backlog'[p] = Append(backlog[p], c)
    BY <1>3
  <2>2. QED
    BY <2>1, With
<1>5. backlog' \in [Port -> Seq(Incoming)]
  BY <1>1, <1>2, <1>3, <1>4 DEF TypeOK
<1>6. TypeOK'
  BY <1>1, <1>2, <1>5 DEF TypeOK
<1>7. Backlogs'
  <2>1. ASSUME NEW r \in Port, NEW i \in 1..Len(backlog'[r])
        PROVE  \/ i \in 1..Len(backlog[r]) /\ backlog'[r][i] = backlog[r][i]
               \/ r = p /\ i = Len(backlog[p]) + 1 /\ backlog'[r][i] = c
    BY <1>3, <1>4
  <2>2. \A r \in Port : \A i \in 1..Len(backlog'[r]) : object[backlog'[r][i]] = "none"
    BY <2>1, <1>1 DEF IInv, Backlogs
  <2>3. \A r, s \in Port : \A i \in 1..Len(backlog'[r]), j \in 1..Len(backlog'[s]) :
          backlog'[r][i] = backlog'[s][j] => r = s /\ i = j
    BY <2>1, <1>3 DEF IInv, Backlogs
  <2>4. QED
    BY <1>1, <2>2, <2>3 DEF Backlogs
<1>8. \A q \in Queue : Lists(q)'
  BY <1>1 DEF IInv, Lists, Dying
<1>9. Rounds'
  BY <1>1, SameRounds DEF IInv
<1>10. Calls'
  BY <1>1, KeepsCalls DEF IInv, Removing
<1>11. Crashes'
  BY <1>1 DEF IInv, Crashes
<1>12. QED
  BY <1>6, <1>7, <1>8, <1>9, <1>10, <1>11 DEF IInv

(* acceptAll: what it finds is ahead of it ...                             *)
LEMMA Starting ==
    ASSUME IInv, AcceptAll
    PROVE  IInv'
<1>1. /\ UNCHANGED <<pendingPorts, ports, backlog, pending, output, iState, object, pc, pos, visits,
                     before, crashed>>
      /\ app' = Accepting(1) /\ app.at = "outside"
  BY Calling DEF AcceptAll, centers, queues, IInv
<1>2. TypeOK /\ Lists("aIncs") /\ output["aIncs"] \in Seq(Incoming)
  BY Kinds DEF IInv, TypeOK
<1> DEFINE all == ToSet(output["aIncs"])
<1>3. /\ all = {output["aIncs"][i] : i \in 1..Len(output["aIncs"])}
      /\ all \subseteq Incoming /\ IsFiniteSet(all)
  BY <1>2, FewElements
<1> HIDE DEF all
<1>4. app' = [at |-> "acceptAll", i |-> 1, tested |-> FALSE, read |-> NoConn,
              all |-> all, ended |-> Removing]
  BY <1>1 DEF Accepting, all, Removing
<1>5. app' \in Call /\ app' \in App
  BY <1>3, <1>4 DEF Call, App, Removing
<1>6. TypeOK'
  BY <1>1, <1>2, <1>5 DEF TypeOK
<1>7. Backlogs' /\ (\A q \in Queue : Lists(q)') /\ Rounds'
  <2>1. Backlogs'
    BY <1>1 DEF IInv, Backlogs
  <2>2. \A q \in Queue : Lists(q)'
    BY <1>1 DEF IInv, Lists, Dying
  <2>3. Rounds'
    BY <1>1, SameRounds DEF IInv
  <2>4. QED
    BY <2>1, <2>2, <2>3
<1>8. Calls'
  <2>1. ~Reading' /\ Ahead' = all
    BY <1>1, <1>3, <1>4 DEF Reading, Ahead, From
  <2>2. Missed' = {}
    BY <2>1, <1>4 DEF Missed
  <2>3. Cardinality(Missed') = 0
    BY <2>2, FS_EmptySet
  <2>4. Cardinality(Missed') + Removing' <= app'.ended
    BY <2>3, <1>1, <1>4 DEF Removing
  <2>5. \A c \in all : object[c] # "none"
    BY <1>2, <1>3 DEF Lists
  <2>6. app'.all = all
    BY <1>4
  <2>7. IsFiniteSet(app'.all) /\ \A c \in app'.all : object'[c] # "none"
    BY <2>5, <2>6, <1>1, <1>3
  <2>8. Tested'
    BY <1>4 DEF Tested
  <2>9. QED
    BY <2>1, <2>4, <2>7, <2>8 DEF Calls
<1>9. Crashes'
  BY <1>1 DEF IInv, Crashes
<1>10. QED
  BY <1>6, <1>7, <1>8, <1>9 DEF IInv

(* ... where its index is found to be, there is an element now ...          *)
LEMMA TestingOne ==
    ASSUME IInv, TestNext
    PROVE  IInv'
<1>1. /\ UNCHANGED <<pendingPorts, ports, backlog, pending, output, iState, object, pc, pos, visits,
                     before, crashed>>
      /\ app.at = "acceptAll" /\ ~Reading /\ app.i <= Len(output["aIncs"])
      /\ app' = [app EXCEPT !.tested = TRUE]
  BY DEF TestNext, centers, queues, Reading
<1>2. TypeOK /\ app \in Call
  BY <1>1, Calling DEF IInv
<1>3. /\ app' \in Call /\ app'.at = "acceptAll" /\ app'.i = app.i /\ app'.read = app.read
      /\ app'.all = app.all /\ app'.ended = app.ended
  BY <1>1, <1>2 DEF Call
<1>4. TypeOK'
  BY <1>1, <1>2, <1>3 DEF TypeOK, App
<1>5. Backlogs' /\ (\A q \in Queue : Lists(q)') /\ Rounds'
  <2>1. Backlogs'
    BY <1>1 DEF IInv, Backlogs
  <2>2. \A q \in Queue : Lists(q)'
    BY <1>1 DEF IInv, Lists, Dying
  <2>3. Rounds'
    BY <1>1, SameRounds DEF IInv
  <2>4. QED
    BY <2>1, <2>2, <2>3
<1>6. Calls'
  <2>1. ~Reading' /\ Ahead' = Ahead
    BY <1>1, <1>3 DEF Reading, Ahead, From
  <2>2. Missed' = Missed /\ Removing' = Removing
    BY <2>1, <1>1, <1>3 DEF Missed, Removing
  <2>3. Tested'
    BY <2>1, <1>1, <1>3 DEF Tested
  <2>4. QED
    BY <2>1, <2>2, <2>3, <1>1, <1>3 DEF IInv, Calls
<1>7. Crashes'
  BY <1>1, <1>3 DEF IInv, Crashes
<1>8. QED
  BY <1>4, <1>5, <1>6, <1>7 DEF IInv

(* ... behind the array it reads only when something was removed ...        *)
LEMMA ReadingBehind ==
    ASSUME IInv, ReadNext, ~(app.i <= Len(output["aIncs"]))
    PROVE  IInv'
<1>1. /\ UNCHANGED <<pendingPorts, ports, backlog, pending, output, iState, object, pc, pos, visits,
                     before, app>>
      /\ app.at = "acceptAll" /\ app.tested /\ crashed' = TRUE
  BY DEF ReadNext, centers, queues
<1>2. app.ended > 0
  BY <1>1 DEF IInv, Calls, Tested
<1>3. TypeOK' /\ Backlogs' /\ (\A q \in Queue : Lists(q)') /\ Rounds'
  <2>1. TypeOK'
    BY <1>1 DEF IInv, TypeOK
  <2>2. Backlogs'
    BY <1>1 DEF IInv, Backlogs
  <2>3. \A q \in Queue : Lists(q)'
    BY <1>1 DEF IInv, Lists, Dying
  <2>4. Rounds'
    BY <1>1, SameRounds DEF IInv
  <2>5. QED
    BY <2>1, <2>2, <2>3, <2>4
<1>4. Calls'
  BY <1>1, KeepsCalls DEF IInv, Removing
<1>5. Crashes'
  BY <1>1, <1>2 DEF Crashes
<1>6. QED
  BY <1>3, <1>4, <1>5 DEF IInv

(* ... otherwise what it reads is ahead still ...                           *)
LEMMA ReadingOne ==
    ASSUME IInv, ReadNext, app.i <= Len(output["aIncs"])
    PROVE  IInv'
<1>1. /\ UNCHANGED <<pendingPorts, ports, backlog, pending, output, iState, object, pc, pos, visits,
                     before, crashed>>
      /\ app.at = "acceptAll" /\ ~Reading /\ app.i <= Len(output["aIncs"])
      /\ app' = [app EXCEPT !.tested = FALSE, !.read = output["aIncs"][app.i]]
  BY DEF ReadNext, centers, queues, IInv, Calls, Tested
<1>2. TypeOK /\ Lists("aIncs") /\ output["aIncs"] \in Seq(Incoming) /\ app \in Call
  BY <1>1, Calling, Kinds DEF IInv, TypeOK
<1> DEFINE c == output["aIncs"][app.i]
<1>3. /\ app.i \in Nat \ {0} /\ app.i \in 1..Len(output["aIncs"]) /\ Len(output["aIncs"]) \in Nat
      /\ c \in Incoming /\ app.ended \in Nat
  <2>1. app.i \in Nat \ {0} /\ Len(output["aIncs"]) \in Nat /\ app.ended \in Nat
    BY <1>2, LenProperties DEF Call
  <2>2. app.i \in 1..Len(output["aIncs"])
    BY <2>1, <1>1
  <2>3. QED
    BY <2>1, <2>2, <1>2, ElementOfSeq
<1>4. /\ app' \in Call /\ app'.at = "acceptAll" /\ app'.i = app.i /\ app'.read = c
      /\ app'.all = app.all /\ app'.ended = app.ended /\ app'.tested = FALSE
  BY <1>1, <1>2, <1>3 DEF Call
<1>5. TypeOK'
  BY <1>1, <1>2, <1>4 DEF TypeOK, App
<1>6. Backlogs' /\ (\A q \in Queue : Lists(q)') /\ Rounds'
  <2>1. Backlogs'
    BY <1>1 DEF IInv, Backlogs
  <2>2. \A q \in Queue : Lists(q)'
    BY <1>1 DEF IInv, Lists, Dying
  <2>3. Rounds'
    BY <1>1, SameRounds DEF IInv
  <2>4. QED
    BY <2>1, <2>2, <2>3
<1>7. Calls'
  <2>1. From("aIncs", app.i) = From("aIncs", app.i + 1) \cup {c}
    BY <1>3 DEF From
  <2>2. Ahead = From("aIncs", app.i)
    BY <1>1 DEF Ahead
  <2>3. Missed' \subseteq Missed
    <3>1. CASE c = NoConn
      <4>1. Reading' = Reading /\ Ahead' = Ahead
        BY <3>1, <1>1, <1>4 DEF Reading, Ahead, From
      <4>2. QED
        BY <4>1, <1>1, <1>4 DEF Missed
    <3>2. CASE c # NoConn
      <4>1. Reading'
        BY <3>2, <1>4 DEF Reading
      <4>2. Ahead' = From("aIncs", app.i + 1)
        BY <4>1, <1>1, <1>4 DEF Ahead, From
      <4>3. QED
        BY <4>1, <4>2, <2>1, <2>2, <1>1, <1>4 DEF Missed
    <3>3. QED
      BY <3>1, <3>2
  <2>4. /\ \A d \in app.all : object[d] # "none"
        /\ IsFiniteSet(app.all)
        /\ Cardinality(Missed) + Removing <= app.ended
    BY <1>1 DEF IInv, Calls
  <2>5. IsFiniteSet(Missed)
    BY <2>4, FS_Subset DEF Missed
  <2>6. /\ Cardinality(Missed') <= Cardinality(Missed)
        /\ Cardinality(Missed) \in Nat
        /\ Cardinality(Missed') \in Nat
    BY <2>3, <2>5, FS_Subset, FS_CardinalityType
  <2>7. Removing' = Removing /\ Removing \in Nat
    BY <1>1 DEF Removing
  <2>8. Cardinality(Missed') + Removing' <= app'.ended
    BY <2>4, <2>6, <2>7, <1>3, <1>4
  <2>9. object[c] = "live" \/ app.ended > 0
    <3>1. CASE Dying("aIncs", app.i)
      <4>1. Removing = 1
        BY <3>1 DEF Dying, Removing
      <4>2. QED
        BY <4>1, <2>4, <2>6, <1>3
    <3>2. CASE ~Dying("aIncs", app.i)
      BY <3>2, <1>2, <1>3 DEF Lists
    <3>3. QED
      BY <3>1, <3>2
  <2>10. Tested'
    BY <1>4 DEF Tested
  <2>11. QED
    BY <2>4, <2>8, <2>9, <2>10, <1>1, <1>4 DEF Calls
<1>8. Crashes'
  BY <1>1, <1>4 DEF IInv, Crashes
<1>9. QED
  BY <1>5, <1>6, <1>7, <1>8 DEF IInv

(* ... and what it accepted does not wait any more.                        *)
LEMMA AcceptingOne ==
    ASSUME IInv, CallAccept
    PROVE  IInv'
<1>1. /\ UNCHANGED <<pendingPorts, ports, backlog, pending, output,
                      object, pc, pos, visits, before>>
      /\ app.at = "acceptAll" /\ Reading
      /\ app' = [app EXCEPT !.read = NoConn, !.i = @ + 1]
  BY DEF CallAccept, centers, Reading
<1>2. \/ object[app.read] = "live" /\ iState' = [iState EXCEPT ![app.read] = "ACCEPT"]
         /\ crashed' = crashed
      \/ object[app.read] # "live" /\ crashed' = TRUE /\ iState' = iState
  BY DEF CallAccept
<1>3. TypeOK /\ app \in Call
  BY <1>1, Calling DEF IInv
<1>4. /\ app.i \in Nat \ {0} /\ app.ended \in Nat
      /\ app.read \in Incoming /\ app.all \subseteq Incoming
      /\ NoConn \in Incoming \cup {NoConn}
  BY <1>1, <1>3 DEF Call, Reading
<1>5. /\ app' \in Call /\ app'.at = "acceptAll" /\ app'.i = app.i + 1 /\ app'.read = NoConn
      /\ app'.all = app.all /\ app'.ended = app.ended /\ app'.tested = app.tested
  <2> DEFINE next == app.i + 1
  <2>1. next \in Nat \ {0}
    BY <1>4
  <2>2. app' = [app EXCEPT !.read = NoConn, !.i = next]
    BY <1>1
  <2> HIDE DEF next
  <2>3. /\ app' \in Call /\ app'.at = "acceptAll" /\ app'.i = next /\ app'.read = NoConn
        /\ app'.all = app.all /\ app'.ended = app.ended /\ app'.tested = app.tested
    BY <1>1, <1>3, <1>4, <2>1, <2>2 DEF Call
  <2>4. QED
    BY <2>3 DEF next
<1>6. TypeOK'
  <2>1. iState' \in [Incoming -> {"WAIT", "ACCEPT"}] /\ crashed' \in BOOLEAN
    BY <1>2, <1>3, <1>4 DEF TypeOK
  <2>2. QED
    BY <2>1, <1>1, <1>3, <1>5 DEF TypeOK, App
<1>7. Backlogs' /\ (\A q \in Queue : Lists(q)') /\ Rounds'
  <2>1. Backlogs'
    BY <1>1 DEF IInv, Backlogs
  <2>2. \A q \in Queue : Lists(q)'
    BY <1>1 DEF IInv, Lists, Dying
  <2>3. Rounds'
    BY <1>1, SameRounds DEF IInv
  <2>4. QED
    BY <2>1, <2>2, <2>3
<1>8. /\ \A d \in app.all : object[d] # "none"
      /\ IsFiniteSet(app.all)
      /\ Cardinality(Missed) + Removing <= app.ended
      /\ object[app.read] = "live" \/ app.ended > 0
      /\ ~app.tested
  BY <1>1 DEF IInv, Calls, Tested
<1>9. Calls'
  <2>1. ~Reading'
    BY <1>5 DEF Reading
  <2>2. Ahead' = From("aIncs", app.i + 1) /\ Ahead = From("aIncs", app.i + 1)
    BY <2>1, <1>1, <1>5 DEF Ahead, From
  <2>3. \A d \in Incoming : iState'[d] = "WAIT" =>
              iState[d] = "WAIT" /\ ~(object[d] = "live" /\ d = app.read)
    BY <1>2, <1>3, <1>4 DEF TypeOK
  <2>4. Missed' \subseteq Missed
    BY <2>1, <2>2, <2>3, <1>1, <1>4, <1>5 DEF Missed
  <2>5. Removing' = Removing /\ Removing \in Nat
    BY <1>1 DEF Removing
  <2>6. Cardinality(Missed') + Removing' <= app'.ended
    <3>1. IsFiniteSet(Missed)
      BY <1>8, FS_Subset DEF Missed
    <3>2. QED
      BY <2>4, <2>5, <3>1, <1>4, <1>5, <1>8, NoMore
  <2>7. IsFiniteSet(app'.all) /\ \A d \in app'.all : object'[d] # "none"
    BY <1>1, <1>5, <1>8
  <2>8. Tested'
    BY <1>5, <1>8 DEF Tested
  <2>9. QED
    BY <2>1, <2>6, <2>7, <2>8 DEF Calls
<1>10. Crashes'
  BY <1>1, <1>2, <1>5, <1>8 DEF IInv, Crashes
<1>11. QED
  BY <1>6, <1>7, <1>9, <1>10 DEF IInv

LEMMA Finishing ==
    ASSUME IInv, AcceptAllEnds, ~crashed
    PROVE  IInv'
<1>1. /\ UNCHANGED <<pendingPorts, ports, backlog, pending, output, iState, object, pc, pos, visits,
                     before, crashed>>
      /\ app' = Outside
  BY DEF AcceptAllEnds, centers, queues
<1>2. app' \in App /\ app'.at # "acceptAll"
  BY <1>1, Calling DEF IInv
<1>3. TypeOK'
  BY <1>1, <1>2 DEF IInv, TypeOK
<1>4. Backlogs' /\ (\A q \in Queue : Lists(q)') /\ Rounds'
  <2>1. Backlogs'
    BY <1>1 DEF IInv, Backlogs
  <2>2. \A q \in Queue : Lists(q)'
    BY <1>1 DEF IInv, Lists, Dying
  <2>3. Rounds'
    BY <1>1, SameRounds DEF IInv
  <2>4. QED
    BY <2>1, <2>2, <2>3
<1>5. Calls' /\ Crashes'
  BY <1>1, <1>2 DEF Calls, Crashes
<1>6. QED
  BY <1>3, <1>4, <1>5 DEF IInv
-----------------------------------------------------------------------------
(* The steps of work() at the ports.                                       *)
Idle == {<<"ports", "accept">>, <<"ports", "serve">>, <<"aIncs", "accept">>, <<"aOuts", "accept">>}

LEMMA IdleLabels ==
    /\ Idle \subseteq Label
    /\ \A w \in Idle, q \in Queue : w \notin {<<q, "process">>, <<q, "delete">>, <<q, "remove">>}
BY Kinds DEF Idle, Label

LEMMA Elsewhere ==
    ASSUME IInv, pc \in Idle, pc' \in Idle,
           UNCHANGED <<pending, output, iState, object, app, visits, before, crashed>>
    PROVE  (\A q \in Queue : Lists(q)') /\ Rounds' /\ Calls' /\ Crashes'
<1>1. \A q \in Queue : \A i : ~Dying(q, i) /\ ~Dying(q, i)'
  BY IdleLabels DEF Dying
<1>2. \A q \in Queue : Lists(q)'
  BY <1>1, IdleLabels, KeepsLists DEF IInv
<1>3. Rounds'
  BY IdleLabels, KeepsRounds DEF IInv, InLoop
<1>4. Removing' = Removing
  BY IdleLabels, Kinds DEF Removing
<1>5. Calls'
  BY <1>4, KeepsCalls DEF IInv
<1>6. Crashes'
  BY DEF IInv, Crashes
<1>7. QED
  BY <1>2, <1>3, <1>5, <1>6

LEMMA Listening ==
    ASSUME IInv,
           AcceptPorts \/ OpenFails \/ OpenPort \/ NoConnection \/ PortsDone
    PROVE  IInv'
<1>1. UNCHANGED <<backlog, pending, output, iState, object, app, visits, before, crashed>>
  BY DEF AcceptPorts, OpenFails, OpenPort, NoConnection, PortsDone, queues
<1>2. TypeOK /\ pos \in Nat \ {0}
  BY DEF IInv, TypeOK
<1>3. pc \in Idle /\ pc' \in Idle /\ pos' \in Nat \ {0}
  BY <1>2 DEF AcceptPorts, OpenFails, OpenPort, NoConnection, PortsDone,
              AtPort, Goto, Idle
<1>4. pendingPorts' \in Seq(Port) /\ ports' \in Seq([port : Port, iOpened : BOOLEAN])
  <2> DEFINE S == [port : Port, iOpened : BOOLEAN]
  <2>1. pendingPorts \in Seq(Port) /\ ports \in Seq(S)
    BY <1>2 DEF TypeOK
  <2>2. CASE AcceptPorts
    <3> DEFINE in == [i \in DOMAIN pendingPorts |-> [port |-> pendingPorts[i], iOpened |-> FALSE]]
    <3>1. DOMAIN pendingPorts = 1..Len(pendingPorts) /\ Len(pendingPorts) \in Nat
          /\ \A i \in 1..Len(pendingPorts) : pendingPorts[i] \in Port
      BY <2>1, LenProperties, ElementOfSeq
    <3>2. in \in [1..Len(pendingPorts) -> S]
      BY <3>1
    <3>3. in \in Seq(S)
      BY <3>1, <3>2, SeqDef
    <3>4. ports' = Moved(in, ports) /\ pendingPorts' = <<>>
      BY <2>2 DEF AcceptPorts
    <3> HIDE DEF in, S
    <3>5. ports' \in Seq(S)
      BY <2>1, <3>3, <3>4, MovedOne
    <3>6. pendingPorts' \in Seq(Port)
      BY <3>4, EmptySeq
    <3>7. QED
      BY <3>5, <3>6 DEF S
  <2>3. CASE OpenFails
    <3>1. pos \in 1..Len(ports) /\ ports' = RemoveAt(ports, pos) /\ pendingPorts' = pendingPorts
      BY <2>1, <2>3, <1>2, LenProperties DEF OpenFails, AtPort
    <3> HIDE DEF S
    <3>2. ports' \in Seq(S)
      BY <2>1, <3>1, Without
    <3>3. QED
      BY <2>1, <3>1, <3>2 DEF S
  <2>4. CASE OpenPort
    <3>1. ports' = [ports EXCEPT ![pos].iOpened = TRUE] /\ pendingPorts' = pendingPorts
      BY <2>4 DEF OpenPort
    <3>2. DOMAIN ports = 1..Len(ports) /\ Len(ports) \in Nat
          /\ \A i \in 1..Len(ports) : ports[i] \in S
      BY <2>1, LenProperties, ElementOfSeq
    <3>3. ports' \in [1..Len(ports) -> S]
      BY <3>1, <3>2, <2>1
    <3> HIDE DEF S
    <3>4. ports' \in Seq(S)
      BY <3>2, <3>3, SeqDef
    <3>5. QED
      BY <2>1, <3>1, <3>4 DEF S
  <2>5. CASE NoConnection \/ PortsDone
    BY <2>1, <2>5 DEF NoConnection, PortsDone
  <2>6. QED
    BY <2>2, <2>3, <2>4, <2>5
<1>5. TypeOK'
  BY <1>1, <1>2, <1>3, <1>4, IdleLabels DEF TypeOK
<1>6. Backlogs'
  BY <1>1 DEF IInv, Backlogs
<1>7. QED
  BY <1>1, <1>3, <1>5, <1>6, Elsewhere DEF IInv

(* A backlog without its first connection.                                 *)
LEMMA Shorter ==
    ASSUME IInv, NEW p \in Port, backlog[p] # <<>>,
           backlog' = [backlog EXCEPT ![p] = Tail(@)]
    PROVE  /\ Head(backlog[p]) \in Incoming /\ object[Head(backlog[p])] = "none"
           /\ backlog' \in [Port -> Seq(Incoming)]
           /\ \A r, s \in Port : \A i \in 1..Len(backlog'[r]), j \in 1..Len(backlog'[s]) :
                 backlog'[r][i] = backlog'[s][j] => r = s /\ i = j
           /\ \A r \in Port : \A i \in 1..Len(backlog'[r]) :
                 /\ object[backlog'[r][i]] = "none" /\ backlog'[r][i] \in Incoming
                 /\ backlog'[r][i] # Head(backlog[p])
<1>1. /\ backlog \in [Port -> Seq(Incoming)]
      /\ \A r \in Port : backlog[r] \in Seq(Incoming)
      /\ \A r \in Port : backlog'[r] = IF r = p THEN Tail(backlog[p]) ELSE backlog[r]
  BY DEF IInv, TypeOK
<1>2. /\ Head(backlog[p]) = backlog[p][1] /\ Len(backlog[p]) \in Nat \ {0}
      /\ Head(backlog[p]) \in Incoming
      /\ Tail(backlog[p]) \in Seq(Incoming) /\ Len(Tail(backlog[p])) = Len(backlog[p]) - 1
      /\ \A i \in 1..Len(backlog[p]) - 1 : Tail(backlog[p])[i] = backlog[p][i + 1]
  <2>1. backlog[p] \in Seq(Incoming)
    BY <1>1
  <2>2. QED
    BY <2>1, Following
<1>3. backlog' \in [Port -> Seq(Incoming)]
  BY <1>1, <1>2
<1> DEFINE from(r, i) == IF r = p THEN i + 1 ELSE i
<1>4. ASSUME NEW r \in Port, NEW i \in 1..Len(backlog'[r])
      PROVE  /\ from(r, i) \in 1..Len(backlog[r]) /\ backlog'[r][i] = backlog[r][from(r, i)]
             /\ r = p => from(r, i) # 1
  <2>1. Len(backlog[r]) \in Nat
    BY <1>1, LenProperties
  <2>2. QED
    BY <2>1, <1>1, <1>2
<1>5. \A r, s \in Port : \A i \in 1..Len(backlog'[r]), j \in 1..Len(backlog'[s]) :
                 backlog'[r][i] = backlog'[s][j] => r = s /\ i = j
  <2> SUFFICES ASSUME NEW r \in Port, NEW s \in Port, NEW i \in 1..Len(backlog'[r]),
                      NEW j \in 1..Len(backlog'[s]), backlog'[r][i] = backlog'[s][j]
               PROVE  r = s /\ i = j
    OBVIOUS
  <2>1. r = s /\ from(r, i) = from(s, j)
    BY <1>4 DEF IInv, Backlogs
  <2>2. QED
    BY <2>1
<1>6. \A r \in Port : \A i \in 1..Len(backlog'[r]) :
                 /\ object[backlog'[r][i]] = "none" /\ backlog'[r][i] \in Incoming
                 /\ backlog'[r][i] # Head(backlog[p])
  <2> SUFFICES ASSUME NEW r \in Port, NEW i \in 1..Len(backlog'[r])
               PROVE  /\ object[backlog'[r][i]] = "none" /\ backlog'[r][i] \in Incoming
                      /\ backlog'[r][i] # Head(backlog[p])
    OBVIOUS
  <2>1. object[backlog'[r][i]] = "none"
    BY <1>4 DEF IInv, Backlogs
  <2>2. backlog'[r][i] \in Incoming
    BY <1>3, ElementOfSeq
  <2>3. backlog'[r][i] # Head(backlog[p])
    <3>1. 1 \in 1..Len(backlog[p])
      BY <1>2
    <3>2. QED
      BY <1>2, <1>4, <3>1 DEF IInv, Backlogs
  <2>4. QED
    BY <2>1, <2>2, <2>3
<1>7. object[Head(backlog[p])] = "none"
  BY <1>2 DEF IInv, Backlogs
<1>8. QED
  BY <1>2, <1>3, <1>5, <1>6, <1>7

LEMMA Refusing ==
    ASSUME IInv, AcceptFails
    PROVE  IInv'
<1>1. UNCHANGED <<pendingPorts, ports, pending, output, iState, object,
                   app, visits, before, crashed>>
  BY DEF AcceptFails, queues
<1>2. TypeOK /\ pos \in Nat \ {0} /\ ports \in Seq([port : Port, iOpened : BOOLEAN])
  BY DEF IInv, TypeOK
<1>3. pc \in Idle /\ pc' \in Idle /\ pos' \in Nat \ {0}
  BY <1>2 DEF AcceptFails, AtPort, Goto, Idle
<1> DEFINE p == Here.port
<1>4. /\ p \in Port /\ backlog[p] # <<>>
      /\ backlog' \in {backlog, [backlog EXCEPT ![p] = Tail(@)]}
  <2>1. pos \in 1..Len(ports)
    BY <1>2, LenProperties DEF AcceptFails, AtPort
  <2>2. ports[pos] \in [port : Port, iOpened : BOOLEAN]
    BY <1>2, <2>1, ElementOfSeq
  <2>3. QED
    BY <2>2 DEF AcceptFails, Here
<1> HIDE DEF p
<1>5. backlog' \in [Port -> Seq(Incoming)] /\ Backlogs'
  <2>1. CASE backlog' = backlog
    BY <1>1, <2>1 DEF IInv, TypeOK, Backlogs
  <2>2. CASE backlog' = [backlog EXCEPT ![p] = Tail(@)]
    BY <1>1, <1>4, <2>2, Shorter DEF Backlogs
  <2>3. QED
    BY <1>4, <2>1, <2>2
<1>6. TypeOK'
  BY <1>1, <1>2, <1>3, <1>5, IdleLabels DEF TypeOK
<1>7. QED
  BY <1>1, <1>3, <1>5, <1>6, Elsewhere DEF IInv

LEMMA TakingOne ==
    ASSUME IInv, TakeConnection
    PROVE  IInv'
<1>1. UNCHANGED <<pendingPorts, ports, output, app, visits, before, crashed>>
  BY DEF TakeConnection
<1>2. TypeOK /\ pos \in Nat \ {0} /\ ports \in Seq([port : Port, iOpened : BOOLEAN])
  BY DEF IInv, TypeOK
<1>3. pc \in Idle /\ pc' \in Idle /\ pos' \in Nat \ {0}
  BY <1>2 DEF TakeConnection, AtPort, Goto, Idle
<1> DEFINE p == Here.port
           c == Head(backlog[p])
<1>4. /\ p \in Port /\ backlog[p] # <<>>
      /\ backlog' = [backlog EXCEPT ![p] = Tail(@)]
      /\ object' = [object EXCEPT ![c] = "live"]
      /\ iState' \in {iState, [iState EXCEPT ![c] = "ACCEPT"]}
      /\ pending' = [pending EXCEPT !["aIncs"] = Append(@, c)]
  <2>1. pos \in 1..Len(ports)
    BY <1>2, LenProperties DEF TakeConnection, AtPort
  <2>2. ports[pos] \in [port : Port, iOpened : BOOLEAN]
    BY <1>2, <2>1, ElementOfSeq
  <2>3. QED
    BY <2>2 DEF TakeConnection, Here
<1> HIDE DEF p
<1>5. /\ c \in Incoming /\ object[c] = "none"
      /\ backlog' \in [Port -> Seq(Incoming)]
      /\ \A r, s \in Port : \A i \in 1..Len(backlog'[r]), j \in 1..Len(backlog'[s]) :
            backlog'[r][i] = backlog'[s][j] => r = s /\ i = j
      /\ \A r \in Port : \A i \in 1..Len(backlog'[r]) :
            object[backlog'[r][i]] = "none" /\ backlog'[r][i] \in Incoming /\ backlog'[r][i] # c
  BY <1>4, Shorter
<1> HIDE DEF c
<1>6. Incoming \cap Outgoing = {} /\ c \in Conn
  BY <1>5, Kinds DEF IInv
<1>7. \A d \in Conn : object'[d] = IF d = c THEN "live" ELSE object[d]
  BY <1>2, <1>4, <1>6 DEF TypeOK
<1>8. Backlogs'
  BY <1>5, <1>7, Kinds DEF Backlogs
<1>9. TypeOK'
  <2>1. /\ pending'["aIncs"] \in Seq(Incoming) /\ pending'["aIncs"] \in Seq(Conn)
        /\ pending'["aOuts"] = pending["aOuts"]
    <3>1. pending["aIncs"] \in Seq(Incoming) /\ pending["aIncs"] \in Seq(Conn)
      BY <1>2, Kinds DEF TypeOK
    <3>2. pending'["aIncs"] = Append(pending["aIncs"], c) /\ pending'["aOuts"] = pending["aOuts"]
      BY <1>2, <1>4, Kinds DEF TypeOK
    <3>3. QED
      BY <3>1, <3>2, <1>5, <1>6, With
  <2>2. pending' \in [Queue -> Seq(Conn)] /\ \A q \in Queue : pending'[q] \in Seq(Kind(q))
    BY <2>1, <1>2, <1>4, Kinds DEF TypeOK
  <2>3. object' \in [Conn -> {"none", "live", "deleted"}]
    BY <1>2, <1>4 DEF TypeOK
  <2>4. iState' \in [Incoming -> {"WAIT", "ACCEPT"}]
    BY <1>2, <1>4, <1>5 DEF TypeOK
  <2>5. QED
    BY <2>2, <2>3, <2>4, <1>1, <1>2, <1>3, <1>5, IdleLabels DEF TypeOK
<1>10. \A q \in Queue : \A i : ~Dying(q, i) /\ ~Dying(q, i)'
  BY <1>3, IdleLabels DEF Dying
<1>11. \A q \in Queue : pc' \notin {<<q, "delete">>, <<q, "remove">>}
  BY <1>3, IdleLabels
<1>12. Lists("aIncs")'
  <2>1. Lists("aIncs") /\ c \in Kind("aIncs")
    BY <1>5, Kinds DEF IInv
  <2>2. QED
    BY <2>1, <1>1, <1>2, <1>4, <1>5, <1>10, <1>11, Kinds, Pushed
<1>13. Lists("aOuts")'
  <2>1. Lists("aOuts") /\ \A d \in Kind("aOuts") : object'[d] = object[d]
    BY <1>5, <1>6, <1>7, Kinds DEF IInv
  <2>2. pending'["aOuts"] = pending["aOuts"]
    BY <1>2, <1>4, Kinds DEF TypeOK
  <2>3. QED
    BY <2>1, <2>2, <1>1, <1>2, <1>10, <1>11, Kinds, KeepsLists
<1>14. Rounds'
  BY <1>1, <1>3, IdleLabels, KeepsRounds DEF IInv, InLoop
<1>15. Calls'
  <2>1. Removing' = Removing
    BY <1>3, IdleLabels, Kinds DEF Removing
  <2>2. \A d \in Incoming : /\ object[d] # "none" => object'[d] = object[d]
                            /\ iState'[d] = "WAIT" => iState[d] = "WAIT"
    BY <1>2, <1>4, <1>5, <1>7, Kinds DEF TypeOK
  <2>3. QED
    BY <2>1, <2>2, <1>1, <1>2, KeepsCalls DEF IInv
<1>16. Crashes'
  BY <1>1 DEF IInv, Crashes
<1>17. QED
  BY <1>6, <1>8, <1>9, <1>12, <1>13, <1>14, <1>15, <1>16, Kinds DEF IInv
-----------------------------------------------------------------------------
(* The steps of work() in its loops.                                       *)
LEMMA LoopLabels ==
    ASSUME NEW q \in Queue, NEW r \in Queue, r # q,
           NEW l \in {"accept", "process", "delete", "remove"}
    PROVE  /\ <<q, l>> \in Label
           /\ <<q, l>> \notin {<<r, "process">>, <<r, "delete">>, <<r, "remove">>}
BY DEF Label

LEMMA Admitting ==
    ASSUME IInv, NEW q \in Queue, Accept(q)
    PROVE  IInv'
<1>1. /\ UNCHANGED <<pendingPorts, ports, backlog, iState, object, visits, app, crashed>>
      /\ pc = <<q, "accept">> /\ pc' = <<q, "process">> /\ pos' = 1
      /\ output' = [output EXCEPT ![q] = Moved(pending[q], @)]
      /\ pending' = [pending EXCEPT ![q] = <<>>]
      /\ before' = ToSet(output'[q])
  BY DEF Accept, Goto
<1>2. TypeOK /\ Lists(q) /\ pc \in Idle
  BY <1>1, Kinds DEF IInv, Idle
<1>3. /\ pending[q] \in Seq(Kind(q)) /\ output[q] \in Seq(Kind(q))
      /\ Len(output[q]) \in Nat /\ Kind(q) \subseteq Conn
      /\ pending'[q] = <<>> /\ output'[q] = Moved(pending[q], output[q])
      /\ \A r \in Queue : r # q => pending'[r] = pending[r] /\ output'[r] = output[r]
  BY <1>1, <1>2, Kinds, LenProperties DEF TypeOK
<1> DEFINE m == Moved(pending[q], output[q])
<1>4. /\ m \in Seq(Kind(q)) /\ Len(m) \in {Len(output[q]), Len(output[q]) + 1}
      /\ \A i \in 1..Len(output[q]) : m[i] = output[q][i]
      /\ Len(m) = Len(output[q]) + 1 =>
            pending[q] # <<>> /\ 1 \in 1..Len(pending[q]) /\ m[Len(output[q]) + 1] = pending[q][1]
  BY <1>3, MovedOne
<1> HIDE DEF m
<1>5. output'[q] = m
  BY <1>3 DEF m
<1>6. \A i \in 1..Len(m) : \/ i \in 1..Len(output[q]) /\ m[i] = output[q][i]
                           \/ /\ i = Len(output[q]) + 1 /\ m[i] = pending[q][1]
                              /\ 1 \in 1..Len(pending[q])
  BY <1>3, <1>4
<1>7. TypeOK'
  <2>1. m \in Seq(Conn)
    <3>1. \A i \in 1..Len(m) : m[i] \in Conn
      BY <1>3, <1>4, ElementOfSeq
    <3>2. Len(m) \in Nat /\ m \in [1..Len(m) -> Kind(q)]
      BY <1>4, LenProperties
    <3>3. m \in [1..Len(m) -> Conn]
      BY <3>1, <3>2
    <3>4. QED
      BY <3>2, <3>3, SeqDef
  <2>2. /\ output' \in [Queue -> Seq(Conn)] /\ pending' \in [Queue -> Seq(Conn)]
        /\ \A r \in Queue : pending'[r] \in Seq(Kind(r)) /\ output'[r] \in Seq(Kind(r))
    <3>1. <<>> \in Seq(Conn) /\ <<>> \in Seq(Kind(q))
      BY EmptySeq
    <3>2. output' \in [Queue -> Seq(Conn)]
      BY <2>1, <1>1, <1>2 DEF TypeOK, m
    <3>3. pending' \in [Queue -> Seq(Conn)]
      BY <3>1, <1>1, <1>2 DEF TypeOK
    <3>4. ASSUME NEW r \in Queue
          PROVE  pending'[r] \in Seq(Kind(r)) /\ output'[r] \in Seq(Kind(r))
      <4>1. CASE r = q
        BY <4>1, <3>1, <1>3, <1>4, <1>5
      <4>2. CASE r # q
        BY <4>2, <1>2, <1>3 DEF TypeOK
      <4>3. QED
        BY <4>1, <4>2
    <3>5. QED
      BY <3>2, <3>3, <3>4
  <2>3. before' \subseteq Conn
    BY <2>1, <1>1, <1>5, FewElements
  <2>4. pc' \in Label
    BY <1>1 DEF Label
  <2>5. QED
    BY <2>2, <2>3, <2>4, <1>1, <1>2 DEF TypeOK
<1>8. Backlogs'
  BY <1>1 DEF IInv, Backlogs
<1>9. ASSUME NEW r \in Queue PROVE Lists(r)'
  <2>1. CASE r # q
    <3>1. /\ \A i : ~Dying(r, i) /\ ~Dying(r, i)'
          /\ pc' \notin {<<r, "delete">>, <<r, "remove">>}
      BY <2>1, <1>1, <1>2, IdleLabels, LoopLabels DEF Dying
    <3>2. QED
      BY <2>1, <3>1, <1>1, <1>2, <1>3, KeepsLists DEF IInv
  <2>2. CASE r = q
    <3>1. \A i : ~Dying(q, i)
      BY <1>2, IdleLabels DEF Dying
    <3>2. Len(pending'[q]) = 0
      BY <1>3
    <3>3. NoTwice(m)
      BY <1>3, <1>6, <1>2 DEF Lists, NoTwice
    <3>4. \A i \in 1..Len(m) : object[m[i]] = "live"
      BY <1>2, <1>6, <3>1 DEF Lists
    <3>5. pc' \notin {<<q, "delete">>, <<q, "remove">>}
      BY <1>1
    <3>6. \A i : ~Dying(q, i)'
      BY <3>5 DEF Dying
    <3>7. QED
      BY <2>2, <3>2, <3>3, <3>4, <3>5, <3>6, <1>1, <1>5 DEF Lists, NoTwice
  <2>3. QED
    BY <2>1, <2>2
<1>10. Rounds'
  <2>1. visits = <<>>
    BY <1>2, IdleLabels DEF IInv, Rounds, InLoop
  <2>2. Visited' = {} /\ NoTwice(visits')
    BY <2>1, <1>1 DEF Visited, NoTwice
  <2>3. Rest(q)' = before'
    <3>1. Rest(q)' = {m[i] : i \in 1..Len(m)}
      BY <1>1, <1>5 DEF Rest, From
    <3>2. before' = {m[i] : i \in 1..Len(m)}
      BY <1>1, <1>4, <1>5, FewElements
    <3>3. QED
      BY <3>1, <3>2
  <2>4. \A r \in Queue : InLoop(r)' => r = q
    BY <1>1, LoopLabels DEF InLoop
  <2>5. InLoop(q)'
    BY <1>1 DEF InLoop
  <2>6. QED
    BY <2>2, <2>3, <2>4, <2>5 DEF Rounds
<1>11. Calls'
  <2>1. Removing' = Removing
    BY <1>1 DEF Removing
  <2>2. ASSUME app.at = "acceptAll" PROVE Ahead \subseteq Ahead'
    <3> DEFINE n == IF Reading THEN app.i + 1 ELSE app.i
    <3>1. n \in Nat \ {0}
      BY <2>2, <1>2, Calling DEF Call
    <3>2. /\ Ahead = {output["aIncs"][i] : i \in n..Len(output["aIncs"])}
          /\ Ahead' = {output'["aIncs"][i] : i \in n..Len(output'["aIncs"])}
      BY <1>1 DEF Ahead, From, Reading
    <3> HIDE DEF n
    <3>3. CASE q = "aIncs"
      <4>1. \A i \in n..Len(output[q]) : i \in n..Len(m) /\ m[i] = output[q][i]
        BY <1>3, <1>4, <3>1
      <4>2. QED
        BY <4>1, <3>2, <3>3, <1>5
    <3>4. CASE q # "aIncs"
      BY <3>2, <3>4, <1>3, Kinds
    <3>5. QED
      BY <3>3, <3>4
  <2>3. /\ Len(output'["aIncs"]) >= Len(output["aIncs"])
        /\ Len(output'["aIncs"]) \in Nat
    <3>1. Len(output["aIncs"]) \in Nat
      BY <1>2, Kinds, LenProperties DEF TypeOK
    <3>2. CASE q = "aIncs"
      BY <3>1, <3>2, <1>3, <1>4, <1>5
    <3>3. CASE q # "aIncs"
      BY <3>1, <3>3, <1>3, Kinds
    <3>4. QED
      BY <3>2, <3>3
  <2>4. QED
    BY <2>1, <2>2, <2>3, <1>1, <1>2, GrowingCalls DEF IInv
<1>12. Crashes'
  BY <1>1 DEF IInv, Crashes
<1>13. QED
  BY <1>7, <1>8, <1>9, <1>10, <1>11, <1>12 DEF IInv

(* One visit: what it visits was not visited before in this loop.          *)
LEMMA VisitingOne ==
    ASSUME IInv, ~crashed, NEW q \in Queue, NEW c,
           Repeats(q, c) \/ Ends(q, c)
    PROVE  IInv'
<1>1. /\ UNCHANGED <<pendingPorts, ports, backlog, pending, output, iState, object, before, app>>
      /\ pc = <<q, "process">> /\ pos <= Len(output[q]) /\ c = output[q][pos]
      /\ visits' = Append(visits, c) /\ crashed' = (object[c] # "live")
      /\ \/ pc' = <<q, "process">> /\ pos' = pos + 1
         \/ pc' = <<q, "delete">> /\ pos' = pos
  BY DEF Repeats, Ends, Visiting, Visit, Goto, queues
<1>2. TypeOK /\ Lists(q) /\ Rounds
  BY DEF IInv
<1>3. /\ output[q] \in Seq(Conn) /\ Len(output[q]) \in Nat /\ pos \in Nat \ {0}
      /\ pos \in 1..Len(output[q]) /\ c \in Conn
      /\ visits \in Seq(Conn) /\ Len(visits) \in Nat
  <2>1. /\ output[q] \in Seq(Conn) /\ Len(output[q]) \in Nat /\ pos \in Nat \ {0}
        /\ visits \in Seq(Conn) /\ Len(visits) \in Nat
    BY <1>2, LenProperties DEF TypeOK
  <2>2. pos \in 1..Len(output[q])
    BY <2>1, <1>1
  <2>3. QED
    BY <2>1, <2>2, <1>1, ElementOfSeq
<1>4. crashed' = FALSE
  <2>1. ~Dying(q, pos)
    BY <1>1 DEF Dying
  <2>2. object[c] = "live"
    BY <2>1, <1>1, <1>2, <1>3 DEF Lists
  <2>3. QED
    BY <2>2, <1>1
<1>5. /\ visits' \in Seq(Conn) /\ Len(visits') = Len(visits) + 1
      /\ \A i \in 1..Len(visits) : visits'[i] = visits[i]
      /\ visits'[Len(visits) + 1] = c
  BY <1>1, <1>3, With
<1>6. TypeOK'
  <2>1. pc' \in Label /\ pos' \in Nat \ {0}
    BY <1>1, <1>3 DEF Label
  <2>2. QED
    BY <2>1, <1>1, <1>2, <1>4, <1>5 DEF TypeOK
<1>7. Backlogs'
  BY <1>1 DEF IInv, Backlogs
<1>8. ASSUME NEW r \in Queue PROVE Lists(r)'
  <2>1. \A i : ~Dying(r, i) /\ ~Dying(r, i)'
    BY <1>1 DEF Dying
  <2>2. pc' \in {<<r, "delete">>, <<r, "remove">>} => pos' <= Len(output[r])
    BY <1>1, <1>3
  <2>3. QED
    BY <2>1, <2>2, <1>1, <1>2, KeepsLists DEF IInv
<1>9. Rounds'
  <2>1. Visited' = Visited \cup {c}
    BY <1>3, <1>5 DEF Visited
  <2>2. From(q, pos) = {c} \cup From(q, pos + 1) /\ c \notin From(q, pos + 1)
    <3>1. \A i \in 1..Len(output[q]) : output[q][i] = c => i = pos
      BY <1>1, <1>2, <1>3 DEF Lists, NoTwice
    <3>2. \A i \in pos..Len(output[q]) : i = pos \/ i \in pos + 1..Len(output[q])
      BY <1>3
    <3>3. pos \in pos..Len(output[q])
      BY <1>3
    <3>4. \A i \in pos + 1..Len(output[q]) :
               i \in pos..Len(output[q]) /\ i \in 1..Len(output[q]) /\ i # pos
      BY <1>3
    <3>5. QED
      BY <3>1, <3>2, <3>3, <3>4, <1>1 DEF From
  <2>3. From(q, pos) \cap Visited = {} /\ before = From(q, pos) \cup Visited
    BY <1>1, <1>2 DEF Rounds, Rest, InLoop
  <2>4. Rest(q)' = From(q, pos + 1)
    <3>1. From(q, pos + 1)' = {output[q][i] : i \in pos' + 1..Len(output[q])}
      BY <1>1 DEF From
    <3>2. From(q, pos)' = {output[q][i] : i \in pos'..Len(output[q])}
      BY <1>1 DEF From
    <3>3. CASE pc' = <<q, "process">> /\ pos' = pos + 1
      BY <3>2, <3>3 DEF Rest, From
    <3>4. CASE pc' = <<q, "delete">> /\ pos' = pos
      <4>1. pc' # <<q, "process">>
        BY <3>4
      <4>2. QED
        BY <3>1, <3>4, <4>1 DEF Rest, From
    <3>5. QED
      BY <3>3, <3>4, <1>1
  <2>5. NoTwice(visits')
    <3>1. \A i \in 1..Len(visits) : visits[i] # c
      BY <2>2, <2>3 DEF Visited
    <3>2. QED
      BY <3>1, <1>2, <1>3, <1>5 DEF Rounds, NoTwice
  <2>6. \A r \in Queue : InLoop(r)' => r = q
    BY <1>1 DEF InLoop
  <2>7. InLoop(q)'
    BY <1>1 DEF InLoop
  <2>8. /\ Rest(q)' \cap Visited' = {} /\ before' = Rest(q)' \cup Visited'
    BY <2>1, <2>2, <2>3, <2>4, <1>1
  <2>9. QED
    BY <2>5, <2>6, <2>7, <2>8 DEF Rounds
<1>10. Calls'
  <2>1. Removing' = Removing
    BY <1>1 DEF Removing
  <2>2. QED
    BY <2>1, <1>1, <1>2, KeepsCalls DEF IInv
<1>11. Crashes'
  BY <1>4 DEF Crashes
<1>12. QED
  BY <1>6, <1>7, <1>8, <1>9, <1>10, <1>11 DEF IInv

LEMMA EndingLoop ==
    ASSUME IInv, NEW q \in Queue, LoopEnds(q)
    PROVE  IInv'
<1>1. /\ UNCHANGED <<pendingPorts, ports, backlog, pending, output, iState, object, app, crashed>>
      /\ pc = <<q, "process">> /\ pc' \in Idle /\ pos' = 1
      /\ visits' = <<>> /\ before' = {}
  BY DEF LoopEnds, Goto, queues, Idle
<1>2. TypeOK
  BY DEF IInv
<1>3. TypeOK'
  <2>1. visits' \in Seq(Conn)
    BY <1>1, EmptySeq
  <2>2. QED
    BY <2>1, <1>1, <1>2, IdleLabels DEF TypeOK
<1>4. Backlogs'
  BY <1>1 DEF IInv, Backlogs
<1>5. ASSUME NEW r \in Queue PROVE Lists(r)'
  <2>1. \A i : ~Dying(r, i) /\ ~Dying(r, i)'
    BY <1>1, IdleLabels DEF Dying
  <2>2. pc' \notin {<<r, "delete">>, <<r, "remove">>}
    BY <1>1, IdleLabels
  <2>3. QED
    BY <2>1, <2>2, <1>1, <1>2, KeepsLists DEF IInv
<1>6. Rounds'
  <2>1. \A r \in Queue : ~InLoop(r)'
    BY <1>1, IdleLabels DEF InLoop
  <2>2. NoTwice(visits')
    BY <1>1 DEF NoTwice
  <2>3. QED
    BY <2>1, <2>2, <1>1 DEF Rounds
<1>7. Calls'
  <2>1. Removing' = Removing
    BY <1>1, IdleLabels, Kinds DEF Removing
  <2>2. QED
    BY <2>1, <1>1, <1>2, KeepsCalls DEF IInv
<1>8. Crashes'
  BY <1>1 DEF IInv, Crashes
<1>9. QED
  BY <1>3, <1>4, <1>5, <1>6, <1>7, <1>8 DEF IInv

(* The object deleted is of nobody else, and the application's thread sees  *)
(* one more ended when it is in acceptAll.                                  *)
LEMMA Deleting ==
    ASSUME IInv, NEW q \in Queue, Delete(q)
    PROVE  IInv'
<1> DEFINE d == output[q][pos]
<1>1. /\ UNCHANGED <<pendingPorts, ports, backlog, pending, output,
                      iState, visits, before, crashed>>
      /\ pc = <<q, "delete">> /\ pc' = <<q, "remove">> /\ pos' = pos
      /\ object' = [object EXCEPT ![d] = "deleted"]
      /\ app' = IF q = "aIncs" /\ app.at = "acceptAll" THEN [app EXCEPT !.ended = @ + 1] ELSE app
  BY DEF Delete, Goto
<1>2. TypeOK /\ Lists(q) /\ Rounds /\ Incoming \cap Outgoing = {}
  BY Kinds DEF IInv
<1>3. /\ pos \in 1..Len(output[q]) /\ d \in Kind(q) /\ d \in Conn /\ Len(output[q]) \in Nat
      /\ Kind(q) \subseteq Conn /\ pos \in Nat \ {0}
  <2>1. pos \in Nat \ {0} /\ pos <= Len(output[q]) /\ Len(output[q]) \in Nat
    BY <1>1, <1>2, LenProperties DEF TypeOK, Lists
  <2>2. pos \in 1..Len(output[q])
    BY <2>1
  <2>3. output[q] \in Seq(Kind(q))
    BY <1>2 DEF TypeOK
  <2>4. QED
    BY <2>1, <2>2, <2>3, ElementOfSeq, Kinds
<1>4. object[d] = "live"
  <2>1. ~Dying(q, pos)
    BY <1>1 DEF Dying
  <2>2. QED
    BY <2>1, <1>2, <1>3 DEF Lists
<1>5. /\ \A i \in 1..Len(output[q]) : i # pos => output[q][i] # d
      /\ \A i \in 1..Len(pending[q]) : pending[q][i] # d
  BY <1>2, <1>3 DEF Lists, NoTwice
<1> HIDE DEF d
<1>6. \A c \in Conn : object'[c] = IF c = d THEN "deleted" ELSE object[c]
  BY <1>1, <1>2, <1>3 DEF TypeOK
<1>7. app.at = "acceptAll" => app \in Call /\ app.ended \in Nat
  BY <1>2, Calling DEF Call
<1>8. /\ app' \in App /\ app'.at = app.at
      /\ app.at = "acceptAll" =>
            /\ app'.i = app.i /\ app'.read = app.read /\ app'.all = app.all
            /\ app'.ended = IF q = "aIncs" THEN app.ended + 1 ELSE app.ended
  <2>1. CASE q = "aIncs" /\ app.at = "acceptAll"
    <3> DEFINE n == app.ended + 1
    <3>1. app' = [app EXCEPT !.ended = n] /\ n \in Nat
      BY <2>1, <1>1, <1>7
    <3> HIDE DEF n
    <3>2. /\ app' \in Call /\ app'.at = app.at /\ app'.i = app.i /\ app'.read = app.read
          /\ app'.all = app.all /\ app'.ended = n
      BY <3>1, <2>1, <1>7 DEF Call
    <3>3. QED
      BY <3>2, <2>1 DEF App, n
  <2>2. CASE ~(q = "aIncs" /\ app.at = "acceptAll")
    <3>1. app' = app
      BY <1>1, <2>2
    <3>2. QED
      BY <3>1, <2>2, <1>2 DEF TypeOK
  <2>3. QED
    BY <2>1, <2>2
<1>9. TypeOK'
  <2>1. pc' \in Label
    BY <1>1 DEF Label
  <2>2. object' \in [Conn -> {"none", "live", "deleted"}]
    BY <1>1, <1>2 DEF TypeOK
  <2>3. QED
    BY <2>1, <2>2, <1>1, <1>2, <1>8 DEF TypeOK
<1>10. Backlogs'
  <2>1. \A p \in Port : \A i \in 1..Len(backlog[p]) : backlog[p][i] \in Conn
    <3>1. \A p \in Port : backlog[p] \in Seq(Incoming)
      BY <1>2 DEF TypeOK
    <3>2. QED
      BY <3>1, ElementOfSeq, Kinds
  <2>2. QED
    BY <2>1, <1>1, <1>4, <1>6 DEF IInv, Backlogs
<1>11. ASSUME NEW r \in Queue PROVE Lists(r)'
  <2>1. CASE r # q
    <3>1. \A c \in Kind(r) : object'[c] = object[c]
      BY <2>1, <1>2, <1>3, <1>6, Kinds
    <3>2. \A i : ~Dying(r, i) /\ ~Dying(r, i)'
      BY <1>1, <2>1 DEF Dying
    <3>3. pc' \notin {<<r, "delete">>, <<r, "remove">>}
      BY <1>1, <2>1
    <3>4. QED
      BY <3>1, <3>2, <3>3, <1>1, <1>2, KeepsLists DEF IInv
  <2>2. CASE r = q
    <3>1. /\ \A i \in 1..Len(pending[q]) : pending[q][i] \in Conn
          /\ \A i \in 1..Len(output[q]) : output[q][i] \in Conn
      BY <1>2, ElementOfSeq DEF TypeOK
    <3>2. Dying(q, pos)' /\ \A i : ~Dying(q, i)
      BY <1>1 DEF Dying
    <3>3. \A i \in 1..Len(pending[q]) : object'[pending[q][i]] = "live"
      BY <3>1, <1>2, <1>5, <1>6 DEF Lists
    <3>4. \A i \in 1..Len(output[q]) :
             object'[output[q][i]] = IF Dying(q, i)' THEN "deleted" ELSE "live"
      <4> SUFFICES ASSUME NEW i \in 1..Len(output[q])
                   PROVE  object'[output[q][i]] = IF Dying(q, i)' THEN "deleted" ELSE "live"
        OBVIOUS
      <4>1. CASE i = pos
        <5>1. object'[d] = "deleted" /\ Dying(q, i)'
          BY <4>1, <1>3, <1>6, <1>1 DEF Dying
        <5>2. QED
          BY <5>1, <4>1 DEF d
      <4>2. CASE i # pos
        <5>1. ~Dying(q, i)'
          BY <4>2, <1>1 DEF Dying
        <5>2. QED
          BY <4>2, <5>1, <3>1, <3>2, <1>2, <1>5, <1>6 DEF Lists
      <4>3. QED
        BY <4>1, <4>2
    <3>5. QED
      BY <2>2, <3>3, <3>4, <1>1, <1>2, <1>3 DEF Lists
  <2>3. QED
    BY <2>1, <2>2
<1>12. Rounds'
  <2>1. Visited' = Visited /\ Rest(q)' = Rest(q)
    BY <1>1 DEF Visited, Rest, From
  <2>2. InLoop(q) /\ \A r \in Queue : InLoop(r)' => r = q
    BY <1>1 DEF InLoop
  <2>3. InLoop(q)'
    BY <1>1 DEF InLoop
  <2>4. QED
    BY <2>1, <2>2, <2>3, <1>1, <1>2 DEF Rounds
<1>13. Calls'
  <2>1. CASE q = "aIncs" /\ app.at = "acceptAll"
    <3>1. /\ \A c \in app.all : object[c] # "none"
          /\ IsFiniteSet(app.all)
          /\ Cardinality(Missed) + Removing <= app.ended
          /\ Tested
      BY <2>1 DEF IInv, Calls
    <3>2. Removing = 0 /\ Removing' = 1
      BY <1>1, <2>1 DEF Removing
    <3>3. Reading' = Reading /\ Ahead' = Ahead
      BY <2>1, <1>1, <1>8 DEF Reading, Ahead, From
    <3>4. app.all \subseteq Conn
      BY <2>1, <1>7, Kinds DEF Call
    <3>5. Missed' \subseteq Missed
      BY <3>3, <3>4, <2>1, <1>1, <1>6, <1>8 DEF Missed
    <3>6. IsFiniteSet(Missed)
      BY <3>1, FS_Subset DEF Missed
    <3>7. Cardinality(Missed') + 0 <= app.ended
      BY <3>1, <3>2, <3>5, <3>6, <2>1, <1>7, NoMore
    <3>8. Cardinality(Missed') \in Nat
      BY <3>5, <3>6, FS_Subset, FS_CardinalityType
    <3>9. Cardinality(Missed') + Removing' <= app'.ended /\ app'.ended > 0
      BY <3>2, <3>7, <3>8, <2>1, <1>7, <1>8
    <3>10. IsFiniteSet(app'.all) /\ \A c \in app'.all : object'[c] # "none"
      BY <3>1, <3>4, <2>1, <1>6, <1>8
    <3>11. app'.tested = app.tested /\ app'.i = app.i
      BY <2>1, <1>1, <1>7, <1>8 DEF Call
    <3>12. Tested'
      BY <3>1, <3>3, <3>9, <3>11 DEF Tested
    <3>13. QED
      BY <3>9, <3>10, <3>12 DEF Calls
  <2>2. CASE ~(q = "aIncs" /\ app.at = "acceptAll")
    <3>1. CASE app.at # "acceptAll"
      BY <3>1, <1>8 DEF Calls
    <3>2. CASE q # "aIncs"
      <4>1. Removing' = Removing
        BY <3>2, <1>1 DEF Removing
      <4>2. \A c \in Incoming : object'[c] = object[c]
        BY <3>2, <1>2, <1>3, <1>6, Kinds
      <4>3. app' = app
        BY <1>1, <3>2
      <4>4. QED
        BY <4>1, <4>2, <4>3, <1>1, <1>2, KeepsCalls DEF IInv
    <3>3. QED
      BY <2>2, <3>1, <3>2
  <2>3. QED
    BY <2>1, <2>2
<1>14. Crashes'
  <2>1. crashed => app.at = "acceptAll" /\ app.ended > 0
    BY DEF IInv, Crashes
  <2>2. crashed' => app'.at = "acceptAll" /\ app'.ended > 0
    BY <2>1, <1>1, <1>7, <1>8
  <2>3. QED
    BY <2>2 DEF Crashes
<1>15. QED
  BY <1>2, <1>9, <1>10, <1>11, <1>12, <1>13, <1>14 DEF IInv

(* What is removed is not live; of what lives, one may move from ahead of   *)
(* acceptAll to behind it.                                                  *)
LEMMA RemovingOne ==
    ASSUME IInv, NEW q \in Queue, RemoveOne(q)
    PROVE  IInv'
<1>1. /\ UNCHANGED <<pendingPorts, ports, backlog, pending, iState,
                      object, visits, before, app, crashed>>
      /\ pc = <<q, "remove">> /\ pc' = <<q, "process">> /\ pos' = pos
      /\ output' = [output EXCEPT ![q] = RemoveAt(@, pos)]
  BY DEF RemoveOne, Goto
<1>2. TypeOK /\ Lists(q) /\ Rounds
  BY DEF IInv
<1> DEFINE s == output[q]
           m == RemoveAt(s, pos)
<1>3. /\ pos \in 1..Len(s) /\ pos \in Nat \ {0} /\ Len(s) \in Nat
      /\ s \in Seq(Kind(q)) /\ s \in Seq(Conn)
      /\ output'[q] = m /\ \A r \in Queue : r # q => output'[r] = output[r]
  <2>1. pos \in Nat \ {0} /\ pos <= Len(s) /\ Len(s) \in Nat
    BY <1>1, <1>2, LenProperties DEF TypeOK, Lists
  <2>2. QED
    BY <2>1, <1>1, <1>2 DEF TypeOK
<1>4. /\ m \in Seq(Kind(q)) /\ m \in Seq(Conn) /\ Len(m) = Len(s) - 1
      /\ \A i \in 1..Len(s) - 1 : m[i] = IF i < pos THEN s[i] ELSE s[i + 1]
  BY <1>3, Without
<1>5. output' = [output EXCEPT ![q] = m]
  BY <1>1
<1> HIDE DEF m
<1> DEFINE from(i) == IF i < pos THEN i ELSE i + 1
<1>6. \A i \in 1..Len(m) : from(i) \in 1..Len(s) /\ from(i) # pos /\ m[i] = s[from(i)]
  BY <1>3, <1>4
<1>7. TypeOK'
  <2>1. pc' \in Label
    BY <1>1 DEF Label
  <2>2. output' \in [Queue -> Seq(Conn)]
    BY <1>2, <1>4, <1>5 DEF TypeOK
  <2>3. \A r \in Queue : output'[r] \in Seq(Kind(r))
    BY <1>2, <1>3, <1>4 DEF TypeOK
  <2>4. QED
    BY <2>1, <2>2, <2>3, <1>1, <1>2 DEF TypeOK
<1>8. Backlogs'
  BY <1>1 DEF IInv, Backlogs
<1>9. ASSUME NEW r \in Queue PROVE Lists(r)'
  <2>1. CASE r # q
    <3>1. \A i : ~Dying(r, i) /\ ~Dying(r, i)'
      BY <1>1, <2>1 DEF Dying
    <3>2. pc' \notin {<<r, "delete">>, <<r, "remove">>}
      BY <1>1
    <3>3. QED
      BY <2>1, <3>1, <3>2, <1>1, <1>2, <1>3, KeepsLists DEF IInv
  <2>2. CASE r = q
    <3>1. \A i \in 1..Len(m) : object[m[i]] = "live"
      <4>1. \A i : Dying(q, i) => i = pos
        BY DEF Dying
      <4>2. QED
        BY <4>1, <1>2, <1>6 DEF Lists
    <3>2. NoTwice(m)
      <4> SUFFICES ASSUME NEW i \in 1..Len(m), NEW j \in 1..Len(m), m[i] = m[j]
                   PROVE  i = j
        BY DEF NoTwice
      <4>1. from(i) = from(j)
        BY <1>2, <1>6 DEF Lists, NoTwice
      <4>2. QED
        BY <4>1, <1>3, <1>4
    <3>3. \A i \in 1..Len(pending[q]), j \in 1..Len(m) : pending[q][i] # m[j]
      BY <1>2, <1>6 DEF Lists
    <3>4. pc' \notin {<<q, "delete">>, <<q, "remove">>}
      BY <1>1
    <3>5. \A i : ~Dying(q, i)'
      BY <3>4 DEF Dying
    <3>6. QED
      BY <2>2, <3>1, <3>2, <3>3, <3>4, <3>5, <1>1, <1>2, <1>3 DEF Lists
  <2>3. QED
    BY <2>1, <2>2
<1>10. Rounds'
  <2>1. Visited' = Visited
    BY <1>1 DEF Visited
  <2>2. Rest(q)' = {m[i] : i \in pos..Len(m)}
    BY <1>1, <1>3 DEF Rest, From
  <2>3. Rest(q) = {s[i] : i \in pos + 1..Len(s)}
    BY <1>1 DEF Rest, From
  <2>4. \A i \in pos..Len(m) : i + 1 \in pos + 1..Len(s) /\ m[i] = s[i + 1]
    BY <1>3, <1>4
  <2>5. \A i \in pos + 1..Len(s) : i - 1 \in pos..Len(m) /\ m[i - 1] = s[i]
    BY <1>3, <1>4
  <2>6. Rest(q)' = Rest(q)
    <3> HIDE DEF s
    <3>1. Rest(q)' \subseteq Rest(q)
      BY <2>2, <2>3, <2>4
    <3>2. Rest(q) \subseteq Rest(q)'
      BY <2>2, <2>3, <2>5
    <3>3. QED
      BY <3>1, <3>2
  <2>7. InLoop(q) /\ \A r \in Queue : InLoop(r)' => r = q
    BY <1>1 DEF InLoop
  <2>8. InLoop(q)'
    BY <1>1 DEF InLoop
  <2>9. QED
    BY <2>1, <2>6, <2>7, <2>8, <1>1, <1>2 DEF Rounds
<1>11. Calls'
  <2>1. CASE q = "aIncs" /\ app.at = "acceptAll"
    <3> DEFINE n == IF Reading THEN app.i + 1 ELSE app.i
    <3>1. /\ \A c \in app.all : object[c] # "none"
          /\ IsFiniteSet(app.all)
          /\ Cardinality(Missed) + Removing <= app.ended
          /\ Reading => object[app.read] = "live" \/ app.ended > 0
          /\ Tested
      BY <2>1 DEF IInv, Calls
    <3>2. app.ended \in Nat /\ n \in Nat \ {0}
      BY <1>2, <2>1, Calling DEF Call
    <3>3. Removing = 1 /\ Removing' = 0 /\ Reading' = Reading
      BY <1>1, <2>1 DEF Removing, Reading
    <3>4. Ahead = {s[i] : i \in n..Len(s)} /\ Ahead' = {m[i] : i \in n..Len(m)}
      BY <2>1, <1>1, <1>3 DEF Ahead, From, Reading
    <3> HIDE DEF n
    <3>5. \A c \in Ahead : c = s[n] \/ c = s[pos] \/ c \in Ahead'
      <4> SUFFICES ASSUME NEW i \in n..Len(s), i # n, i # pos
                   PROVE  \E j \in n..Len(m) : m[j] = s[i]
        BY <3>4
      <4>1. CASE i < pos
        BY <4>1, <1>3, <1>4, <3>2
      <4>2. CASE i > pos
        <5>1. i - 1 \in n..Len(m) /\ m[i - 1] = s[i]
          BY <4>2, <1>3, <1>4, <3>2
        <5>2. QED
          BY <5>1
      <4>3. QED
        BY <4>1, <4>2, <1>3, <3>2
    <3>6. object[s[pos]] # "live"
      <4>1. Dying(q, pos)
        BY <1>1 DEF Dying
      <4>2. QED
        BY <4>1, <1>2, <1>3 DEF Lists
    <3>7. Missed' \subseteq Missed \cup {s[n]}
      BY <3>3, <3>5, <3>6, <1>1 DEF Missed
    <3>8. IsFiniteSet(Missed)
      BY <3>1, FS_Subset DEF Missed
    <3>9. Cardinality(Missed') \in Nat /\ Cardinality(Missed') <= Cardinality(Missed) + 1
      BY <3>7, <3>8, OneMore
    <3>10. Cardinality(Missed') + Removing' <= app.ended
      <4>1. Cardinality(Missed) \in Nat
        BY <3>8, FS_CardinalityType
      <4>2. QED
        BY <4>1, <3>1, <3>2, <3>3, <3>9
    <3>11. Tested'
      <4>1. Cardinality(Missed) \in Nat
        BY <3>8, FS_CardinalityType
      <4>2. app.ended > 0
        BY <4>1, <3>1, <3>2, <3>3
      <4>3. QED
        BY <4>2, <3>1, <3>3, <1>1 DEF Tested
    <3>12. QED
      BY <3>1, <3>3, <3>10, <3>11, <1>1 DEF Calls
  <2>2. CASE app.at # "acceptAll"
    BY <2>2, <1>1 DEF Calls
  <2>3. CASE q # "aIncs"
    <3>1. Removing' = Removing
      BY <2>3, <1>1 DEF Removing
    <3>2. output'["aIncs"] = output["aIncs"]
      BY <2>3, <1>3, Kinds
    <3>3. QED
      BY <3>1, <3>2, <1>1, <1>2, KeepsCalls DEF IInv
  <2>4. QED
    BY <2>1, <2>2, <2>3
<1>12. Crashes'
  BY <1>1 DEF IInv, Crashes
<1>13. QED
  BY <1>7, <1>8, <1>9, <1>10, <1>11, <1>12 DEF IInv
-----------------------------------------------------------------------------
(* The theorems.                                                           *)
LEMMA Start ==
    ASSUME Init
    PROVE  IInv
<1>1. /\ pendingPorts = <<>> /\ ports = <<>> /\ visits = <<>> /\ before = {} /\ crashed = FALSE
      /\ backlog = [p \in Port |-> <<>>]
      /\ pending = [q \in Queue |-> <<>>] /\ output = [q \in Queue |-> <<>>]
      /\ iState = [c \in Incoming |-> "WAIT"] /\ object = [c \in Conn |-> "none"]
      /\ pc = <<"ports", "accept">> /\ pos = 1 /\ app = Outside
  BY DEF Init
<1>2. \A S : <<>> \in Seq(S)
  BY EmptySeq
<1>3. TypeOK
  <2>1. app \in App /\ pc \in Label
    BY <1>1 DEF App, Label
  <2>2. \A q \in Queue : /\ pending[q] = <<>> /\ output[q] = <<>>
                         /\ <<>> \in Seq(Kind(q))
    BY <1>1, <1>2
  <2>3. /\ pending \in [Queue -> Seq(Conn)] /\ output \in [Queue -> Seq(Conn)]
        /\ backlog \in [Port -> Seq(Incoming)]
    BY <1>1, <1>2
  <2>4. /\ pendingPorts \in Seq(Port) /\ ports \in Seq([port : Port, iOpened : BOOLEAN])
        /\ visits \in Seq(Conn)
    BY <1>1, <1>2
  <2>5. /\ iState \in [Incoming -> {"WAIT", "ACCEPT"}]
        /\ object \in [Conn -> {"none", "live", "deleted"}]
    BY <1>1
  <2>6. \A q \in Queue : pending[q] \in Seq(Kind(q)) /\ output[q] \in Seq(Kind(q))
    BY <2>2
  <2>7. pos \in Nat \ {0} /\ before \subseteq Conn /\ crashed \in BOOLEAN
    <3>1. pos = 1 /\ before = {}
      BY <1>1
    <3>2. crashed = FALSE
      BY <1>1
    <3>3. pos \in Nat \ {0} /\ before \subseteq Conn
      BY <3>1
    <3>4. crashed \in BOOLEAN
      BY <3>2, Zenon
    <3>5. QED
      BY <3>3, <3>4
  <2>8. QED
    BY <2>1, <2>3, <2>4, <2>5, <2>6, <2>7 DEF TypeOK
<1>4. Backlogs
  BY <1>1 DEF Backlogs
<1>5. pc \in Idle
  BY <1>1 DEF Idle
<1>6. \A q \in Queue : Lists(q)
  BY <1>1, <1>5, IdleLabels DEF Lists, NoTwice
<1>7. Rounds
  BY <1>1, <1>5, IdleLabels DEF Rounds, NoTwice, InLoop
<1>8. Calls /\ Crashes
  BY <1>1 DEF Calls, Crashes, Outside
<1>9. QED
  BY <1>3, <1>4, <1>6, <1>7, <1>8 DEF IInv

LEMMA Step ==
    ASSUME IInv, [Next]_vars
    PROVE  IInv'
<1>1. CASE UNCHANGED vars
  <2>1. UNCHANGED <<pendingPorts, ports, backlog, pending, output, iState, object, pc, pos, app,
                    visits, before, crashed>>
    BY <1>1 DEF vars, centers, queues
  <2>2. TypeOK'
    BY <2>1 DEF IInv, TypeOK
  <2>3. Backlogs'
    BY <2>1 DEF IInv, Backlogs
  <2>4. \A q \in Queue : Lists(q)'
    BY <2>1 DEF IInv, Lists, Dying
  <2>5. Rounds'
    BY <2>1, SameRounds DEF IInv
  <2>6. Calls'
    BY <2>1, KeepsCalls DEF IInv, Removing
  <2>7. Crashes'
    BY <2>1 DEF IInv, Crashes
  <2>8. QED
    BY <2>2, <2>3, <2>4, <2>5, <2>6, <2>7 DEF IInv
<1>2. CASE Work
  <2>1. CASE Listen
    BY <2>1, Listening, TakingOne, Refusing DEF Listen
  <2>2. ASSUME NEW q \in Queue, Process(q)
        PROVE  IInv'
    <3>1. ~crashed
      BY <1>2 DEF Work
    <3>2. QED
      BY <2>2, <3>1, Admitting, Deleting, RemovingOne, EndingLoop, VisitingOne DEF Process
  <2>3. QED
    BY <1>2, <2>1, <2>2 DEF Work
<1>3. CASE Application
  BY <1>3, Sharings, Connecting, Starting, TestingOne, ReadingBehind, ReadingOne, AcceptingOne, Finishing DEF Application
<1>4. CASE Remote
  BY <1>4, Arriving DEF Remote
<1>5. QED
  BY <1>1, <1>2, <1>3, <1>4 DEF Next

(* What the center keeps is of its type, each connection is in one backlog, *)
(* list or array, and what its loops have processed and have still to       *)
(* process is what they began with: the invariant is inductive.             *)
THEOREM Invariant == Spec => []IInv
<1>1. Init => IInv
  BY Start
<1>2. IInv /\ [Next]_vars => IInv'
  BY Step
<1>3. QED
  BY <1>1, <1>2, PTL DEF Spec

(* Arrays hold live connections, but for the one that work() has deleted    *)
(* and is about to remove; the application touches a deleted one only when  *)
(* one ended during its call of acceptAll, and work() never does.           *)
THEOREM NothingDangles == Spec => []NoDangling
<1>1. IInv => NoDangling
  <2> SUFFICES ASSUME IInv PROVE NoDangling
    OBVIOUS
  <2>1. \A q \in Queue : DOMAIN output[q] = 1..Len(output[q])
    BY LenProperties DEF IInv, TypeOK
  <2>2. QED
    BY <2>1 DEF IInv, Lists, Dying, Crashes, NoDangling
<1>2. QED
  BY <1>1, Invariant, PTL

(* Whatever ends in it, a loop processes every connection that was in the   *)
(* array when it began, and none twice.                                     *)
THEOREM EachVisitedOnce == Spec => []EachOnce
<1>1. IInv => EachOnce
  <2> SUFFICES ASSUME IInv PROVE EachOnce
    OBVIOUS
  <2>1. /\ visits \in Seq(Conn) /\ pos \in Nat \ {0} /\ NoTwice(visits)
        /\ DOMAIN visits = 1..Len(visits)
    BY LenProperties DEF IInv, TypeOK, Rounds
  <2>2. IsInjective(visits)
    BY <2>1 DEF IsInjective, NoTwice
  <2>3. ASSUME NEW q \in Queue, pc = <<q, "process">>, pos > Len(output[q])
        PROVE  ToSet(visits) = before
    <3>1. before = From(q, pos) \cup Visited
      BY <2>3 DEF IInv, Rounds, InLoop, Rest
    <3>2. Len(output[q]) \in Nat
      BY LenProperties DEF IInv, TypeOK
    <3>3. pos..Len(output[q]) = {}
      BY <2>1, <2>3, <3>2
    <3>4. From(q, pos) = {}
      BY <3>3 DEF From
    <3>5. ToSet(visits) = Visited
      BY <2>1, FewElements DEF Visited
    <3>6. QED
      BY <3>1, <3>4, <3>5
  <2>4. QED
    BY <2>2, <2>3 DEF EachOnce
<1>2. QED
  BY <1>1, Invariant, PTL

(* Of the connections acceptAll found when it was called it passes over no  *)
(* more than ended meanwhile.                                               *)
THEOREM FewPassedOver == Spec => PassedOver
<1>1. IInv /\ AcceptAllEnds =>
         Cardinality({c \in app.all : iState[c] = "WAIT" /\ object[c] = "live"}) <= app.ended
  <2> SUFFICES ASSUME IInv, AcceptAllEnds
               PROVE  Cardinality({c \in app.all : iState[c] = "WAIT" /\ object[c] = "live"})
                         <= app.ended
    OBVIOUS
  <2>1. app.at = "acceptAll" /\ ~Reading /\ app.i > Len(output["aIncs"])
    BY DEF AcceptAllEnds, Reading
  <2>2. app.i \in Nat \ {0} /\ app.ended \in Nat /\ Len(output["aIncs"]) \in Nat
    BY <2>1, Calling, Kinds, LenProperties DEF IInv, TypeOK, Call
  <2>3. app.i..Len(output["aIncs"]) = {}
    BY <2>1, <2>2
  <2>4. Ahead = {}
    BY <2>1, <2>3 DEF Ahead, From
  <2>5. Missed = {c \in app.all : iState[c] = "WAIT" /\ object[c] = "live"}
    BY <2>1, <2>4 DEF Missed
  <2>6. IsFiniteSet(app.all) /\ Cardinality(Missed) + Removing <= app.ended
    BY <2>1 DEF IInv, Calls
  <2>7. IsFiniteSet(Missed) /\ Removing \in Nat
    BY <2>6, FS_Subset DEF Missed, Removing
  <2>8. Cardinality(Missed) \in Nat
    BY <2>7, FS_CardinalityType
  <2>9. QED
    BY <2>2, <2>5, <2>6, <2>7, <2>8
<1>2. IInv /\ [Next]_vars =>
         [AcceptAllEnds =>
            Cardinality({c \in app.all : iState[c] = "WAIT" /\ object[c] = "live"})
               <= app.ended]_vars
  BY <1>1
<1>3. QED
  BY <1>2, Invariant, PTL DEF Spec, PassedOver

(* A port that is open stays open and shared, although a second element for *)
(* it may have been pushed, or fail to open and be removed.                 *)
THEOREM PortStaysOpen == Spec => StaysOpen
<1>1. IInv /\ [Next]_vars => [\A p \in Port : Open(p) => Open(p)']_vars
  <2> SUFFICES ASSUME IInv, Next, NEW p \in Port, Open(p)
               PROVE  Open(p)'
    OBVIOUS
  <2> DEFINE S == [port : Port, iOpened : BOOLEAN]
  <2>1. /\ ports \in Seq(S) /\ DOMAIN ports = 1..Len(ports) /\ Len(ports) \in Nat
        /\ pos \in Nat \ {0} /\ pendingPorts \in Seq(Port)
    BY LenProperties DEF IInv, TypeOK
  <2>2. PICK i \in 1..Len(ports) : ports[i].port = p /\ ports[i].iOpened
    BY <2>1 DEF Open
  <2>3. CASE ports' = ports
    BY <2>1, <2>2, <2>3 DEF Open
  <2>4. CASE AcceptPorts
    <3> DEFINE in == [j \in DOMAIN pendingPorts |-> [port |-> pendingPorts[j], iOpened |-> FALSE]]
    <3>1. DOMAIN pendingPorts = 1..Len(pendingPorts) /\ Len(pendingPorts) \in Nat
          /\ \A j \in 1..Len(pendingPorts) : pendingPorts[j] \in Port
      BY <2>1, LenProperties, ElementOfSeq
    <3>2. in \in [1..Len(pendingPorts) -> S]
      BY <3>1
    <3>3. in \in Seq(S)
      BY <3>1, <3>2, SeqDef
    <3>4. ports' = Moved(in, ports)
      BY <2>4 DEF AcceptPorts
    <3> HIDE DEF in, S
    <3>5. /\ ports' \in Seq(S) /\ Len(ports') \in {Len(ports), Len(ports) + 1}
          /\ ports'[i] = ports[i]
      BY <2>1, <3>3, <3>4, MovedOne
    <3>6. i \in DOMAIN ports'
      BY <2>1, <3>5, LenProperties
    <3>7. QED
      BY <2>2, <3>5, <3>6 DEF Open
  <2>5. CASE OpenFails
    <3>1. /\ pos \in 1..Len(ports) /\ ports' = RemoveAt(ports, pos) /\ i # pos
      BY <2>1, <2>2, <2>5 DEF OpenFails, AtPort, Here
    <3> HIDE DEF S
    <3>2. /\ ports' \in Seq(S) /\ Len(ports') = Len(ports) - 1
          /\ \A j \in 1..Len(ports) - 1 : ports'[j] = IF j < pos THEN ports[j] ELSE ports[j + 1]
      BY <2>1, <3>1, Without
    <3>3. DOMAIN ports' = 1..Len(ports) - 1
      BY <3>2, LenProperties
    <3>4. CASE i < pos
      <4>1. i \in 1..Len(ports) - 1 /\ ports'[i] = ports[i]
        BY <2>1, <3>1, <3>2, <3>4
      <4>2. QED
        BY <4>1, <3>3, <2>2 DEF Open
    <3>5. CASE i > pos
      <4>1. i - 1 \in 1..Len(ports) - 1 /\ ports'[i - 1] = ports[i]
        BY <2>1, <3>1, <3>2, <3>5
      <4>2. QED
        BY <4>1, <3>3, <2>2 DEF Open
    <3>6. QED
      BY <3>1, <3>4, <3>5, <2>1
  <2>6. CASE OpenPort
    <3>1. /\ pos \in 1..Len(ports) /\ ports' = [ports EXCEPT ![pos].iOpened = TRUE]
          /\ ports[pos] \in S
      <4>1. pos <= Len(ports) /\ ports' = [ports EXCEPT ![pos].iOpened = TRUE]
        BY <2>6 DEF OpenPort, AtPort
      <4>2. pos \in 1..Len(ports)
        BY <4>1, <2>1
      <4> HIDE DEF S
      <4>3. ports[pos] \in S
        BY <4>2, <2>1, ElementOfSeq
      <4>4. QED
        BY <4>1, <4>2, <4>3
    <3>2. /\ DOMAIN ports' = DOMAIN ports
          /\ i # pos => ports'[i] = ports[i]
          /\ ports'[pos].port = ports[pos].port /\ ports'[pos].iOpened = TRUE
      BY <2>1, <3>1
    <3>3. QED
      BY <2>1, <2>2, <3>2 DEF Open
  <2>7. ports' = ports \/ AcceptPorts \/ OpenFails \/ OpenPort
    BY DEF Next, Work, Listen, Process, Application, Remote, centers,
           NoConnection, TakeConnection, AcceptFails, PortsDone, Accept, Delete,
           RemoveOne, LoopEnds, Repeats, Ends, SharePort, PushPort, ConnectTo,
           AcceptAll, TestNext, ReadNext, CallAccept, AcceptAllEnds, Arrive
  <2>8. QED
    BY <2>3, <2>4, <2>5, <2>6, <2>7
<1>2. QED
  BY <1>1, Invariant, PTL DEF Spec, StaysOpen
===============================================================================
