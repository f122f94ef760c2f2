---------------------------- MODULE ServerProofs ----------------------------
(***************************************************************************)
(* Proofs about Server and its configuration, for any number of CPUs,      *)
(* threads, lines and connections.                                         *)
(***************************************************************************)
EXTENDS Server, FiniteSetTheorems, TLAPS

-----------------------------------------------------------------------------
(***************************************************************************)
(* The configuration.                                                      *)
(***************************************************************************)

\* A name has a first node in its list exactly if it has a last line in the
\* file, and both have the same value.  (That there is a first node is part of
\* the invariant: CHOOSE in Search depends on it.)
Agree(name) ==
  LET list == lists[Hash[name]]
      at   == Matches(list, name)
      gt   == Matches(file, name)
  IN \/ at = {} /\ gt = {}
     \/ \E i \in at, j \in gt :
          /\ \A k \in at : i <= k
          /\ \A k \in gt : k <= j
          /\ list[i].value = file[j].value

ConfigInv == ConfigTypeOK /\ \A name \in Names : Agree(name)

LEMMA ChooseLeast ==
  ASSUME NEW S \in SUBSET Nat, NEW i \in S, \A k \in S : i <= k
  PROVE  (CHOOSE k \in S : \A m \in S : k <= m) = i
<1> DEFINE c == CHOOSE k \in S : \A m \in S : k <= m
<1>1. c \in S /\ \A m \in S : c <= m
  OBVIOUS
<1> HIDE DEF c
<1>2. c = i
  BY <1>1
<1> QED BY <1>2 DEF c

LEMMA ChooseGreatest ==
  ASSUME NEW S \in SUBSET Nat, NEW j \in S, \A k \in S : k <= j
  PROVE  (CHOOSE k \in S : \A m \in S : m <= k) = j
<1> DEFINE c == CHOOSE k \in S : \A m \in S : m <= k
<1>1. c \in S /\ \A m \in S : m <= c
  OBVIOUS
<1> HIDE DEF c
<1>2. c = j
  BY <1>1
<1> QED BY <1>2 DEF c

LEMMA LoadLineTypes ==
  ASSUME ConfigTypeOK, NEW node \in Nodes, LoadLine(node)
  PROVE  /\ ConfigTypeOK'
         /\ file' = Append(file, node)
         /\ \A b \in Buckets : lists'[b] = IF b = Hash[node.key] THEN <<node>> \o lists[b]
                                                                 ELSE lists[b]
<1>1. /\ lists \in [Buckets -> Seq(Nodes)] /\ file \in Seq(Nodes)
      /\ file' = Append(file, node)
      /\ lists' = [lists EXCEPT ![Hash[node.key]] = <<node>> \o @]
  BY DEF ConfigTypeOK, LoadLine, InsertAtHead
<1>2. Hash[node.key] \in Buckets
  BY HashAssumption DEF Nodes
<1>3. <<node>> \o lists[Hash[node.key]] \in Seq(Nodes)
  BY <1>1, <1>2
<1>4. lists' \in [Buckets -> Seq(Nodes)] /\ file' \in Seq(Nodes)
  BY <1>1, <1>2, <1>3
<1> QED BY <1>1, <1>2, <1>4 DEF ConfigTypeOK

\* A node put in front is the first match of its key; the others move on by one.
LEMMA MatchesInFront ==
  ASSUME NEW list \in Seq(Nodes), NEW node \in Nodes, NEW name \in Names
  PROVE  LET new == <<node>> \o list
         IN /\ 1 \in Matches(new, name) <=> node.key = name
            /\ new[1] = node
            /\ \A k \in Nat \ {0} : k + 1 \in Matches(new, name) <=> k \in Matches(list, name)
            /\ \A k \in Matches(list, name) : new[k + 1] = list[k]
            /\ Matches(new, name) \subseteq Nat \ {0}
<1> DEFINE new == <<node>> \o list
<1>1. /\ Len(new) = Len(list) + 1 /\ Len(list) \in Nat
      /\ new[1] = node
      /\ \A k \in 1 .. Len(list) : new[k + 1] = list[k]
  OBVIOUS
<1> HIDE DEF new
<1>2. \A k \in Nat \ {0} : k + 1 \in 1 .. Len(new) <=> k \in 1 .. Len(list)
  BY <1>1
<1>3. \A k \in Nat \ {0} : k + 1 \in Matches(new, name) <=> k \in Matches(list, name)
  BY <1>1, <1>2 DEF Matches
<1>4. 1 \in Matches(new, name) <=> node.key = name
  BY <1>1 DEF Matches
<1>5. Matches(new, name) \subseteq Nat \ {0} /\ Matches(list, name) \subseteq 1 .. Len(list)
  BY <1>1 DEF Matches
<1> QED BY <1>1, <1>3, <1>4, <1>5 DEF new

\* A line put behind is the last match of its name; the others stay.
LEMMA MatchesBehind ==
  ASSUME NEW list \in Seq(Nodes), NEW node \in Nodes, NEW name \in Names
  PROVE  LET new  == Append(list, node)
             last == Len(list) + 1
         IN /\ Matches(new, name) = Matches(list, name)
                                     \cup (IF node.key = name THEN {last} ELSE {})
            /\ new[last] = node
            /\ \A k \in Matches(list, name) : new[k] = list[k] /\ k \in Nat /\ k < last
            /\ last \in Nat
<1> DEFINE new == Append(list, node)
           last == Len(list) + 1
<1>1. /\ Len(new) = last /\ Len(list) \in Nat
      /\ new[last] = node
      /\ \A k \in 1 .. Len(list) : new[k] = list[k]
  OBVIOUS
<1> HIDE DEF new
<1>2. 1 .. last = (1 .. Len(list)) \cup {last}
  BY <1>1
<1>3. Matches(new, name) = Matches(list, name) \cup (IF node.key = name THEN {last} ELSE {})
  BY <1>1, <1>2 DEF Matches
<1>4. Matches(list, name) \subseteq 1 .. Len(list)
  BY DEF Matches
<1> QED BY <1>1, <1>3, <1>4 DEF new

LEMMA LoadLineKeepsInv ==
  ASSUME ConfigInv, NEW node \in Nodes, LoadLine(node)
  PROVE  ConfigInv'
<1>1. /\ ConfigTypeOK' /\ file' = Append(file, node)
      /\ \A b \in Buckets : lists'[b] = IF b = Hash[node.key] THEN <<node>> \o lists[b]
                                                              ELSE lists[b]
  BY LoadLineTypes DEF ConfigInv
<1> SUFFICES ASSUME NEW name \in Names PROVE Agree(name)'
  BY <1>1 DEF ConfigInv
<1> DEFINE list == lists[Hash[name]]
           at   == Matches(list, name)
           gt   == Matches(file, name)
           newl == lists'[Hash[name]]
           newf == file'
           last == Len(file) + 1
<1>2. /\ Hash[name] \in Buckets /\ list \in Seq(Nodes) /\ file \in Seq(Nodes)
      /\ Agree(name)
  BY HashAssumption DEF ConfigInv, ConfigTypeOK
<1>3. /\ Matches(newf, name) = gt \cup (IF node.key = name THEN {last} ELSE {})
      /\ newf[last] = node
      /\ \A k \in gt : newf[k] = file[k] /\ k \in Nat /\ k < last
      /\ last \in Nat
  <2> DEFINE new == Append(file, node)
  <2>1. /\ Matches(new, name) = gt \cup (IF node.key = name THEN {last} ELSE {})
        /\ new[last] = node
        /\ \A k \in gt : new[k] = file[k] /\ k \in Nat /\ k < last
        /\ last \in Nat
    BY <1>2, MatchesBehind
  <2>2. newf = new
    BY <1>1
  <2> HIDE DEF new, newf, gt, last
  <2> QED BY <2>1, <2>2
<1>4. CASE node.key = name
  <2>1. newl = <<node>> \o list
    BY <1>1, <1>2, <1>4
  <2>2. /\ 1 \in Matches(newl, name) /\ newl[1] = node
        /\ Matches(newl, name) \subseteq Nat \ {0}
    BY <1>2, <1>4, <2>1, MatchesInFront
  <2>3. last \in Matches(newf, name) /\ \A k \in Matches(newf, name) : k <= last
    BY <1>3, <1>4
  <2>4. \A k \in Matches(newl, name) : 1 <= k
    BY <2>2
  <2> HIDE DEF newl, newf, last
  <2>5. newl[1].value = newf[last].value
    BY <1>3, <2>2
  <2>6. \E i \in Matches(newl, name), j \in Matches(newf, name) :
          /\ \A k \in Matches(newl, name) : i <= k
          /\ \A k \in Matches(newf, name) : k <= j
          /\ newl[i].value = newf[j].value
    BY <2>2, <2>3, <2>4, <2>5
  <2> QED BY <2>6 DEF Agree, newl, newf
<1>5. CASE node.key # name
  <2>1. Matches(newf, name) = gt
    BY <1>3, <1>5
  <2>2. /\ \E d \in {0, 1} :
             /\ \A k \in at : newl[k + d] = list[k] /\ k + d \in Matches(newl, name)
             /\ \A k \in Matches(newl, name) : k - d \in at /\ k \in Nat
    <3>1. CASE Hash[node.key] = Hash[name]
      <4>1. newl = <<node>> \o list
        BY <1>1, <1>2, <3>1
      <4>2. /\ 1 \notin Matches(newl, name)
            /\ \A k \in Nat \ {0} : k + 1 \in Matches(newl, name) <=> k \in at
            /\ \A k \in at : newl[k + 1] = list[k]
            /\ Matches(newl, name) \subseteq Nat \ {0}
        <5> DEFINE new == <<node>> \o list
        <5>1. /\ 1 \notin Matches(new, name)
              /\ \A k \in Nat \ {0} : k + 1 \in Matches(new, name) <=> k \in at
              /\ \A k \in at : new[k + 1] = list[k]
              /\ Matches(new, name) \subseteq Nat \ {0}
          <6> HIDE DEF list
          <6> QED BY <1>2, <1>5, MatchesInFront
        <5> HIDE DEF new, newl, at, list
        <5> QED BY <5>1, <4>1 DEF new
      <4>3. at \subseteq Nat \ {0}
        BY <1>2 DEF Matches
      <4> HIDE DEF newl, at
      <4>4. \A k \in at : k + 1 \in Matches(newl, name)
        BY <4>2, <4>3
      <4>5. ASSUME NEW k \in Matches(newl, name) PROVE k - 1 \in at /\ k \in Nat
        <5>1. k \in Nat /\ k # 0 /\ k # 1
          BY <4>2
        <5>2. k - 1 \in Nat \ {0} /\ (k - 1) + 1 = k
          BY <5>1
        <5> QED BY <4>2, <5>1, <5>2
      <4> QED BY <4>2, <4>4, <4>5
    <3>2. CASE Hash[node.key] # Hash[name]
      <4>1. newl = list
        BY <1>1, <1>2, <3>2
      <4>2. at \subseteq Nat
        BY <1>2 DEF Matches
      <4>3. \A k \in at : k + 0 = k /\ k - 0 = k
        BY <4>2
      <4> QED BY <4>1, <4>2, <4>3
    <3> QED BY <3>1, <3>2
  <2>3. PICK d \in {0, 1} :
             /\ \A k \in at : newl[k + d] = list[k] /\ k + d \in Matches(newl, name)
             /\ \A k \in Matches(newl, name) : k - d \in at /\ k \in Nat
    BY <2>2
  <2>4. at \subseteq Nat
    BY <1>2 DEF Matches
  <2>5. CASE at = {} /\ gt = {}
    <3>1. Matches(newl, name) = {} /\ Matches(newf, name) = {}
      BY <2>1, <2>3, <2>5
    <3> QED BY <3>1 DEF Agree
  <2>6. CASE ~(at = {} /\ gt = {})
    <3>1. PICK i \in at, j \in gt :
            /\ \A k \in at : i <= k
            /\ \A k \in gt : k <= j
            /\ list[i].value = file[j].value
      BY <1>2, <2>6 DEF Agree
    <3> HIDE DEF newl, newf, at, gt, list
    <3>2. i + d \in Matches(newl, name) /\ newl[i + d] = list[i]
      BY <2>3, <3>1
    <3>3. \A k \in Matches(newl, name) : i + d <= k
      BY <2>3, <2>4, <3>1
    <3>4. j \in Matches(newf, name) /\ newf[j] = file[j] /\ \A k \in Matches(newf, name) : k <= j
      BY <1>3, <2>1, <3>1
    <3>5. newl[i + d].value = newf[j].value
      BY <3>1, <3>2, <3>4
    <3>6. \E a \in Matches(newl, name), b \in Matches(newf, name) :
          /\ \A k \in Matches(newl, name) : a <= k
          /\ \A k \in Matches(newf, name) : k <= b
          /\ newl[a].value = newf[b].value
      BY <3>2, <3>3, <3>4, <3>5
    <3> QED BY <3>6 DEF Agree, newl, newf
  <2> QED BY <2>5, <2>6
<1> QED BY <1>4, <1>5

\* What CHOOSE finds for a name: the least match in its list, if there is one,
\* and the greatest in the file.
LEMMA AgreeMeans ==
  ASSUME ConfigTypeOK, NEW name \in Names, Agree(name)
  PROVE  Search(name) = Given(name) /\ Search(name) \in Values \cup {NoValue}
<1> DEFINE list == lists[Hash[name]]
           at   == Matches(list, name)
           gt   == Matches(file, name)
<1>1. /\ list \in Seq(Nodes) /\ file \in Seq(Nodes)
      /\ at \subseteq 1 .. Len(list) /\ gt \subseteq Nat
  BY HashAssumption DEF ConfigTypeOK, Matches
<1>2. CASE at = {} /\ gt = {}
  BY <1>2 DEF Search, Given
<1>3. CASE ~(at = {} /\ gt = {})
  <2>1. PICK i \in at, j \in gt :
            /\ \A k \in at : i <= k
            /\ \A k \in gt : k <= j
            /\ list[i].value = file[j].value
    BY <1>3 DEF Agree
  <2>2. Search(name) = list[CHOOSE k \in at : \A m \in at : k <= m].value
    BY <2>1 DEF Search
  <2>3. Given(name) = file[CHOOSE k \in gt : \A m \in gt : m <= k].value
    BY <2>1 DEF Given
  <2> HIDE DEF at, gt, list
  <2>4. list[i].value \in Values
    <3>1. i \in 1 .. Len(list)
      BY <1>1
    <3>2. list[i] \in Nodes
      BY <1>1, <3>1
    <3> QED BY <3>2 DEF Nodes
  <2>5. at \in SUBSET Nat /\ gt \in SUBSET Nat
    BY <1>1
  <2>6. (CHOOSE k \in at : \A m \in at : k <= m) = i
    BY <2>1, <2>5, ChooseLeast
  <2>7. (CHOOSE k \in gt : \A m \in gt : m <= k) = j
    BY <2>1, <2>5, ChooseGreatest
  <2> QED BY <2>1, <2>2, <2>3, <2>4, <2>6, <2>7
<1> QED BY <1>2, <1>3

-----------------------------------------------------------------------------
(***************************************************************************)
(* The server.                                                             *)
(***************************************************************************)

\* The types of the variables of Server itself, but for the flags.
SizesAndSets ==
  /\ mode \in {"loading", "starting", "serving", "undefined"}
  /\ cores \in CoreCounts
  /\ thread_count \in Values \cup {0}
  /\ max_conn \in Values \cup {0, 1000}
  /\ created \in 0 .. thread_count
  /\ DOMAIN cpu \subseteq 0 .. created - 1 /\ \A t \in DOMAIN cpu : cpu[t] \in Nat
  /\ arrived \in 0 .. MaxArrivals /\ backlog \in 0 .. arrived
  /\ DOMAIN loop \subseteq Fds /\ \A fd \in DOMAIN loop : loop[fd] \in DOMAIN cur_conn
  /\ cur_conn \in [0 .. thread_count - 1 -> Int]
  /\ faults \subseteq {"no_thread"}

OwnTypes ==
  /\ SizesAndSets
  /\ ready \in BOOLEAN /\ accepting \in BOOLEAN /\ gave_up \in BOOLEAN

\* Nothing is accepted before all threads have been created, and those that run
\* are bound by their number.
Stages ==
  /\ mode = "loading" => created = 0 /\ DOMAIN cpu = {}
  /\ mode \in {"loading", "starting"} => DOMAIN loop = {} /\ ~accepting
  /\ mode = "serving" \/ DOMAIN loop # {} => created = thread_count
  /\ "no_thread" \notin faults => DOMAIN cpu = 0 .. created - 1
  /\ \A t \in DOMAIN cpu : cpu[t] = CpuId(t, cores)

ServerInv == ConfigInv /\ OwnTypes /\ Stages /\ AcceptEventDue

LEMMA InitEstablishes == ServerInit => ServerInv
<1> SUFFICES ASSUME ServerInit PROVE ServerInv
  OBVIOUS
<1>1. ConfigTypeOK
  BY DEF ServerInit, ConfigInit, ConfigTypeOK
<1>2. ASSUME NEW name \in Names PROVE Agree(name)
  <2>1. lists[Hash[name]] = << >> /\ file = << >>
    BY HashAssumption DEF ServerInit, ConfigInit
  <2>2. Matches(lists[Hash[name]], name) = {} /\ Matches(file, name) = {}
    BY <2>1 DEF Matches
  <2> QED BY <2>2 DEF Agree
<1>3. DOMAIN loop = {} /\ DOMAIN cpu = {} /\ DOMAIN cur_conn = {}
  BY DEF ServerInit
<1>4. cur_conn \in [0 .. thread_count - 1 -> Int]
  <2>1. 0 .. thread_count - 1 = {}
    BY DEF ServerInit
  <2>2. cur_conn = [l \in {} |-> 0]
    BY DEF ServerInit
  <2> QED BY <2>1, <2>2
<1>5. OwnTypes
  <2>1. /\ created \in 0 .. thread_count
        /\ arrived \in 0 .. MaxArrivals /\ backlog \in 0 .. arrived
    BY MaxArrivalsAssumption DEF ServerInit
  <2>2. /\ DOMAIN cpu \subseteq 0 .. created - 1 /\ \A t \in DOMAIN cpu : cpu[t] \in Nat
        /\ DOMAIN loop \subseteq Fds /\ \A fd \in DOMAIN loop : loop[fd] \in DOMAIN cur_conn
    BY <1>3
  <2>3. /\ mode \in {"loading", "starting", "serving", "undefined"}
        /\ cores \in CoreCounts
        /\ thread_count \in Values \cup {0}
        /\ max_conn \in Values \cup {0, 1000}
        /\ faults \subseteq {"no_thread"}
    BY DEF ServerInit
  <2>4. ready \in BOOLEAN /\ accepting \in BOOLEAN /\ gave_up \in BOOLEAN
    BY DEF ServerInit
  <2> QED BY <1>4, <2>1, <2>2, <2>3, <2>4 DEF OwnTypes, SizesAndSets
<1>6. Stages /\ AcceptEventDue
  BY <1>3 DEF ServerInit, Stages, AcceptEventDue
<1> QED BY <1>1, <1>2, <1>5, <1>6 DEF ServerInv, ConfigInv

\* ConfigInv speaks of the configuration only.
LEMMA ConfigKept ==
  ASSUME ConfigInv, UNCHANGED configVars
  PROVE  ConfigInv'
<1>1. lists' = lists /\ file' = file
  BY DEF configVars
<1>2. ConfigTypeOK'
  BY <1>1 DEF ConfigInv, ConfigTypeOK
<1>3. ASSUME NEW name \in Names PROVE Agree(name)'
  <2>1. Agree(name)
    BY DEF ConfigInv
  <2> QED BY <1>1, <2>1 DEF Agree, Matches
<1> QED BY <1>2, <1>3 DEF ConfigInv

LEMMA CpuIsNat ==
  ASSUME NEW i \in Nat, NEW n \in Nat \ {0}
  PROVE  CpuId(i, n) \in Nat
BY DEF CpuId

LEMMA LoadKeeps ==
  ASSUME ServerInv, LoadConfig
  PROVE  ServerInv'
<1>1. ConfigInv'
  <2>1. CASE \E node \in Nodes : LoadLine(node)
    BY <2>1, LoadLineKeepsInv DEF ServerInv
  <2>2. CASE UNCHANGED configVars
    BY <2>2, ConfigKept DEF ServerInv
  <2> QED BY <2>1, <2>2 DEF LoadConfig
<1>2. /\ mode = "loading" /\ mode' \in {"loading", "undefined"}
      /\ UNCHANGED <<cores, thread_count, max_conn, created, cpu, acceptVars, faults>>
  BY DEF LoadConfig
<1>3. OwnTypes'
  BY <1>2 DEF ServerInv, OwnTypes, SizesAndSets, acceptVars
<1>4. Stages' /\ AcceptEventDue'
  BY <1>2 DEF ServerInv, Stages, AcceptEventDue, acceptVars
<1> QED BY <1>1, <1>3, <1>4 DEF ServerInv

LEMMA StartKeeps ==
  ASSUME ServerInv, Start
  PROVE  ServerInv'
<1>1. ConfigInv'
  BY ConfigKept DEF ServerInv, Start, configVars
<1>2. /\ mode = "loading" /\ created = 0 /\ DOMAIN cpu = {} /\ DOMAIN loop = {} /\ ~accepting
      /\ UNCHANGED <<cores, created, cpu, arrived, backlog, ready, accepting, loop, gave_up, faults>>
  BY DEF ServerInv, Stages, Start
<1>3. CASE mode' = "undefined" /\ UNCHANGED <<thread_count, max_conn, cur_conn>>
  <2>1. OwnTypes'
    BY <1>2, <1>3 DEF ServerInv, OwnTypes, SizesAndSets
  <2>2. Stages' /\ AcceptEventDue'
    BY <1>2, <1>3 DEF ServerInv, Stages, AcceptEventDue
  <2> QED BY <1>1, <2>1, <2>2 DEF ServerInv
<1>4. CASE ~(mode' = "undefined" /\ UNCHANGED <<thread_count, max_conn, cur_conn>>)
  <2>1. /\ mode' = "starting"
        /\ Search("threadcount") # NoValue /\ thread_count' = Search("threadcount")
        /\ \/ max_conn' = 1000
           \/ Search("maxconn") # NoValue /\ max_conn' = Search("maxconn")
        /\ cur_conn' = [l \in 0 .. thread_count' - 1 |-> 0]
    BY <1>4 DEF Start
  <2>2. /\ Search("threadcount") \in Values \cup {NoValue}
        /\ Search("maxconn") \in Values \cup {NoValue}
    BY ServerNamesAssumption, AgreeMeans DEF ServerInv, ConfigInv
  <2>3. thread_count' \in Values /\ thread_count' \in Nat /\ max_conn' \in Values \cup {0, 1000}
    <3>1. thread_count' \in Values /\ max_conn' \in Values \cup {0, 1000}
      BY <2>1, <2>2
    <3> QED BY <3>1, ServerNamesAssumption
  <2>4. cur_conn' \in [0 .. thread_count' - 1 -> Int]
    BY <2>1
  <2>5. OwnTypes'
    BY <1>2, <2>1, <2>3, <2>4 DEF ServerInv, OwnTypes, SizesAndSets
  <2>6. Stages' /\ AcceptEventDue'
    BY <1>2, <2>1 DEF ServerInv, Stages, AcceptEventDue
  <2> QED BY <1>1, <2>5, <2>6 DEF ServerInv
<1> QED BY <1>3, <1>4

LEMMA CreateKeeps ==
  ASSUME ServerInv, CreateThread
  PROVE  ServerInv'
<1>1. ConfigInv'
  BY ConfigKept DEF ServerInv, CreateThread, configVars
<1>2. /\ mode = "starting" /\ created < thread_count /\ created' = created + 1
      /\ UNCHANGED <<mode, cores, thread_count, max_conn, acceptVars>>
      /\ thread_count \in Nat /\ created \in Nat /\ DOMAIN cpu \subseteq 0 .. created - 1
      /\ cores \in Nat \ {0} /\ DOMAIN loop = {} /\ ~accepting
      /\ \A t \in DOMAIN cpu : cpu[t] = CpuId(t, cores)
      /\ "no_thread" \notin faults => DOMAIN cpu = 0 .. created - 1
  BY ServerNamesAssumption, CoreCountsAssumption
     DEF ServerInv, OwnTypes, SizesAndSets, Stages, CreateThread, MoreThreads
<1>3. CpuId(created, cores) \in Nat
  BY <1>2, CpuIsNat
<1>4. 0 .. created' - 1 = (0 .. created - 1) \cup {created}
  BY <1>2
<1>5. /\ DOMAIN cpu' \subseteq 0 .. created' - 1
      /\ \A t \in DOMAIN cpu' : cpu'[t] \in Nat /\ cpu'[t] = CpuId(t, cores)
      /\ "no_thread" \notin faults' => DOMAIN cpu' = 0 .. created' - 1
      /\ faults' \subseteq {"no_thread"}
  <2>1. CASE /\ cpu' = [i \in DOMAIN cpu \cup {created} |->
                          IF i = created THEN CpuId(created, cores) ELSE cpu[i]]
             /\ UNCHANGED faults
    <3>1. DOMAIN cpu' = DOMAIN cpu \cup {created}
      BY <2>1
    <3>2. \A t \in DOMAIN cpu : cpu[t] \in Nat
      BY DEF ServerInv, OwnTypes, SizesAndSets
    <3>3. \A t \in DOMAIN cpu' : cpu'[t] \in Nat /\ cpu'[t] = CpuId(t, cores)
      BY <1>2, <1>3, <2>1, <3>2
    <3>4. faults \subseteq {"no_thread"}
      BY DEF ServerInv, OwnTypes, SizesAndSets
    <3> QED BY <1>2, <1>4, <2>1, <3>1, <3>3, <3>4
  <2>2. CASE faults' = faults \cup {"no_thread"} /\ UNCHANGED cpu
    <3>1. /\ faults \subseteq {"no_thread"}
          /\ \A t \in DOMAIN cpu : cpu[t] \in Nat
      BY DEF ServerInv, OwnTypes, SizesAndSets
    <3> QED BY <1>2, <1>4, <2>2, <3>1
  <2> QED BY <2>1, <2>2 DEF CreateThread, Fault
<1>6. OwnTypes'
  <2>1. created' \in 0 .. thread_count'
    BY <1>2
  <2> QED BY <1>2, <1>5, <2>1 DEF ServerInv, OwnTypes, SizesAndSets, acceptVars
<1>7. Stages' /\ AcceptEventDue'
  <2>1. AcceptEventDue'
    BY <1>2 DEF ServerInv, AcceptEventDue, acceptVars
  <2> QED BY <1>2, <1>5, <2>1 DEF Stages, acceptVars
<1> QED BY <1>1, <1>6, <1>7 DEF ServerInv

LEMMA ServeKeeps ==
  ASSUME ServerInv, Serve
  PROVE  ServerInv'
<1>1. ConfigInv'
  BY ConfigKept DEF ServerInv, Serve, configVars
<1>2. /\ mode = "starting" /\ mode' = "serving"
      /\ UNCHANGED <<cores, thread_count, max_conn, created, cpu, acceptVars, faults>>
  BY DEF Serve
<1>3. created = thread_count
  <2>1. thread_count \in Nat /\ created \in 0 .. thread_count /\ ~(created < thread_count)
    BY ServerNamesAssumption DEF ServerInv, OwnTypes, SizesAndSets, Serve, MoreThreads
  <2> QED BY <2>1
<1>4. OwnTypes'
  BY <1>2 DEF ServerInv, OwnTypes, SizesAndSets, acceptVars
<1>5. Stages' /\ AcceptEventDue'
  BY <1>2, <1>3 DEF ServerInv, Stages, AcceptEventDue, acceptVars
<1> QED BY <1>1, <1>4, <1>5 DEF ServerInv

\* The kernel: a connection arrives.
LEMMA ArriveKeeps ==
  ASSUME ServerInv, Arrive
  PROVE  ServerInv'
<1>1. ConfigInv'
  BY ConfigKept DEF ServerInv, Arrive, configVars
<1>2. /\ arrived < MaxArrivals /\ arrived' = arrived + 1 /\ backlog' = backlog + 1
      /\ ready' = TRUE
      /\ UNCHANGED <<startVars, accepting, loop, cur_conn, gave_up, faults>>
  BY DEF Arrive
<1>3. arrived' \in 0 .. MaxArrivals /\ backlog' \in 0 .. arrived'
  BY <1>2, MaxArrivalsAssumption DEF ServerInv, OwnTypes, SizesAndSets
<1>4. OwnTypes'
  BY <1>2, <1>3 DEF ServerInv, OwnTypes, SizesAndSets, startVars
<1>5. Stages' /\ AcceptEventDue'
  BY <1>2 DEF ServerInv, Stages, AcceptEventDue, startVars
<1> QED BY <1>1, <1>4, <1>5 DEF ServerInv

LEMMA ReadyKeeps ==
  ASSUME ServerInv, ListenerReady
  PROVE  ServerInv'
<1>1. ConfigInv'
  BY ConfigKept DEF ServerInv, ListenerReady, configVars
<1>2. /\ mode = "serving" /\ ready' = FALSE
      /\ UNCHANGED <<startVars, arrived, backlog, loop, cur_conn, gave_up, faults>>
  BY DEF ListenerReady
<1>3. accepting' = (backlog > 0)
  BY DEF ListenerReady
<1>4. accepting' \in BOOLEAN
  BY <1>3
<1>5. OwnTypes'
  <2>1. ready' \in BOOLEAN
    BY <1>2
  <2>2. gave_up' \in BOOLEAN
    BY <1>2 DEF ServerInv, OwnTypes, SizesAndSets
  <2>3. SizesAndSets'
    BY <1>2 DEF ServerInv, OwnTypes, SizesAndSets, startVars
  <2> QED BY <1>4, <2>1, <2>2, <2>3, Zenon DEF OwnTypes
<1>6. Stages'
  BY <1>2 DEF ServerInv, Stages, startVars
<1>7. AcceptEventDue'
  <2>1. ASSUME backlog > 0 PROVE accepting'
    BY <1>3, <2>1
  <2> QED BY <1>2, <2>1 DEF AcceptEventDue
<1> QED BY <1>1, <1>5, <1>6, <1>7 DEF ServerInv

LEMMA AcceptKeeps ==
  ASSUME ServerInv, NEW fd \in Fds, AcceptConn(fd)
  PROVE  ServerInv'
<1>1. ConfigInv'
  BY ConfigKept DEF ServerInv, AcceptConn, configVars
<1>2. /\ accepting /\ mode = "serving" /\ created = thread_count
      /\ backlog > 0 /\ backlog' = backlog - 1
      /\ UNCHANGED <<cores, thread_count, max_conn, created, cpu, arrived, ready, gave_up, faults>>
  BY DEF ServerInv, Stages, AcceptConn
<1>3. backlog' \in 0 .. arrived' /\ thread_count \in Nat /\ fd \in Nat
  BY <1>2, ServerNamesAssumption, MaxArrivalsAssumption, FdsAssumption DEF ServerInv, OwnTypes, SizesAndSets
<1>4. CASE mode' = "undefined" /\ UNCHANGED <<loop, cur_conn, accepting>>
  <2>1. OwnTypes'
    BY <1>2, <1>3, <1>4 DEF ServerInv, OwnTypes, SizesAndSets
  <2>2. Stages' /\ AcceptEventDue'
    BY <1>2, <1>4 DEF ServerInv, Stages, AcceptEventDue
  <2> QED BY <1>1, <2>1, <2>2 DEF ServerInv
<1>5. CASE /\ thread_count # 0 /\ UNCHANGED mode /\ accepting' = AcceptedGoOn
           /\ loop' = [f \in DOMAIN loop \cup {fd} |->
                         IF f = fd THEN LoopOf(fd) ELSE loop[f]]
           /\ cur_conn' = [cur_conn EXCEPT ![LoopOf(fd)] = @ + 1]
  <2>1. LoopOf(fd) \in 0 .. thread_count - 1
    BY <1>3, <1>5 DEF LoopOf
  <2>2. cur_conn \in [0 .. thread_count - 1 -> Int]
    BY DEF ServerInv, OwnTypes, SizesAndSets
  <2>3. cur_conn' \in [0 .. thread_count' - 1 -> Int] /\ DOMAIN cur_conn' = DOMAIN cur_conn
    BY <1>2, <1>5, <2>1, <2>2
  <2>4. DOMAIN loop' \subseteq Fds /\ \A f \in DOMAIN loop' : loop'[f] \in DOMAIN cur_conn'
    <3>1. DOMAIN loop \subseteq Fds /\ \A f \in DOMAIN loop : loop[f] \in DOMAIN cur_conn
      BY DEF ServerInv, OwnTypes, SizesAndSets
    <3>2. DOMAIN loop' = DOMAIN loop \cup {fd}
      BY <1>5
    <3>3. LoopOf(fd) \in DOMAIN cur_conn
      BY <2>1, <2>2
    <3> QED BY <1>5, <2>3, <3>1, <3>2, <3>3
  <2>5. accepting' = TRUE
    BY <1>5 DEF AcceptedGoOn
  <2>6. OwnTypes'
    BY <1>2, <1>3, <1>5, <2>3, <2>4, <2>5 DEF ServerInv, OwnTypes, SizesAndSets
  <2>7. Stages' /\ AcceptEventDue'
    BY <1>2, <1>5, <2>5 DEF ServerInv, Stages, AcceptEventDue
  <2> QED BY <1>1, <2>6, <2>7 DEF ServerInv
<1> QED BY <1>4, <1>5 DEF AcceptConn

\* _do_accept returns: what still waits is what it gave up.
LEMMA ReturnKeeps ==
  ASSUME ServerInv, accepting, Return(backlog'), backlog' \in {backlog, backlog - 1},
         backlog' >= 0, UNCHANGED <<configVars, startVars, arrived, ready, loop, faults>>,
         cur_conn' \in [0 .. thread_count - 1 -> Int]
  PROVE  ServerInv'
<1>1. ConfigInv'
  BY ConfigKept DEF ServerInv
<1>2. accepting' = FALSE
  BY DEF Return
<1>3. gave_up' = (backlog' > 0)
  BY DEF Return
<1>4. gave_up' \in BOOLEAN
  BY <1>3
<1>5. backlog' \in 0 .. arrived'
  BY MaxArrivalsAssumption DEF ServerInv, OwnTypes, SizesAndSets
<1>6. DOMAIN cur_conn' = DOMAIN cur_conn
  BY DEF ServerInv, OwnTypes, SizesAndSets
<1>7. OwnTypes'
  <2>1. accepting' \in BOOLEAN
    BY <1>2
  <2>2. ready' \in BOOLEAN
    BY DEF ServerInv, OwnTypes, SizesAndSets
  <2>3. SizesAndSets'
    BY <1>5, <1>6 DEF ServerInv, OwnTypes, SizesAndSets, startVars
  <2> QED BY <1>4, <2>1, <2>2, <2>3, Zenon DEF OwnTypes
<1>8. Stages'
  BY <1>2 DEF ServerInv, Stages, startVars
<1>9. AcceptEventDue'
  <2>1. ASSUME backlog' > 0 PROVE gave_up'
    BY <1>3, <2>1
  <2> QED BY <2>1 DEF AcceptEventDue
<1> QED BY <1>1, <1>7, <1>8, <1>9 DEF ServerInv

LEMMA RejectKeeps ==
  ASSUME ServerInv, NEW fd \in Fds, RejectConn(fd)
  PROVE  ServerInv'
<1>1. thread_count \in Nat \ {0} /\ fd \in Nat /\ backlog \in Nat
  BY ServerNamesAssumption, FdsAssumption, MaxArrivalsAssumption
     DEF ServerInv, OwnTypes, SizesAndSets, RejectConn
<1>2. LoopOf(fd) \in 0 .. thread_count - 1
  BY <1>1 DEF LoopOf
<1>3. cur_conn' \in [0 .. thread_count - 1 -> Int]
  BY <1>2 DEF ServerInv, OwnTypes, SizesAndSets, RejectConn
<1>4. Return(backlog')
  BY DEF RejectConn
<1>5. backlog' \in {backlog, backlog - 1} /\ backlog' >= 0
  BY <1>1 DEF RejectConn
<1> QED BY <1>3, <1>4, <1>5, ReturnKeeps DEF RejectConn

LEMMA FailKeeps ==
  ASSUME ServerInv, AcceptFails \/ AcceptDone
  PROVE  ServerInv'
<1>1. backlog \in Nat /\ cur_conn' \in [0 .. thread_count - 1 -> Int]
  BY MaxArrivalsAssumption DEF ServerInv, OwnTypes, SizesAndSets, AcceptFails, AcceptDone
<1>2. Return(backlog')
  BY DEF AcceptFails, AcceptDone
<1>3. backlog' \in {backlog, backlog - 1} /\ backlog' >= 0
  BY <1>1 DEF AcceptFails, AcceptDone
<1> QED BY <1>1, <1>2, <1>3, ReturnKeeps DEF AcceptFails, AcceptDone

LEMMA CloseKeeps ==
  ASSUME ServerInv, NEW fd \in Fds, Close(fd)
  PROVE  ServerInv'
<1>1. ConfigInv'
  BY ConfigKept DEF ServerInv, Close, configVars
<1>2. /\ fd \in DOMAIN loop /\ DOMAIN loop' = DOMAIN loop \ {fd}
      /\ \A f \in DOMAIN loop' : loop'[f] = loop[f]
      /\ cur_conn' = [cur_conn EXCEPT ![loop[fd]] = @ - 1]
      /\ UNCHANGED <<startVars, arrived, backlog, ready, accepting, gave_up, faults>>
  BY DEF Close
<1>3. /\ cur_conn \in [0 .. thread_count - 1 -> Int] /\ loop[fd] \in DOMAIN cur_conn
      /\ DOMAIN loop \subseteq Fds /\ \A f \in DOMAIN loop : loop[f] \in DOMAIN cur_conn
  BY <1>2 DEF ServerInv, OwnTypes, SizesAndSets
<1>4. /\ cur_conn' \in [0 .. thread_count - 1 -> Int]
      /\ DOMAIN loop' \subseteq Fds /\ \A f \in DOMAIN loop' : loop'[f] \in DOMAIN cur_conn'
  BY <1>2, <1>3
<1>5. OwnTypes'
  BY <1>2, <1>4 DEF ServerInv, OwnTypes, SizesAndSets, startVars
<1>6. Stages' /\ AcceptEventDue'
  BY <1>2 DEF ServerInv, Stages, AcceptEventDue, startVars
<1> QED BY <1>1, <1>5, <1>6 DEF ServerInv

LEMMA StutterKeeps ==
  ASSUME ServerInv, UNCHANGED serverVars
  PROVE  ServerInv'
<1>1. ConfigInv'
  BY ConfigKept DEF ServerInv, serverVars
<1>2. UNCHANGED <<startVars, acceptVars, faults>>
  BY DEF serverVars
<1>3. OwnTypes'
  BY <1>2 DEF ServerInv, OwnTypes, SizesAndSets, startVars, acceptVars
<1>4. Stages' /\ AcceptEventDue'
  BY <1>2 DEF ServerInv, Stages, AcceptEventDue, startVars, acceptVars
<1> QED BY <1>1, <1>3, <1>4 DEF ServerInv

LEMMA ServerInductive == ServerInv /\ [ServerNext]_serverVars => ServerInv'
<1> SUFFICES ASSUME ServerInv, [ServerNext]_serverVars PROVE ServerInv'
  OBVIOUS
<1>1. CASE LoadConfig
  BY <1>1, LoadKeeps
<1>2. CASE Start
  BY <1>2, StartKeeps
<1>3. CASE CreateThread
  BY <1>3, CreateKeeps
<1>4. CASE Serve
  BY <1>4, ServeKeeps
<1>5. CASE ListenerReady
  BY <1>5, ReadyKeeps
<1>6. CASE \E fd \in Fds : AcceptConn(fd) \/ RejectConn(fd)
  BY <1>6, AcceptKeeps, RejectKeeps
<1>7. CASE AcceptFails \/ AcceptDone
  BY <1>7, FailKeeps
<1>8. CASE Arrive
  BY <1>8, ArriveKeeps
<1>9. CASE \E fd \in Fds : Close(fd)
  BY <1>9, CloseKeeps
<1>10. CASE UNCHANGED serverVars
  BY <1>10, StutterKeeps
<1> QED BY <1>1, <1>2, <1>3, <1>4, <1>5, <1>6, <1>7, <1>8, <1>9, <1>10
        DEF ServerNext, MainStep

-----------------------------------------------------------------------------
(***************************************************************************)
(* What follows from the invariant.                                        *)
(***************************************************************************)

\* Every reachable state of the server satisfies the inductive invariant.
THEOREM ServerInvariant == ServerSpec => []ServerInv
<1>1. ServerInit => ServerInv
  BY InitEstablishes
<1>2. ServerInv /\ [ServerNext]_serverVars => ServerInv'
  BY ServerInductive
<1> QED BY <1>1, <1>2, PTL DEF ServerSpec

\* The variables of lmvs and of the configuration keep their types, however long
\* the file and however many threads, CPUs and connections there are.
THEOREM ServerTypeCorrect == ServerSpec => []ServerTypeOK
<1>1. ServerInv => ServerTypeOK
  <2> SUFFICES ASSUME ServerInv PROVE ServerTypeOK
    OBVIOUS
  <2>1. ConfigTypeOK /\ OwnTypes
    BY DEF ServerInv, ConfigInv
  <2> QED BY <2>1, Zenon DEF OwnTypes, SizesAndSets, ServerTypeOK
<1> QED BY <1>1, ServerInvariant, PTL

\* lmvs_config_find answers with the value of the last line for the name, with
\* any number of lines, names and buckets, and whatever names collide.
THEOREM ConfigIsRight == ServerSpec => []LastLineCounts
<1>1. ServerInv => LastLineCounts
  BY AgreeMeans DEF ServerInv, ConfigInv, LastLineCounts
<1> QED BY <1>1, ServerInvariant, PTL

\* A connection that waits at the listener is being accepted or has an event to
\* come, unless _do_accept returned while it waited.
THEOREM ListenerIsTold == ServerSpec => []AcceptEventDue
<1>1. ServerInv => AcceptEventDue
  BY DEF ServerInv
<1> QED BY <1>1, ServerInvariant, PTL

\* No connection is given to a loop without a thread unless pthread_create
\* failed: lmvs_loop creates thread_count threads before it accepts, and fd %
\* thread_count is below that.
THEOREM ConnectionsAreServed == ServerSpec => []ServedByThread
<1>1. ServerInv => ServedByThread
  <2> SUFFICES ASSUME ServerInv, "no_thread" \notin faults, NEW fd \in DOMAIN loop
               PROVE  loop[fd] \in DOMAIN cpu
    BY DEF ServedByThread
  <2>1. created = thread_count /\ DOMAIN cpu = 0 .. created - 1
    BY DEF ServerInv, Stages
  <2>2. DOMAIN cur_conn = 0 .. thread_count - 1 /\ loop[fd] \in DOMAIN cur_conn
    BY DEF ServerInv, OwnTypes, SizesAndSets
  <2> QED BY <2>1, <2>2
<1> QED BY <1>1, ServerInvariant, PTL

\* Two threads whose numbers differ by less than the number of usable CPUs are
\* bound to different ones, of any machine.
LEMMA CpusDiffer ==
  ASSUME NEW n \in Nat \ {0}, NEW t \in Nat, n > 4 => t < 2 * (n - 2)
  PROVE  /\ CpuId(t, n) \in Usable(n)
         /\ \A u \in Nat : u < t /\ t - u < Cardinality(Usable(n)) => CpuId(u, n) # CpuId(t, n)
<1>1. CASE n > 4
  <2>1. Usable(n) = 2 .. n - 1 /\ 2 \in Int /\ n - 1 \in Int /\ ~(2 > n - 1)
    BY <1>1 DEF Usable
  <2>2. Cardinality(Usable(n)) = n - 2
    <3>1. Cardinality(2 .. n - 1) = (n - 1) - 2 + 1
      BY <2>1, FS_Interval
    <3> QED BY <2>1, <3>1
  <2>3. \A u \in Nat : CpuId(u, n) = IF u >= n - 2 THEN u + 4 - n ELSE u + 2
    BY <1>1 DEF CpuId
  <2>4. CpuId(t, n) \in 2 .. n - 1
    BY <1>1, <2>3
  <2>5. ASSUME NEW u \in Nat, u < t, t - u < n - 2 PROVE CpuId(u, n) # CpuId(t, n)
    BY <1>1, <2>3, <2>5
  <2> QED BY <2>1, <2>2, <2>4, <2>5
<1>2. CASE ~(n > 4)
  <2>1. Usable(n) = 0 .. n - 1 /\ n - 1 \in Int /\ ~(0 > n - 1)
    BY <1>2 DEF Usable
  <2>2. Cardinality(Usable(n)) = n
    <3>1. Cardinality(0 .. n - 1) = (n - 1) - 0 + 1
      BY <2>1, FS_Interval
    <3> QED BY <2>1, <3>1
  <2>3. \A u \in Nat : CpuId(u, n) = u % n
    BY <1>2 DEF CpuId
  <2>4. t % n \in 0 .. n - 1
    OBVIOUS
  <2>5. ASSUME NEW u \in Nat, u < t, t - u < n PROVE u % n # t % n
    <3>1. n \in {1, 2, 3, 4}
      BY <1>2
    <3>2. CASE n = 1
      BY <2>5, <3>2
    <3>3. CASE n = 2
      BY <2>5, <3>3
    <3>4. CASE n = 3
      BY <2>5, <3>4
    <3>5. CASE n = 4
      BY <2>5, <3>5
    <3> QED BY <3>1, <3>2, <3>3, <3>4, <3>5
  <2> QED BY <2>1, <2>2, <2>3, <2>4, <2>5
<1> QED BY <1>1, <1>2

\* lmvs_loop spreads its threads over the CPUs of any machine, the threads after
\* the first 2 * (cores - 2) of a machine with more than four excepted.
THEOREM CpusAreSpread == ServerSpec => []ThreadsSpread
<1>1. ServerInv => ThreadsSpread
  <2> SUFFICES ASSUME ServerInv, NEW t \in DOMAIN cpu, cores > 4 => t < 2 * (cores - 2)
               PROVE  /\ cpu[t] \in Usable(cores)
                      /\ \A u \in DOMAIN cpu :
                           u < t /\ t - u < Cardinality(Usable(cores)) => cpu[u] # cpu[t]
    BY DEF ThreadsSpread
  <2>1. cores \in Nat \ {0} /\ \A u \in DOMAIN cpu : u \in Nat /\ cpu[u] = CpuId(u, cores)
    BY CoreCountsAssumption, ServerNamesAssumption
       DEF ServerInv, OwnTypes, SizesAndSets, Stages
  <2>2. /\ CpuId(t, cores) \in Usable(cores)
        /\ \A u \in Nat : u < t /\ t - u < Cardinality(Usable(cores)) =>
             CpuId(u, cores) # CpuId(t, cores)
    BY <2>1, CpusDiffer
  <2> QED BY <2>1, <2>2
<1> QED BY <1>1, ServerInvariant, PTL

-----------------------------------------------------------------------------
(***************************************************************************)
(* How many connections are open.                                          *)
(***************************************************************************)

\* What lmvs_el_add_connection keeps for each loop: its connections are among
\* those it counts, and it takes none when it counts more than its share.
LoopsLimited ==
  /\ IsFiniteSet(DOMAIN loop)
  /\ thread_count > 0 => \A l \in 0 .. thread_count - 1 :
       /\ Cardinality(Open(l)) <= cur_conn[l]
       /\ Cardinality(Open(l)) <= Share + 1

LEMMA TimesDiv ==
  ASSUME NEW m \in Nat, NEW n \in Nat \ {0}
  PROVE  m \div n \in Nat /\ n * ((m \div n) + 2) <= m + 2 * n
<1>1. m \div n \in Nat /\ n * (m \div n) <= m
  OBVIOUS
<1> DEFINE q == m \div n
<1>2. q \in Nat /\ n * q <= m
  BY <1>1
<1> HIDE DEF q
<1>3. n * (q + 2) = n * q + 2 * n /\ n * q \in Nat
  BY <1>2
<1>4. n * (q + 2) <= m + 2 * n
  BY <1>2, <1>3
<1> QED BY <1>2, <1>4 DEF q

\* A set of which no more than k elements are mapped to each of n numbers has no
\* more than n * k.
LEMMA PartsBound ==
  ASSUME NEW S, IsFiniteSet(S), NEW n \in Nat, NEW k \in Nat, NEW f \in [S -> 0 .. n - 1],
         \A l \in 0 .. n - 1 : Cardinality({x \in S : f[x] = l}) <= k
  PROVE  Cardinality(S) <= n * k
<1> DEFINE Part(l) == {x \in S : f[x] = l}
           Good(l, g) == g \in [Part(l) -> 1 .. k] /\ \A x, y \in Part(l) : g[x] = g[y] => x = y
           G == [l \in 0 .. n - 1 |-> CHOOSE g : Good(l, g)]
           T == (0 .. n - 1) \X (1 .. k)
           h == [x \in S |-> <<f[x], G[f[x]][x]>>]
<1>1. ASSUME NEW l \in 0 .. n - 1 PROVE \E g : Good(l, g)
  <2>1. IsFiniteSet(Part(l)) /\ Cardinality(Part(l)) \in Nat /\ Cardinality(Part(l)) <= k
    BY FS_Subset, FS_CardinalityType
  <2>2. PICK c \in Nat : c = Cardinality(Part(l))
    BY <2>1
  <2>3. IsFiniteSet(1 .. c) /\ Cardinality(1 .. c) = c
    <3>1. 1 \in Int /\ c \in Int
      BY <2>2
    <3> QED BY <2>2, <3>1, FS_Interval
  <2>4. ExistsBijection(Part(l), 1 .. c)
    BY <2>1, <2>2, <2>3, FS_SameCardinalityBij
  <2>5. PICK g : g \in Bijection(Part(l), 1 .. c)
    BY <2>4 DEF ExistsBijection
  <2>6. g \in [Part(l) -> 1 .. c] /\ \A x, y \in Part(l) : g[x] = g[y] => x = y
    BY <2>5 DEF Bijection, Injection, IsInjective
  <2>7. 1 .. c \subseteq 1 .. k
    BY <2>1, <2>2
  <2>8. g \in [Part(l) -> 1 .. k]
    BY <2>6, <2>7
  <2> QED BY <2>6, <2>8
<1>2. \A l \in 0 .. n - 1 : Good(l, G[l])
  <2> SUFFICES ASSUME NEW l \in 0 .. n - 1 PROVE Good(l, G[l])
    OBVIOUS
  <2>1. G[l] = CHOOSE g : Good(l, g)
    OBVIOUS
  <2> HIDE DEF Good, G
  <2> QED BY <1>1, <2>1
<1>3. h \in Injection(S, T)
  <2>1. ASSUME NEW x \in S PROVE f[x] \in 0 .. n - 1 /\ x \in Part(f[x]) /\ G[f[x]][x] \in 1 .. k
    <3>1. f[x] \in 0 .. n - 1 /\ x \in Part(f[x])
      OBVIOUS
    <3>2. Good(f[x], G[f[x]])
      BY <1>2, <3>1
    <3> HIDE DEF Part, G
    <3> QED BY <3>1, <3>2
  <2>2. h \in [S -> T]
    <3> HIDE DEF G
    <3> QED BY <2>1
  <2>3. ASSUME NEW x \in S, NEW y \in S, h[x] = h[y] PROVE x = y
    <3>1. f[x] = f[y] /\ G[f[x]][x] = G[f[x]][y]
      <4> HIDE DEF G
      <4> QED BY <2>3
    <3>2. Good(f[x], G[f[x]]) /\ x \in Part(f[x]) /\ y \in Part(f[x])
      BY <1>2, <2>1, <3>1
    <3> HIDE DEF Part, G, h
    <3> QED BY <3>1, <3>2
  <2> HIDE DEF h, T
  <2>4. DOMAIN h = S
    BY <2>2
  <2> QED BY <2>2, <2>3, <2>4 DEF Injection, IsInjective
<1>4. IsFiniteSet(T) /\ Cardinality(T) = n * k
  <2>1. IsFiniteSet(0 .. n - 1) /\ Cardinality(0 .. n - 1) = n
    <3>1. 0 \in Int /\ n - 1 \in Int
      OBVIOUS
    <3>2. /\ IsFiniteSet(0 .. n - 1)
          /\ Cardinality(0 .. n - 1) = IF 0 > n - 1 THEN 0 ELSE (n - 1) - 0 + 1
      BY <3>1, FS_Interval
    <3> QED BY <3>2
  <2>2. IsFiniteSet(1 .. k) /\ Cardinality(1 .. k) = k
    <3>1. 1 \in Int /\ k \in Int
      OBVIOUS
    <3>2. IsFiniteSet(1 .. k) /\ Cardinality(1 .. k) = IF 1 > k THEN 0 ELSE k - 1 + 1
      BY <3>1, FS_Interval
    <3> QED BY <3>2
  <2> QED BY <2>1, <2>2, FS_Product
<1> HIDE DEF h, T
<1>5. Cardinality(S) <= Cardinality(T)
  BY <1>3, <1>4, FS_Injection
<1> QED BY <1>4, <1>5

LEMMA LimitedInitially == ServerInit => LoopsLimited
<1> SUFFICES ASSUME ServerInit PROVE LoopsLimited
  OBVIOUS
<1>1. DOMAIN loop = {} /\ thread_count = 0
  BY DEF ServerInit
<1> QED BY <1>1, FS_EmptySet DEF LoopsLimited

\* A loop's connections and its count after a step, where it keeps its share.
LEMMA LimitsMove ==
  ASSUME LoopsLimited, UNCHANGED <<loop, thread_count, max_conn>>,
         \A l \in 0 .. thread_count - 1 : cur_conn[l] \in Int /\ cur_conn'[l] \in Int
                                          /\ cur_conn[l] <= cur_conn'[l]
  PROVE  LoopsLimited'
<1>1. \A l : Open(l)' = Open(l)
  BY DEF Open
<1>2. Share' = Share
  BY DEF Share
<1>3. ASSUME NEW l \in 0 .. thread_count - 1, thread_count > 0
      PROVE  Cardinality(Open(l)) <= cur_conn'[l] /\ Cardinality(Open(l)) <= Share + 1
  <2>1. IsFiniteSet(Open(l))
    BY FS_Subset DEF Open, LoopsLimited
  <2>2. Cardinality(Open(l)) \in Nat
    BY <2>1, FS_CardinalityType
  <2>3. Cardinality(Open(l)) <= cur_conn[l] /\ Cardinality(Open(l)) <= Share + 1
    BY <1>3 DEF LoopsLimited
  <2> QED BY <2>2, <2>3
<1> QED BY <1>1, <1>2, <1>3 DEF LoopsLimited

LEMMA LimitedKept ==
  ASSUME ServerInv, ServerInv', LoopsLimited, ServerNext
  PROVE  LoopsLimited'
<1>1. /\ thread_count \in Nat /\ max_conn \in Nat /\ cur_conn \in [0 .. thread_count - 1 -> Int]
      /\ \A f \in DOMAIN loop : loop[f] \in 0 .. thread_count - 1
      /\ IsFiniteSet(DOMAIN loop)
  BY ServerNamesAssumption DEF ServerInv, OwnTypes, SizesAndSets, LoopsLimited
<1>2. CASE UNCHANGED <<loop, cur_conn, thread_count, max_conn>>
  BY <1>1, <1>2, LimitsMove
<1>3. CASE Start
  <2>1. DOMAIN loop = {} /\ UNCHANGED loop
    BY <1>3 DEF ServerInv, Stages, Start
  <2>2. CASE UNCHANGED <<thread_count, max_conn, cur_conn>>
    BY <1>2, <2>1, <2>2
  <2>3. CASE ~(UNCHANGED <<thread_count, max_conn, cur_conn>>)
    <3>1. cur_conn' = [l \in 0 .. thread_count' - 1 |-> 0]
      <4>1. thread_count' = Search("threadcount")
            /\ cur_conn' = [l \in 0 .. Search("threadcount") - 1 |-> 0]
        BY <1>3, <2>3 DEF Start
      <4> QED BY <4>1
    <3>2. thread_count' \in Nat /\ max_conn' \in Nat
      BY ServerNamesAssumption DEF ServerInv, OwnTypes, SizesAndSets
    <3>3. \A l : Open(l)' = {}
      BY <2>1 DEF Open
    <3>4. thread_count' > 0 => Share' \in Nat
      <4>1. PICK m, n : m = max_conn' /\ n = thread_count'
        OBVIOUS
      <4>2. m \in Nat /\ n \in Nat
        BY <3>2, <4>1
      <4>3. n > 0 => (m \div n) + 1 \in Nat
        BY <4>2, TimesDiv
      <4>4. Share' = (m \div n) + 1
        BY <4>1 DEF Share
      <4> QED BY <4>1, <4>3, <4>4
    <3>5. \A l \in 0 .. thread_count' - 1 :
            Cardinality(Open(l)') = 0 /\ cur_conn'[l] = 0
      BY <3>1, <3>3, FS_EmptySet
    <3>6. IsFiniteSet(DOMAIN loop')
      BY <2>1, FS_EmptySet
    <3>7. thread_count' > 0 => 0 <= Share' + 1
      BY <3>4
    <3> QED BY <3>5, <3>6, <3>7 DEF LoopsLimited
  <2> QED BY <2>2, <2>3
<1>4. CASE \E fd \in Fds : AcceptConn(fd) /\ ~(UNCHANGED <<loop, cur_conn>>)
  <2>1. PICK fd \in Fds : AcceptConn(fd) /\ ~(UNCHANGED <<loop, cur_conn>>)
    BY <1>4
  <2> DEFINE me == LoopOf(fd)
  <2>2. /\ fd \notin DOMAIN loop
        /\ ~LoopFull(me) /\ thread_count # 0
        /\ loop' = [f \in DOMAIN loop \cup {fd} |-> IF f = fd THEN me ELSE loop[f]]
        /\ cur_conn' = [cur_conn EXCEPT ![me] = @ + 1]
        /\ UNCHANGED <<thread_count, max_conn>>
    BY <2>1 DEF AcceptConn, Unused
  <2>3. me \in 0 .. thread_count - 1
    <3>1. fd \in Nat
      BY FdsAssumption
    <3> QED BY <1>1, <2>2, <3>1 DEF LoopOf
  <2> HIDE DEF me
  <2>4. Share' = Share /\ Share \in Nat
    <3>1. thread_count \in Nat \ {0}
      BY <1>1, <2>2
    <3>2. max_conn \div thread_count \in Nat
      BY <1>1, <3>1, TimesDiv
    <3>3. Share \in Nat
      BY <3>2 DEF Share
    <3>4. Share' = Share
      BY <2>2 DEF Share
    <3> QED BY <3>3, <3>4
  <2>5. IsFiniteSet(DOMAIN loop')
    BY <1>1, <2>2, FS_AddElement
  <2>6. ASSUME NEW l \in 0 .. thread_count - 1
        PROVE  Cardinality(Open(l)') <= cur_conn'[l] /\ Cardinality(Open(l)') <= Share + 1
    <3>1. IsFiniteSet(Open(l))
      BY <1>1, FS_Subset DEF Open
    <3>2. /\ Cardinality(Open(l)) <= cur_conn[l] /\ Cardinality(Open(l)) <= Share + 1
          /\ cur_conn[l] \in Int /\ Cardinality(Open(l)) \in Nat
      BY <1>1, <2>2, <3>1, FS_CardinalityType DEF LoopsLimited
    <3>3. CASE l = me
      <4>1. Open(l)' = Open(l) \cup {fd}
        BY <2>2, <3>3 DEF Open
      <4>2. Cardinality(Open(l) \cup {fd}) = Cardinality(Open(l)) + 1
        <5>1. fd \notin Open(l)
          BY <2>2 DEF Open
        <5> QED BY <3>1, <5>1, FS_AddElement
      <4>3. cur_conn'[l] = cur_conn[l] + 1
        BY <1>1, <2>2, <3>3
      <4>4. cur_conn[l] <= Share
        BY <2>2, <2>4, <3>2, <3>3 DEF LoopFull
      <4> QED BY <2>4, <3>2, <4>1, <4>2, <4>3, <4>4
    <3>4. CASE l # me
      <4>1. Open(l)' = Open(l)
        BY <2>2, <3>4 DEF Open
      <4>2. cur_conn'[l] = cur_conn[l]
        BY <1>1, <2>2, <3>4
      <4> QED BY <3>2, <4>1, <4>2
    <3> QED BY <3>3, <3>4
  <2> QED BY <2>2, <2>4, <2>5, <2>6 DEF LoopsLimited
<1>5. CASE \E fd \in Fds : RejectConn(fd)
  <2>1. PICK fd \in Fds : RejectConn(fd)
    BY <1>5
  <2>2. /\ cur_conn' = [cur_conn EXCEPT ![LoopOf(fd)] = @ + 1]
        /\ UNCHANGED <<loop, thread_count, max_conn>>
    BY <2>1 DEF RejectConn, startVars
  <2>3. \A l \in 0 .. thread_count - 1 : cur_conn[l] \in Int /\ cur_conn'[l] \in Int
                                          /\ cur_conn[l] <= cur_conn'[l]
    BY <1>1, <2>2
  <2> QED BY <2>2, <2>3, LimitsMove
<1>6. CASE \E fd \in Fds : Close(fd)
  <2>1. PICK fd \in Fds : Close(fd)
    BY <1>6
  <2> DEFINE me == loop[fd]
  <2>2. /\ fd \in DOMAIN loop /\ me \in 0 .. thread_count - 1
        /\ loop' = [f \in DOMAIN loop \ {fd} |-> loop[f]]
        /\ cur_conn' = [cur_conn EXCEPT ![me] = @ - 1]
        /\ UNCHANGED <<thread_count, max_conn>>
    BY <1>1, <2>1 DEF Close, startVars
  <2>3. Share' = Share /\ Share \in Nat
    <3>1. thread_count \in Nat \ {0}
      BY <1>1, <2>2
    <3>2. max_conn \div thread_count \in Nat
      BY <1>1, <3>1, TimesDiv
    <3>3. Share \in Nat
      BY <3>2 DEF Share
    <3>4. Share' = Share
      BY <2>2 DEF Share
    <3> QED BY <3>3, <3>4
  <2>4. IsFiniteSet(DOMAIN loop')
    BY <1>1, <2>2, FS_RemoveElement
  <2>5. ASSUME NEW l \in 0 .. thread_count - 1
        PROVE  Cardinality(Open(l)') <= cur_conn'[l] /\ Cardinality(Open(l)') <= Share + 1
    <3>1. IsFiniteSet(Open(l))
      BY <1>1, FS_Subset DEF Open
    <3>2. /\ Cardinality(Open(l)) <= cur_conn[l] /\ Cardinality(Open(l)) <= Share + 1
          /\ cur_conn[l] \in Int /\ Cardinality(Open(l)) \in Nat
      BY <1>1, <2>2, <3>1, FS_CardinalityType DEF LoopsLimited
    <3>3. CASE l = me
      <4>1. Open(l)' = Open(l) \ {fd}
        BY <2>2 DEF Open
      <4>2. Cardinality(Open(l) \ {fd}) = Cardinality(Open(l)) - 1
        <5>1. fd \in Open(l)
          BY <2>2, <3>3 DEF Open
        <5> QED BY <3>1, <5>1, FS_RemoveElement
      <4>3. cur_conn'[l] = cur_conn[l] - 1
        BY <1>1, <2>2, <3>3
      <4> QED BY <2>3, <3>2, <4>1, <4>2, <4>3
    <3>4. CASE l # me
      <4>1. Open(l)' = Open(l)
        BY <2>2, <3>4 DEF Open
      <4>2. cur_conn'[l] = cur_conn[l]
        BY <1>1, <2>2, <3>4
      <4> QED BY <3>2, <4>1, <4>2
    <3> QED BY <3>3, <3>4
  <2> QED BY <2>2, <2>3, <2>4, <2>5 DEF LoopsLimited
<1>7. CASE LoadConfig \/ CreateThread \/ Serve \/ ListenerReady \/ AcceptFails \/ AcceptDone \/ Arrive
  BY <1>2, <1>7 DEF LoadConfig, CreateThread, Serve, ListenerReady, AcceptFails, AcceptDone, Arrive,
                    acceptVars, startVars
<1>8. CASE \E fd \in Fds : AcceptConn(fd) /\ UNCHANGED <<loop, cur_conn>>
  BY <1>2, <1>8 DEF AcceptConn
<1> QED BY <1>3, <1>4, <1>5, <1>6, <1>7, <1>8 DEF ServerNext, MainStep

\* Never more connections are open than "max connection" of server.conf and two
\* for each thread, for any number of threads and of descriptors: each loop takes
\* one connection more than the share that lmvs_new has rounded up for it.
THEOREM ConnectionsAreLimited == ServerSpec => []OpenWithinLimit
<1>1. LoopsLimited /\ ServerInv /\ ServerInv' /\ [ServerNext]_serverVars => LoopsLimited'
  <2> SUFFICES ASSUME LoopsLimited, ServerInv, ServerInv', [ServerNext]_serverVars
               PROVE  LoopsLimited'
    OBVIOUS
  <2>1. CASE UNCHANGED serverVars
    BY <2>1 DEF serverVars, startVars, acceptVars, LoopsLimited, Open, Share
  <2> QED BY <2>1, LimitedKept
<1>2. LoopsLimited /\ ServerInv => OpenWithinLimit
  <2> SUFFICES ASSUME LoopsLimited, ServerInv, thread_count > 0
               PROVE  Cardinality(DOMAIN loop) <= max_conn + 2 * thread_count
    BY DEF OpenWithinLimit
  <2>1. /\ thread_count \in Nat \ {0} /\ max_conn \in Nat
        /\ \A f \in DOMAIN loop : loop[f] \in 0 .. thread_count - 1
        /\ IsFiniteSet(DOMAIN loop)
    BY ServerNamesAssumption DEF ServerInv, OwnTypes, SizesAndSets, LoopsLimited
  <2> DEFINE f == [fd \in DOMAIN loop |-> loop[fd]]
             k == (max_conn \div thread_count) + 2
  <2>2. k \in Nat /\ thread_count * k <= max_conn + 2 * thread_count
    BY <2>1, TimesDiv
  <2>3. f \in [DOMAIN loop -> 0 .. thread_count - 1]
    BY <2>1
  <2>4. \A l \in 0 .. thread_count - 1 : Cardinality({fd \in DOMAIN loop : f[fd] = l}) <= k
    <3> SUFFICES ASSUME NEW l \in 0 .. thread_count - 1
                 PROVE  Cardinality({fd \in DOMAIN loop : f[fd] = l}) <= k
      OBVIOUS
    <3>1. {fd \in DOMAIN loop : f[fd] = l} = Open(l)
      BY DEF Open
    <3>2. Cardinality(Open(l)) <= Share + 1
      BY <2>1 DEF LoopsLimited
    <3>3. Share + 1 = k
      BY <2>1, TimesDiv DEF Share
    <3> QED BY <3>1, <3>2, <3>3
  <2> HIDE DEF f, k
  <2>5. Cardinality(DOMAIN loop) <= thread_count * k
    BY <2>1, <2>2, <2>3, <2>4, PartsBound
  <2>6. Cardinality(DOMAIN loop) \in Nat /\ thread_count * k \in Nat
    BY <2>1, <2>2, FS_CardinalityType
  <2> QED BY <2>1, <2>2, <2>5, <2>6
<1> QED BY <1>1, <1>2, LimitedInitially, ServerInvariant, PTL DEF ServerSpec

=============================================================================
