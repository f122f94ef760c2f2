-------------------------------- MODULE Config --------------------------------
(***************************************************************************)
(* The configuration of the server (lmvs-config.c) and the hash table it   *)
(* is kept in (lmvs-hashtable.c): each line of the file that has a name    *)
(* and a value becomes a node at the head of the list of its bucket, so    *)
(* that a name given twice is there twice and the later one is found.      *)
(***************************************************************************)
EXTENDS Naturals, Sequences

CONSTANTS
  Names,      \* the names that lines of the file may have
  Values,     \* the numbers that their values may be read as
  NoValue,    \* what is found of a name that no line has
  Buckets,    \* the lists of the table: 709 in the code
  Hash,       \* name -> bucket; the seed is random
  MaxLines    \* how many lines the file has at most (bound)

ASSUME HashAssumption == Hash \in [Names -> Buckets]
ASSUME NoValueAssumption == NoValue \notin Values
ASSUME MaxLinesAssumption == MaxLines \in Nat

VARIABLES
  lists,      \* table->lists: bucket -> its nodes, from head to tail
  file        \* history: the lines read so far

configVars == <<lists, file>>

Nodes == [key : Names, value : Values]

ConfigInit ==
  /\ lists = [bucket \in Buckets |-> << >>]
  /\ file = << >>

\* Mutant: a node is linked behind the last one.
InsertAtTail(list, node) == list \o <<node>>

\* lmvs_htlist_insert.
InsertAtHead(list, node) == <<node>> \o list

\* A line of lmvs_config_load, and lmvs_ht_insert.  Comments, empty lines and
\* lines without '=' leave no trace.
LoadLine(node) ==
  /\ Len(file) < MaxLines
  /\ file' = Append(file, node)
  /\ lists' = [lists EXCEPT ![Hash[node.key]] = InsertAtHead(@, node)]

\* lmvs_ht_search walks from the head to the first node with the key.
Matches(list, name) == {i \in 1 .. Len(list) : list[i].key = name}

Search(name) ==
  LET list == lists[Hash[name]]
      at   == Matches(list, name)
  IN IF at = {} THEN NoValue
                ELSE list[CHOOSE i \in at : \A j \in at : i <= j].value

-----------------------------------------------------------------------------
\* What the file says: of the lines with a name, the last.
Given(name) ==
  LET at == Matches(file, name)
  IN IF at = {} THEN NoValue
                ELSE file[CHOOSE i \in at : \A j \in at : j <= i].value

\* lmvs_config_find gives every name the value of its last line in the file, and
\* none to a name without a line, whatever names share a bucket.
LastLineCounts == \A name \in Names : Search(name) = Given(name)

ConfigTypeOK ==
  /\ lists \in [Buckets -> Seq(Nodes)]
  /\ file \in Seq(Nodes)
=============================================================================
