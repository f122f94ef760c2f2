-------------------------------- MODULE Server --------------------------------
(***************************************************************************)
(* The server as a whole (main.c, lmvs.c): main reads the configuration,   *)
(* lmvs_new makes an event loop for each I/O thread, lmvs_loop creates the *)
(* threads, binds them to CPUs and then accepts connections, which it      *)
(* deals out to the loops by their descriptors.  The listener is edge-     *)
(* triggered.  What a loop does with a connection is in EventLoop; here it *)
(* keeps the connection for a while, and then closes it.                   *)
(***************************************************************************)
EXTENDS Config, Integers, FiniteSets

CONSTANTS
  CoreCounts,   \* how many CPUs the machine may have
  Fds,          \* the descriptors that accept may return
  MaxArrivals   \* how many connections arrive in all (bound)

ASSUME CoreCountsAssumption == CoreCounts \subseteq Nat \ {0}
ASSUME FdsAssumption == Fds \subseteq Nat \ {0}
ASSUME ServerNamesAssumption ==
  {"maxconn", "threadcount"} \subseteq Names /\ Values \subseteq Nat
ASSUME MaxArrivalsAssumption == MaxArrivals \in Nat

VARIABLES
  mode,         \* "loading", "starting", "serving", or "undefined"
  cores,        \* lmvs->cpu_cores
  thread_count, \* lmvs->thread_count
  max_conn,     \* lmvs->max_conn
  created,      \* how many times pthread_create has been called
  cpu,          \* thread -> the CPU it is bound to; the threads that run
  arrived,      \* how many connections have arrived
  backlog,      \* kernel: how many of them wait to be accepted
  ready,        \* kernel: is there an event of the listener to be returned?
  accepting,    \* is the main thread inside _do_accept?
  loop,         \* descriptor -> the loop that has its connection; those open
  cur_conn,     \* loop -> its el->cur_conn
  gave_up,      \* history: has _do_accept returned with connections waiting?
  faults        \* history: what else has gone wrong

startVars == <<mode, cores, thread_count, max_conn, created, cpu>>
acceptVars == <<arrived, backlog, ready, accepting, loop, cur_conn, gave_up>>
serverVars == <<configVars, startVars, acceptVars, faults>>

Fault(name, happened) == faults' = faults \cup (IF happened THEN {name} ELSE {})

ServerInit ==
  /\ ConfigInit
  /\ mode = "loading" /\ cores \in CoreCounts
  /\ thread_count = 0 /\ max_conn = 0
  /\ created = 0 /\ cpu = << >>
  /\ arrived = 0 /\ backlog = 0 /\ ready = FALSE /\ accepting = FALSE
  /\ loop = << >> /\ cur_conn = << >>
  /\ gave_up = FALSE /\ faults = {}

-----------------------------------------------------------------------------
(***************************************************************************)
(* Starting.                                                               *)
(***************************************************************************)

\* A line of the file.  Where one side of its '=' is blank, lmvs_trim returns
\* NULL, which lmvs_config_load hands to strlen.
LoadConfig ==
  /\ mode = "loading"
  /\ \/ \E node \in Nodes : LoadLine(node) /\ UNCHANGED mode
     \/ Len(file) < MaxLines /\ mode' = "undefined" /\ UNCHANGED configVars
  /\ UNCHANGED <<cores, thread_count, max_conn, created, cpu, acceptVars, faults>>

\* main takes the parameters from the configuration and calls lmvs_new.  It has
\* a default for maxconn.  It has none for threadcount, and hands NULL to atoi.
Start ==
  /\ mode = "loading"
  /\ LET threads == Search("threadcount")
         conns   == Search("maxconn")
     IN IF threads = NoValue
          THEN /\ mode' = "undefined"
               /\ UNCHANGED <<thread_count, max_conn, cur_conn>>
          ELSE /\ mode' = "starting"
               /\ thread_count' = threads
               /\ max_conn' = IF conns = NoValue THEN 1000 ELSE conns
               /\ cur_conn' = [l \in 0 .. threads - 1 |-> 0]
  /\ UNCHANGED <<configVars, cores, created, cpu, arrived, backlog, ready,
                 accepting, loop, gave_up, faults>>

\* Mutant: + and % taken in the other order, so that CPU0 and CPU1 are used too.
CpuFromZero(i, n) == IF n > 4 THEN (i + 2) % n ELSE i % n

\* The CPU that lmvs_loop has for thread i of a machine with n of them.
\* (i + 2 % n is i + 2.)
CpuId(i, n) ==
  IF n > 4 THEN IF i >= n - 2 THEN i + 4 - n ELSE i + 2 ELSE i % n

\* Mutant: the threads counted from one.
MoreButOne == created + 1 < thread_count

\* The condition of the first loop of lmvs_loop.
MoreThreads == created < thread_count

\* pthread_create, lmvs_bind_to_cpu.  pthread_create returns its error as a
\* positive number, which the test < 0 misses: the loop is left without a thread.
CreateThread ==
  /\ mode = "starting"
  /\ MoreThreads
  /\ created' = created + 1
  /\ \/ cpu' = [i \in DOMAIN cpu \cup {created} |->
                  IF i = created THEN CpuId(created, cores) ELSE cpu[i]]
        /\ UNCHANGED faults
     \/ Fault("no_thread", TRUE) /\ UNCHANGED cpu
  /\ UNCHANGED <<configVars, mode, cores, thread_count, max_conn, acceptVars>>

Serve ==
  /\ mode = "starting"
  /\ ~MoreThreads
  /\ mode' = "serving"
  /\ UNCHANGED <<configVars, cores, thread_count, max_conn, created, cpu, acceptVars, faults>>

-----------------------------------------------------------------------------
(***************************************************************************)
(* Serving.                                                                *)
(***************************************************************************)

\* A connection arrives at the listener, which is open since lmvs_new.
Arrive ==
  /\ mode \in {"starting", "serving"}
  /\ arrived < MaxArrivals
  /\ arrived' = arrived + 1 /\ backlog' = backlog + 1 /\ ready' = TRUE
  /\ UNCHANGED <<configVars, startVars, accepting, loop, cur_conn, gave_up, faults>>

\* epoll_wait returns the event, unless nothing waits any more.
ListenerReady ==
  /\ mode = "serving" /\ ~accepting
  /\ ready /\ ready' = FALSE
  /\ accepting' = (backlog > 0)
  /\ UNCHANGED <<configVars, startVars, arrived, backlog, loop, cur_conn, gave_up, faults>>

Open(l) == {fd \in DOMAIN loop : loop[fd] = l}
Unused == Fds \ DOMAIN loop

\* lmvs_new gives each loop its share of the connections, and one more.
Share == (max_conn \div thread_count) + 1

\* Mutant: a loop takes one connection more than it does.
LoopFullLater(l) == cur_conn[l] > Share + 1

\* The test of lmvs_el_add_connection.
LoopFull(l) == cur_conn[l] > Share

LoopOf(fd) == fd % thread_count

\* Mutant: one connection is accepted for one event.
AcceptedOne == FALSE

\* Does _do_accept go on after it has accepted a connection?
AcceptedGoOn == TRUE

\* accept returns a descriptor, whichever is free, and lmvs_el_add_connection
\* takes the connection.  With no threads at all, fd % 0 is undefined.
AcceptConn(fd) ==
  /\ accepting /\ mode = "serving"
  /\ backlog > 0 /\ backlog' = backlog - 1
  /\ fd \in Unused
  /\ IF thread_count = 0
       THEN mode' = "undefined" /\ UNCHANGED <<loop, cur_conn, accepting>>
       ELSE /\ ~LoopFull(LoopOf(fd))
            /\ loop' = [f \in DOMAIN loop \cup {fd} |-> IF f = fd THEN LoopOf(fd) ELSE loop[f]]
            /\ cur_conn' = [cur_conn EXCEPT ![LoopOf(fd)] = @ + 1]
            /\ accepting' = AcceptedGoOn
            /\ UNCHANGED mode
  /\ UNCHANGED <<configVars, cores, thread_count, max_conn, created, cpu,
                 arrived, ready, gave_up, faults>>

\* _do_accept returns, whether or not other connections wait.
Return(waiting) == accepting' = FALSE /\ gave_up' = (waiting > 0)

\* It turns the connection away, but keeps it counted, and returns.
RejectConn(fd) ==
  /\ accepting /\ thread_count > 0
  /\ backlog > 0 /\ backlog' = backlog - 1
  /\ fd \in Unused
  /\ LoopFull(LoopOf(fd))
  /\ cur_conn' = [cur_conn EXCEPT ![LoopOf(fd)] = @ + 1]
  /\ Return(backlog - 1)
  /\ UNCHANGED <<configVars, startVars, arrived, ready, loop, faults>>

\* accept returns -1: there is no descriptor left, or the client has gone.
AcceptFails ==
  /\ accepting /\ backlog > 0
  /\ \/ Unused = {} /\ UNCHANGED backlog /\ Return(backlog)
     \/ backlog' = backlog - 1 /\ Return(backlog - 1)
  /\ UNCHANGED <<configVars, startVars, arrived, ready, loop, cur_conn, faults>>

\* accept returns -1 with EAGAIN: all have been accepted.
AcceptDone ==
  /\ accepting /\ backlog = 0
  /\ Return(0)
  /\ UNCHANGED <<configVars, startVars, arrived, backlog, ready, loop, cur_conn, faults>>

\* A loop that has a thread closes one of its connections.  (It counts exactly
\* here; how the race of the two threads loses a count is in EventLoop.)
Close(fd) ==
  /\ fd \in DOMAIN loop
  /\ loop[fd] \in DOMAIN cpu
  /\ loop' = [f \in DOMAIN loop \ {fd} |-> loop[f]]
  /\ cur_conn' = [cur_conn EXCEPT ![loop[fd]] = @ - 1]
  /\ UNCHANGED <<configVars, startVars, arrived, backlog, ready, accepting, gave_up, faults>>

MainStep ==
  \/ Start
  \/ CreateThread
  \/ Serve
  \/ ListenerReady
  \/ \E fd \in Fds : AcceptConn(fd) \/ RejectConn(fd)
  \/ AcceptFails
  \/ AcceptDone

ServerNext ==
  /\ mode # "undefined"
  /\ \/ LoadConfig
     \/ MainStep
     \/ Arrive
     \/ \E fd \in Fds : Close(fd)

ServerSpec == ServerInit /\ [][ServerNext]_serverVars

\* The main thread keeps running.
FairServerSpec == ServerSpec /\ WF_serverVars(mode # "undefined" /\ MainStep)

-----------------------------------------------------------------------------
(***************************************************************************)
(* Properties.                                                             *)
(***************************************************************************)

ServerTypeOK ==
  /\ ConfigTypeOK
  /\ mode \in {"loading", "starting", "serving", "undefined"}
  /\ cores \in CoreCounts
  /\ thread_count \in Values \cup {0}
  /\ max_conn \in Values \cup {0, 1000}
  /\ created \in 0 .. thread_count
  /\ DOMAIN cpu \subseteq 0 .. created - 1 /\ \A t \in DOMAIN cpu : cpu[t] \in Nat
  /\ arrived \in 0 .. MaxArrivals /\ backlog \in 0 .. arrived
  /\ ready \in BOOLEAN /\ accepting \in BOOLEAN /\ gave_up \in BOOLEAN
  /\ DOMAIN loop \subseteq Fds /\ \A fd \in DOMAIN loop : loop[fd] \in DOMAIN cur_conn
  /\ cur_conn \in [0 .. thread_count - 1 -> Int]
  /\ faults \subseteq {"no_thread"}

\* While connections wait at the edge-triggered listener, the main thread is
\* accepting them or will be told of them, unless _do_accept has returned early:
\* after it turned one away, or after an error of accept.
AcceptEventDue == backlog > 0 => ready \/ accepting \/ gave_up

\* A connection is only ever given to a loop with a thread to serve it, unless
\* pthread_create failed unnoticed when lmvs_loop started that thread.
ServedByThread ==
  "no_thread" \notin faults => \A fd \in DOMAIN loop : loop[fd] \in DOMAIN cpu

\* What "max connection" of server.conf comes to: the rounding of lmvs_new and
\* the test of lmvs_el_add_connection each let one connection more into a loop.
OpenWithinLimit ==
  thread_count > 0 => Cardinality(DOMAIN loop) <= max_conn + 2 * thread_count

\* lmvs_loop binds each thread to a CPU there is, skips CPU0 and CPU1 of a machine
\* with more than four, and puts two threads on one CPU only when all others have
\* one as well.  Of the threads after the first 2 * (cores - 2) of such a machine
\* this does not hold: the CPU they are bound to does not exist.
Usable(n) == IF n > 4 THEN 2 .. n - 1 ELSE 0 .. n - 1

ThreadsSpread ==
  \A t \in DOMAIN cpu : (cores > 4 => t < 2 * (cores - 2)) =>
    /\ cpu[t] \in Usable(cores)
    /\ \A u \in DOMAIN cpu :
         u < t /\ t - u < Cardinality(Usable(cores)) => cpu[u] # cpu[t]

\* Once the server accepts connections, each that arrives is accepted or turned
\* away in the end, unless _do_accept returned early or the configuration left
\* the server without loops.
EveryArrivalAnswered == backlog > 0 ~> (backlog = 0 \/ gave_up \/ mode = "undefined")
=============================================================================
