---------------------------- MODULE HandlerServer ----------------------------
(***************************************************************************)
(* The services that give each client a handler of its own:                *)
(*   "threads"  lab_7/problem1/version_1, a thread for each connection;     *)
(*   "pool"     lab_7/problem1/version_2, threads that accept themselves;   *)
(*   "forks"    lab_6/problem_2, a process for each connection;             *)
(*   "echo"     lab_6/fork_test, the same with a handler that returns.      *)
(* A worker is a thread or a process.                                      *)
(***************************************************************************)
EXTENDS KeyService

CONSTANTS NWorkers,   \* workers there can be: one for each connection
          PoolSizes   \* how many threads the pool may have; the code has 3

ASSUME HandlerAssumption ==
  /\ NWorkers \in Nat /\ NWorkers >= Cardinality(Conn)
  /\ PoolSizes \subseteq 1..NWorkers /\ PoolSizes # {}

VARIABLES worker,  \* [1..NWorkers -> record]: threads or processes
          td       \* [1..NWorkers -> Conn]: the thData main allocates

hvars == <<service, worker, td>>

Worker == 1..NWorkers

\* "start": created, its argument not read yet; "accept": inside accept();
\* "serve": inside handle_client(cl).
WorkerState == [pc : {"none", "start", "accept", "serve"},
                arg : Worker, cl : Conn \cup {None}]

NoWorker == [pc |-> "none", arg |-> 1, cl |-> None]

HandlerStart ==
  /\ \E n \in PoolSizes : worker = [w \in Worker |->
       IF program = "pool" /\ w <= n THEN [NoWorker EXCEPT !.pc = "accept"]
       ELSE NoWorker]
  /\ td = [w \in Worker |-> None]

Serves(w, c) == worker[w].pc = "serve" /\ worker[w].cl = c

-----------------------------------------------------------------------------
(* Creating the workers *)

FreeWorker(w) == worker[w].pc = "none" /\ \A v \in 1..(w - 1) : worker[v].pc # "none"

\* accept() with a descriptor for the connection; without one it fails, and all
\* these loops call it again at once.
Accepting(c) == backlog # <<>> /\ c = Head(backlog) /\ backlog' = Tail(backlog)

\* Slip: one thData for all threads.
SpawnShared(w) ==
  /\ up /\ program = "threads" /\ FreeWorker(w)
  /\ \E c \in Conn :
       /\ Accepting(c) /\ left > 0 /\ left' = left - 1
       /\ link' = [link EXCEPT ![c] = "held"]
       /\ td' = [td EXCEPT ![1] = c]
       /\ worker' = [worker EXCEPT ![w] = [NoWorker EXCEPT !.pc = "start"]]
  /\ UNCHANGED <<program, client, c2s, s2c, up>>

\* The main loop of version_1.  That pthread_create may fail is not looked at:
\* the connection is then held by nobody.
Spawn(w) ==
  /\ up /\ program = "threads" /\ FreeWorker(w)
  /\ \E c \in Conn :
       /\ Accepting(c) /\ left > 0 /\ left' = left - 1
       /\ td' = [td EXCEPT ![w] = c]
       /\ \/ /\ link' = [link EXCEPT ![c] = "held"]
             /\ worker' = [worker EXCEPT ![w] = [NoWorker EXCEPT !.pc = "start", !.arg = w]]
          \/ /\ link' = [link EXCEPT ![c] = "dropped"]
             /\ UNCHANGED worker
  /\ UNCHANGED <<program, client, c2s, s2c, up>>

\* treat copies its argument.
StartThread(w) ==
  /\ up /\ worker[w].pc = "start"
  /\ worker' = [worker EXCEPT ![w].pc = "serve", ![w].cl = td[worker[w].arg]]
  /\ UNCHANGED <<service, td>>

\* The main loop of problem_2 and fork_test: the child gets the connection, and
\* the parent closes its own descriptor; when fork() fails that closes it.
Fork(w) ==
  /\ up /\ program \in {"forks", "echo"} /\ FreeWorker(w)
  /\ \E c \in Conn :
       /\ Accepting(c) /\ left > 0
       /\ \/ /\ link' = [link EXCEPT ![c] = "held"]
             /\ worker' = [worker EXCEPT ![w] = [NoWorker EXCEPT !.pc = "serve", !.cl = c]]
             /\ UNCHANGED c2s
          \/ /\ link' = [link EXCEPT ![c] = "closed"]
             /\ c2s' = [c2s EXCEPT ![c] = <<>>]
             /\ UNCHANGED worker
  /\ UNCHANGED <<program, client, s2c, left, up, td>>

\* Slip: the mutex is released only after handle_client.
PoolAcceptLocked(w) ==
  /\ up /\ program = "pool" /\ worker[w].pc = "accept"
  /\ \A v \in Worker : worker[v].pc # "serve"
  /\ left > 0 /\ left' = left - 1
  /\ \E c \in Conn :
       /\ Accepting(c)
       /\ link' = [link EXCEPT ![c] = "held"]
       /\ worker' = [worker EXCEPT ![w].pc = "serve", ![w].cl = c]
  /\ UNCHANGED <<program, client, c2s, s2c, up, td>>

\* A thread of the pool: the mutex lets one of them wait in accept().  When it
\* fails the thread goes on with descriptor -1, on which each read() fails, and
\* never comes back.
PoolAccept(w) ==
  /\ up /\ program = "pool" /\ worker[w].pc = "accept"
  /\ \/ /\ left > 0 /\ left' = left - 1
        /\ \E c \in Conn :
             /\ Accepting(c)
             /\ link' = [link EXCEPT ![c] = "held"]
             /\ worker' = [worker EXCEPT ![w].pc = "serve", ![w].cl = c]
     \/ /\ left = 0
        /\ worker' = [worker EXCEPT ![w].pc = "serve"]
        /\ UNCHANGED <<backlog, link, left>>
  /\ UNCHANGED <<program, client, c2s, s2c, up, td>>

-----------------------------------------------------------------------------
(* handle_client *)

\* A process ends and is reaped; the kernel closes its connection.
Ends(w, c) ==
  /\ worker' = [worker EXCEPT ![w] = NoWorker]
  /\ link' = [link EXCEPT ![c] = "closed"]
  /\ c2s' = [c2s EXCEPT ![c] = <<>>]
  /\ UNCHANGED <<left, up>>

\* SIGPIPE, which may come when a client that is gone is answered: it ends the
\* process, with threads the whole server.
Piped(w, c) ==
  IF program \in {"forks", "echo"} THEN Ends(w, c)
  ELSE /\ up' = FALSE
       /\ c2s' = [c2s EXCEPT ![c] = Tail(@)]
       /\ UNCHANGED <<worker, link, left>>

\* One key: read, looked up, answered.  A child of problem_2 has descriptors of
\* its own, and fork_test answers with the next number.
Serve(w, c) ==
  LET k == Head(c2s[c]) IN
  /\ up \/ program \in {"forks", "echo"}
  /\ Serves(w, c) /\ c2s[c] # <<>> /\ k \in Keys
  /\ \E say \in {"empty", "text"} :
       \/ /\ IF program \in {"threads", "pool"}
             THEN \E n \in 0..3 : ExecKey(k, n, say) /\ left' = left - n
             ELSE left' = left /\ (program = "echo" => say = "text")
          /\ Sent(c, Saying(k, say))
          /\ c2s' = [c2s EXCEPT ![c] = Tail(@)]
          /\ UNCHANGED <<worker, link, up>>
       \/ /\ Gone(c) /\ Piped(w, c) /\ UNCHANGED s2c
  /\ UNCHANGED <<program, client, backlog, td>>

\* Slip: the empty key is looked up and answered.
SkipAnswered(w, c) ==
  /\ up \/ program \in {"forks", "echo"}
  /\ Serves(w, c) /\ c2s[c] # <<>> /\ Head(c2s[c]) \in {"zero", "half"}
  /\ c2s' = [c2s EXCEPT ![c] = Tail(@)]
  /\ Sent(c, Saying("unknown", "text"))
  /\ UNCHANGED <<program, client, backlog, link, left, up, worker, td>>

\* A size without bytes behind it, 0 or not: read() returns 0.  fork_test's
\* handler returns, the others ask for the next size.
Skip(w, c) ==
  /\ up \/ program \in {"forks", "echo"}
  /\ Serves(w, c) /\ c2s[c] # <<>> /\ Head(c2s[c]) \in {"zero", "half"}
  /\ IF program = "echo" THEN Ends(w, c)
     ELSE /\ c2s' = [c2s EXCEPT ![c] = Tail(@)]
          /\ UNCHANGED <<worker, link, left, up>>
  /\ UNCHANGED <<program, client, backlog, s2c, td>>

\* End of file: fork_test's handler returns.  In the other programs the loop
\* goes round for ever, reading nothing.
Hangup(w, c) ==
  /\ program = "echo" /\ Serves(w, c) /\ Gone(c) /\ c2s[c] = <<>>
  /\ Ends(w, c)
  /\ UNCHANGED <<program, client, backlog, s2c, td>>

-----------------------------------------------------------------------------

Admit == \E w \in Worker : Spawn(w) \/ Fork(w) \/ PoolAccept(w)

WorkerStep(w) == StartThread(w) \/ \E c \in Conn : Serve(w, c) \/ Skip(w, c) \/ Hangup(w, c)

HandlerNext ==
  \/ Admit
  \/ \E w \in Worker : WorkerStep(w)
  \/ \E c \in Conn : (ClientStep(c) \/ UserStep(c)) /\ UNCHANGED <<worker, td>>

HandlerSpec == /\ program \in HandlerPrograms /\ ServiceStart /\ HandlerStart
               /\ [][HandlerNext]_hvars

\* Every thread and process that can run is run in the end.
HandlerFairness ==
  /\ WF_hvars(Admit)
  /\ \A w \in Worker : WF_hvars(WorkerStep(w))

-----------------------------------------------------------------------------
(* Properties *)

\* Workers and their arguments keep their types.
HandlerTypeOK == /\ worker \in [Worker -> WorkerState]
                 /\ td \in [Worker -> Conn \cup {None}]

\* No two workers serve one connection, and each serves one that was accepted:
\* a thread reads its thData after main has gone on to the next (server.c:132).
OneHandler ==
  \A v, w \in Worker : worker[w].pc = "serve" /\ worker[w].cl # None =>
    /\ link[worker[w].cl] = "held"
    /\ v # w => ~Serves(v, worker[w].cl)

\* Nothing can take the connection: every thread of the pool has one and keeps
\* it when its client is gone, no descriptor is left, or the thread for it could
\* not be created.
NoHandlerFor(c) ==
  LET Queued == \E i \in 1..Len(backlog) : backlog[i] = c
      Taken == program = "pool" /\ \A w \in Worker : worker[w].pc # "accept" IN
  link[c] = "dropped" \/ (Queued /\ (left = 0 \/ Taken))

\* When their clients are gone, fork_test's handlers have left no process.
ChildrenReaped ==
  program = "echo" /\ (\A c \in Conn : Gone(c)) => \A w \in Worker : worker[w] = NoWorker
=============================================================================
