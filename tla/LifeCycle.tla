----------------------------- MODULE LifeCycle -----------------------------
(***************************************************************************)
(* The life of the tracker's process: main and the signal handler          *)
(* (hefur/main.cc), the object Hefur that creates the components and       *)
(* destroys them in the reverse order of its members, their threads, and   *)
(* the reference counted database that all of them find through            *)
(* Hefur::instance().                                                      *)
(*                                                                         *)
(* A thread is "idle" in the call it blocks in, about to "call"            *)
(* Hefur::instance().torrentDb(), in the "use" of what it got, or at its   *)
(* "end"; it is "lost", anything may happen, if it called when the object  *)
(* was not there.  The mimosa library is external: cancel() ends a blocked *)
(* thread, cancel() and join() of a thread that never started return at    *)
(* once, and HTTP requests are served by threads of their own, which nobody*)
(* joins.                                                                  *)
(***************************************************************************)
EXTENDS Integers, Sequences, FiniteSets

CONSTANTS
  Workers,   \* threads that serve HTTP requests
  Fds        \* the descriptors that socket() may return to UdpServer::start

(* Descriptor 0, of a process without standard input, is taken for none by *)
(* UdpServer::stop and left out.                                           *)
ASSUME LifeAssumption ==
  /\ Fds \subseteq Nat \ {0}
  /\ Workers \cap {"hefur", "tdb", "wl", "udp", "http", "https", "control"} = {}

VARIABLES
  main,      \* what the main thread is at: a phase, and a place in its list
  quit,      \* quit() of main.cc, and Hefur::stop_
  instance,  \* Hefur::instance_
  comp,      \* the components: thread, and how it is told to stop
  fd,        \* UdpServer::fd_
  worker,    \* the HTTP requests
  db         \* the TorrentDb, and who holds a reference to it

vars == <<main, quit, instance, comp, fd, worker, db>>

Signals == {"SIGINT", "SIGQUIT"}

(* Slip: the database is declared last, and goes first.                    *)
Down_DbFirst == <<"tdb", "control", "udp", "https", "http", "wl">>

(* The order of Hefur::Hefur, and that of the members from the last up.    *)
Up   == <<"tdb", "wl", "udp", "http", "https", "control">>
Down == <<"control", "udp", "https", "http", "wl", "tdb">>

Components == {Up[i] : i \in DOMAIN Up}

-----------------------------------------------------------------------------
Init ==
  /\ main = <<"start", 1>>
  /\ quit = [once |-> TRUE, stop |-> FALSE, handler |-> [s \in Signals |-> "none"]]
  /\ instance = "none"
  /\ comp = [x \in Components |-> [thread |-> "none", stop |-> FALSE, cancelled |-> FALSE]]
  /\ fd = -1
  /\ worker = [w \in Workers |-> "idle"]
  /\ db = [state |-> "none", users |-> {}]

Goto(x, t) == comp' = [comp EXCEPT ![x].thread = t]

(* main is about to start, stop or join component x.                       *)
At(phase, x) ==
  /\ main[1] = phase
  /\ main[2] <= Len(Up)
  /\ x = IF phase = "start" THEN Up[main[2]] ELSE Down[main[2]]

(* Hefur::Hefur: the database, whose cleanup thread starts, and instance_. *)
StartDb ==
  /\ At("start", "tdb")
  /\ db' = [state |-> "live", users |-> {"hefur"}]
  /\ instance' = "live"
  /\ Goto("tdb", "idle")
  /\ main' = <<"start", main[2] + 1>>
  /\ UNCHANGED <<quit, fd, worker>>

(* A component and its thread, or none if it is disabled or cannot listen: *)
(* nobody looks at what start() returns.  A UDP server that cannot bind    *)
(* keeps its descriptor.  The white list begins with a scan, the others    *)
(* wait.                                                                   *)
Start(x) ==
  /\ At("start", x)
  /\ x # "tdb"
  /\ \/ /\ Goto(x, IF x = "wl" THEN "call" ELSE "idle")
        /\ fd' \in IF x = "udp" THEN Fds ELSE {fd}
     \/ /\ fd' \in IF x = "udp" THEN Fds \cup {fd} ELSE {fd}
        /\ UNCHANGED comp
  /\ main' = IF main[2] = Len(Up) THEN <<"run", 1>> ELSE <<"start", main[2] + 1>>
  /\ UNCHANGED <<quit, instance, worker, db>>

(* Hefur::run, and the first line of Hefur::~Hefur, wait for stop_.        *)
Run ==
  /\ main[1] = "run"
  /\ quit.stop
  /\ main' = <<"stop", 1>>
  /\ UNCHANGED <<quit, instance, comp, fd, worker, db>>

(* Slip: the thread is told to stop, and left in the call it blocks in.    *)
Stop_NoCancel(x) ==
  /\ At("stop", x)
  /\ x # "tdb"
  /\ comp' = [comp EXCEPT ![x].stop = TRUE]
  /\ main' = <<"join", main[2]>>
  /\ UNCHANGED <<quit, instance, fd, worker, db>>

(* stop() of a server, or ~FsTreeWhiteList, up to the join: the flag or    *)
(* the future is set, and a server's socket closed and thread cancelled.   *)
(* UdpServer::stop takes a descriptor of 0 for none.                       *)
Stop(x) ==
  /\ At("stop", x)
  /\ x # "tdb"
  /\ IF x = "udp" /\ fd <= 0
       THEN main' = <<"stop", main[2] + 1>> /\ UNCHANGED comp
       ELSE /\ comp' = [comp EXCEPT ![x].stop = TRUE, ![x].cancelled = x # "wl"]
            /\ main' = <<"join", main[2]>>
  /\ UNCHANGED <<quit, instance, fd, worker, db>>

(* Slip: the thread is not waited for.                                     *)
Join_No(x) ==
  /\ At("join", x)
  /\ main' = <<"stop", main[2] + 1>>
  /\ UNCHANGED <<quit, instance, comp, fd, worker, db>>

Join(x) ==
  /\ At("join", x)
  /\ comp[x].thread \in {"none", "end"}
  /\ main' = <<"stop", main[2] + 1>>
  /\ UNCHANGED <<quit, instance, comp, fd, worker, db>>

(* The reference of u goes away.  The last one takes the database along:   *)
(* ~TorrentDb stops the cleanup thread and waits for it.                   *)
Release(u) ==
  /\ db' = [state |-> IF db.users = {u} THEN "dying" ELSE db.state, users |-> db.users \ {u}]
  /\ comp' = IF db.users = {u} THEN [comp EXCEPT !["tdb"].stop = TRUE] ELSE comp

(* Hefur::tdb_ is destroyed.                                               *)
ReleaseDb ==
  /\ At("stop", "tdb")
  /\ Release("hefur")
  /\ main' = IF db.users = {"hefur"} THEN <<"reap", main[2]>> ELSE <<"stop", main[2] + 1>>
  /\ UNCHANGED <<quit, instance, fd, worker>>

Reaped ==
  /\ comp["tdb"].thread = "end"
  /\ db' = [db EXCEPT !.state = "gone"]

ReapDb ==
  /\ main[1] = "reap"
  /\ Reaped
  /\ main' = <<"stop", main[2] + 1>>
  /\ UNCHANGED <<quit, instance, comp, fd, worker>>

(* Hefur::release has deleted the object ...                               *)
Delete ==
  /\ main[1] = "stop"
  /\ main[2] > Len(Down)
  /\ instance' = "deleted"
  /\ main' = <<"deinit", main[2]>>
  /\ UNCHANGED <<quit, comp, fd, worker, db>>

(* ... and main returns, which ends every thread.                          *)
Exit ==
  /\ main[1] = "deinit"
  /\ main' = <<"exit", main[2]>>
  /\ UNCHANGED <<quit, instance, comp, fd, worker, db>>

-----------------------------------------------------------------------------
(* Slip: torrentDb() returns a plain pointer.                              *)
Acquire_Plain(u) == UNCHANGED db

(* Hefur::instance().torrentDb(): a copy of the reference tdb_.            *)
HefurIsThere == instance = "live" /\ "hefur" \in db.users

Acquire(u) == db' = [db EXCEPT !.users = @ \cup {u}]

(* The threads.  A server's thread tests its flag after the call it blocks *)
(* in has returned and the work is done; the cleanup thread and the white  *)
(* list wait for the future and do no more work once it is set.            *)
Ready(x) == main[1] # "exit" /\ comp[x].thread = "idle"

(* UdpServer::run: a datagram that needs the database.                     *)
Wake ==
  /\ Ready("udp")
  /\ Goto("udp", "call")
  /\ UNCHANGED <<main, quit, instance, fd, worker, db>>

(* FsTreeWhiteList::loopScan scans again.                                  *)
Rescan ==
  /\ Ready("wl")
  /\ ~ comp["wl"].stop
  /\ Goto("wl", "call")
  /\ UNCHANGED <<main, quit, instance, fd, worker, db>>

(* UdpServer's handlers, FsTreeWhiteList::scan and check.                  *)
Call(x) ==
  /\ x \in {"udp", "wl"}
  /\ comp[x].thread = "call"
  /\ main[1] # "exit"
  /\ IF HefurIsThere THEN Acquire(x) /\ Goto(x, "use")
                     ELSE Goto(x, "lost") /\ UNCHANGED db
  /\ UNCHANGED <<main, quit, instance, fd, worker>>

(* The scan calls again for each file, and then for the check.             *)
Return(x) ==
  /\ x \in {"udp", "wl"}
  /\ comp[x].thread = "use"
  /\ main[1] # "exit"
  /\ db' = [db EXCEPT !.users = @ \ {x}]
  /\ \/ Goto(x, IF x = "udp" /\ comp[x].stop THEN "end" ELSE "idle")
     \/ x = "wl" /\ Goto(x, "call")
  /\ UNCHANGED <<main, quit, instance, fd, worker>>

(* TorrentDb::cleanupLoop, which has no reference of its own.              *)
Cleanup ==
  /\ Ready("tdb")
  /\ ~ comp["tdb"].stop
  /\ Goto("tdb", "use")
  /\ UNCHANGED <<main, quit, instance, fd, worker, db>>

CleanupEnd ==
  /\ main[1] # "exit"
  /\ comp["tdb"].thread = "use"
  /\ Goto("tdb", "idle")
  /\ UNCHANGED <<main, quit, instance, fd, worker, db>>

(* HttpServer::run: serveOne accepts a connection and leaves it to a       *)
(* worker; the flag is tested before the next one.                         *)
Accept(x, w) ==
  /\ x \in {"http", "https"}
  /\ Ready(x)
  /\ worker[w] = "idle"
  /\ worker' = [worker EXCEPT ![w] = "call"]
  /\ Goto(x, IF comp[x].stop THEN "end" ELSE "idle")
  /\ UNCHANGED <<main, quit, instance, fd, db>>

(* ControlServer::run, ControlService::quit: a signal to this process.     *)
ControlQuit ==
  /\ Ready("control")
  /\ quit.handler["SIGQUIT"] = "none"
  /\ quit' = [quit EXCEPT !.handler["SIGQUIT"] = "raised"]
  /\ Goto("control", IF comp["control"].stop THEN "end" ELSE "idle")
  /\ UNCHANGED <<main, instance, fd, worker, db>>

(* The thread's function returns: it was cancelled in a blocking call, or  *)
(* that call ends by itself (poll has a timeout, a future has been set)    *)
(* and the flag is up.                                                     *)
ThreadEnd(x) ==
  /\ Ready(x)
  /\ comp[x].stop
  /\ comp[x].cancelled \/ x \in {"udp", "wl", "tdb"}
  /\ Goto(x, "end")
  /\ UNCHANGED <<main, quit, instance, fd, worker, db>>

(* A worker: the handlers of module FrontEnd.  It may serve several        *)
(* requests of a connection.                                               *)
WorkerCall(w) ==
  /\ main[1] # "exit"
  /\ worker[w] = "call"
  /\ IF HefurIsThere THEN Acquire(w) /\ worker' = [worker EXCEPT ![w] = "use"]
                     ELSE worker' = [worker EXCEPT ![w] = "lost"] /\ UNCHANGED db
  /\ UNCHANGED <<main, quit, instance, comp, fd>>

WorkerReturn(w) ==
  /\ main[1] # "exit"
  /\ worker[w] = "use"
  /\ Release(w)
  /\ worker' = [worker EXCEPT ![w] = IF db.users = {w} THEN "reap" ELSE "idle"]
  /\ UNCHANGED <<main, quit, instance, fd>>

WorkerReap(w) ==
  /\ main[1] # "exit"
  /\ worker[w] = "reap"
  /\ Reaped
  /\ worker' = [worker EXCEPT ![w] = "idle"]
  /\ UNCHANGED <<main, quit, instance, comp, fd>>

-----------------------------------------------------------------------------
(* Somebody sends a signal, once instance_ is set.  Between the call of    *)
(* signal() in main and that, quit() would make a Hefur of its own.  The   *)
(* handler is a process of its own here, which needs no lock of the log or *)
(* of the future.                                                          *)
Signal(s) ==
  /\ instance # "none"
  /\ main[1] # "exit"
  /\ quit.handler[s] = "none"
  /\ quit' = [quit EXCEPT !.handler[s] = "raised"]
  /\ UNCHANGED <<main, instance, comp, fd, worker, db>>

(* quit() tests once ...                                                   *)
QuitTest(s) ==
  /\ main[1] # "exit"
  /\ quit.handler[s] = "raised"
  /\ quit' = [quit EXCEPT !.handler[s] = IF quit.once THEN "stop" ELSE "done"]
  /\ UNCHANGED <<main, instance, comp, fd, worker, db>>

(* ... calls Hefur::stop ...                                               *)
QuitStop(s) ==
  /\ main[1] # "exit"
  /\ quit.handler[s] = "stop"
  /\ quit' = IF instance = "live" THEN [quit EXCEPT !.handler[s] = "clear", !.stop = TRUE]
                                   ELSE [quit EXCEPT !.handler[s] = "lost"]
  /\ UNCHANGED <<main, instance, comp, fd, worker, db>>

(* ... and only then clears once.                                          *)
QuitClear(s) ==
  /\ main[1] # "exit"
  /\ quit.handler[s] = "clear"
  /\ quit' = [quit EXCEPT !.handler[s] = "done", !.once = FALSE]
  /\ UNCHANGED <<main, instance, comp, fd, worker, db>>

Exited == main[1] = "exit" /\ UNCHANGED vars

Main ==
  \/ StartDb
  \/ \E x \in Components : Start(x) \/ Stop(x) \/ Join(x)
  \/ Run
  \/ ReleaseDb
  \/ ReapDb
  \/ Delete
  \/ Exit

(* What a thread does when it runs and nothing has to arrive.              *)
Progress(x) == Call(x) \/ Return(x) \/ ThreadEnd(x)

Handler(s) == QuitTest(s) \/ QuitStop(s) \/ QuitClear(s)

Next ==
  \/ Main
  \/ \E x \in Components : Progress(x)
  \/ Wake \/ Rescan \/ Cleanup \/ CleanupEnd \/ ControlQuit
  \/ \E w \in Workers : \/ \E x \in Components : Accept(x, w)
                        \/ WorkerCall(w) \/ WorkerReturn(w) \/ WorkerReap(w)
  \/ \E s \in Signals : Signal(s) \/ Handler(s)
  \/ Exited

Spec == Init /\ [][Next]_vars

(* Every thread runs; a scan is over in the end, as MAX_SCAN_INODES bounds *)
(* it.  No client, user or worker has to do anything.                      *)
FairSpec ==
  /\ Spec
  /\ WF_vars(Main)
  /\ \A x \in Components : WF_vars(Progress(x))
  /\ SF_vars(Return("wl") /\ comp'["wl"].thread = "idle")
  /\ WF_vars(CleanupEnd)
  /\ \A s \in Signals : WF_vars(Handler(s))

-----------------------------------------------------------------------------
(* The UDP thread and the scan, which dereferences the database without a  *)
(* test, call Hefur::instance().torrentDb() only while Hefur and its       *)
(* reference are there, from the constructor that starts them to the       *)
(* destruction of the members one by one.                                  *)
JoinedFindHefur == \A x \in Components : comp[x].thread # "lost"

(* The database outlives whoever got a reference, the HTTP workers too,    *)
(* which may hold theirs when Hefur is gone; and its cleanup thread is     *)
(* through before it goes.                                                 *)
DbOutlivesUsers ==
  /\ \A w \in Workers : worker[w] = "use" => db.state = "live"
  /\ \A x \in {"udp", "wl"} : comp[x].thread = "use" => db.state = "live"
  /\ comp["tdb"].thread = "use" => db.state \in {"live", "dying"}

(* When main goes on to destroy the next member, the thread of the one     *)
(* before has ended: none is left to use an object that is not there.      *)
ThreadsEndFirst ==
  main[1] \notin {"start", "run"} =>
    \A i \in DOMAIN Down :
      i < main[2] /\ Down[i] # "tdb" => comp[Down[i]].thread \in {"none", "end"}

(* hefur.hh: "gracefully shut them down on exit".  A signal, or the quit   *)
(* of hefurctl, during the start or later, ends the process.               *)
QuitEnds == \A s \in Signals : quit.handler[s] = "raised" ~> main[1] = "exit"

(* torrent-db.hh: "as we spawn threads, they may use the db event after    *)
(* Hefur::stop()".  A request that is being served when the tracker stops  *)
(* finds the database, or that there is none.                              *)
WorkersFindHefur == \A w \in Workers : worker[w] # "lost"
============================================================================
