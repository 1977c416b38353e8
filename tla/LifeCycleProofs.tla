-------------------------- MODULE LifeCycleProofs --------------------------
(***************************************************************************)
(* The safety of start-up and shutdown, for any number of HTTP workers.    *)
(***************************************************************************)
EXTENDS LifeCycle, TLAPS

Phases  == {"start", "run", "stop", "join", "reap", "deinit", "exit"}
Threads == {"none", "idle", "call", "use", "end", "lost"}
Users   == {"hefur"} \cup Components \cup Workers
Comps   == [Components -> [thread : Threads, stop : BOOLEAN, cancelled : BOOLEAN]]

Types ==
  /\ main \in Phases \X (1..7)
  /\ instance \in {"none", "live", "deleted"}
  /\ comp \in Comps
  /\ fd \in Int
  /\ worker \in [Workers -> {"idle", "call", "use", "lost", "reap"}]
  /\ db \in [state : {"none", "live", "dying", "gone"}, users : SUBSET Users]

(* The places main has in its list.                                        *)
Places ==
  /\ main[1] = "start" => main[2] <= 6
  /\ main[1] = "run" => main[2] = 1
  /\ main[1] = "join" => main[2] <= 5
  /\ main[1] = "reap" => main[2] = 6
  /\ main[1] \in {"deinit", "exit"} => main[2] = 7

(* Before the constructor has begun there is nothing.                      *)
Fresh ==
  main[1] = "start" /\ main[2] = 1 =>
    /\ \A x \in Components : comp[x].thread = "none"
    /\ \A w \in Workers : worker[w] = "idle"
    /\ db.users = {}

(* From then on until the last member goes, Hefur and its reference exist. *)
HefurStays ==
  \/ main[1] = "start" /\ main[2] = 1
  \/ main[1] \in {"start", "run", "stop", "join"} /\ main[2] <= 6 => HefurIsThere

(* A thread that started has a descriptor that stop() knows.               *)
UdpHasFd == comp["udp"].thread # "none" => fd > 0

(* Who uses the database has a reference, which keeps it alive; the last   *)
(* one to let go of it destroys it, when its thread has ended.             *)
Referenced ==
  /\ \A x \in {"udp", "wl"} : comp[x].thread = "use" => x \in db.users
  /\ \A w \in Workers : worker[w] = "use" => w \in db.users
  /\ db.users # {} => db.state = "live"
  /\ main[1] = "reap" \/ (\E w \in Workers : worker[w] = "reap") => db.users = {}
  /\ db.state = "none" => comp["tdb"].thread = "none"
  /\ db.state = "gone" => comp["tdb"].thread = "end"

IndInv ==
  /\ Types
  /\ Places
  /\ Fresh
  /\ HefurStays
  /\ UdpHasFd
  /\ Referenced
  /\ ThreadsEndFirst
  /\ JoinedFindHefur

-----------------------------------------------------------------------------
(* The two lists, entry by entry.                                          *)
LEMMA Lists ==
  /\ Len(Up) = 6
  /\ DOMAIN Up = 1..6
  /\ DOMAIN Down = 1..6
  /\ Len(Down) = 6
  /\ Up[1] = "tdb" /\ Up[2] = "wl" /\ Up[3] = "udp" /\ Up[4] = "http" /\ Up[5] = "https" /\ Up[6] = "control"
  /\ Down[1] = "control" /\ Down[2] = "udp" /\ Down[3] = "https" /\ Down[4] = "http" /\ Down[5] = "wl" /\ Down[6] = "tdb"
BY DEF Up, Down

(* The components are the entries of the lists.                            *)
LEMMA ComponentNames ==
  Components = {"tdb", "wl", "udp", "http", "https", "control"}
BY Lists DEF Components

(* The flag of a component leaves its thread where it is.                  *)
LEMMA StopFlag ==
  ASSUME NEW c \in Comps, NEW x \in Components
  PROVE  /\ [c EXCEPT ![x].stop = TRUE] \in Comps
         /\ \A y \in Components : [c EXCEPT ![x].stop = TRUE][y].thread = c[y].thread
BY DEF Comps

(* The invariant holds when the process starts.                            *)
LEMMA InitInv == Init => IndInv
BY ComponentNames, Lists
   DEF Init, IndInv, Types, Phases, Threads, Users, Comps, Places, Fresh, HefurStays,
       UdpHasFd, Referenced, ThreadsEndFirst, JoinedFindHefur

(* Every step of every thread preserves the invariant.                     *)
LEMMA NextInv == IndInv /\ [Next]_vars => IndInv'
<1> SUFFICES ASSUME IndInv, [Next]_vars PROVE IndInv'
  OBVIOUS
<1> USE Lists, ComponentNames, LifeAssumption
    DEF IndInv, Types, Phases, Users, Places, Fresh, HefurStays, HefurIsThere, UdpHasFd,
        Referenced, ThreadsEndFirst, JoinedFindHefur
<1>1. CASE StartDb
  BY <1>1 DEF StartDb, At, Goto, Comps, Threads
<1>2. ASSUME NEW x \in Components, Start(x) PROVE IndInv'
  BY <1>2 DEF Start, At, Goto, Comps, Threads
<1>3. ASSUME NEW x \in Components, Stop(x) PROVE IndInv'
  <2>1. main[1] = "stop" /\ main[2] \in 1..5 /\ Down[main[2]] = x
    BY <1>3 DEF Stop, At
  <2>2. CASE x = "udp" /\ fd <= 0
    BY <1>3, <2>1, <2>2 DEF Stop
  <2>3. CASE ~ (x = "udp" /\ fd <= 0)
    <3>1. comp' = [comp EXCEPT ![x].stop = TRUE, ![x].cancelled = x # "wl"]
      BY <1>3, <2>3 DEF Stop
    <3>3. comp \in Comps
      OBVIOUS
    <3>4. comp' \in Comps /\ \A y \in Components : comp'[y].thread = comp[y].thread
      <4>1. CASE x = "wl"
        BY ONLY <3>1, <3>3, <4>1, x \in Components DEF Comps
      <4>2. CASE x # "wl"
        BY ONLY <3>1, <3>3, <4>2, x \in Components DEF Comps
      <4> QED
        BY <4>1, <4>2
    <3>5. main' = <<"join", main[2]>> /\ UNCHANGED <<instance, fd, worker, db>>
      BY <1>3, <2>3 DEF Stop
    <3> QED
      BY <2>1, <3>4, <3>5
  <2> QED
    BY <2>2, <2>3
<1>4. ASSUME NEW x \in Components, Join(x) PROVE IndInv'
  BY <1>4 DEF Join, At
<1>5. CASE Run
  BY <1>5 DEF Run
<1>6. CASE ReleaseDb
  <2>1. main[1] = "stop" /\ main[2] = 6
    BY <1>6 DEF ReleaseDb, At
  <2>2. "hefur" \in db.users /\ UNCHANGED <<instance, fd, worker>>
    BY <1>6, <2>1 DEF ReleaseDb
  <2>3. CASE db.users = {"hefur"}
    <3>1. comp' = [comp EXCEPT !["tdb"].stop = TRUE] /\ comp \in Comps /\ "tdb" \in Components
      BY <1>6, <2>3 DEF ReleaseDb, Release
    <3>3. comp' \in Comps /\ \A y \in Components : comp'[y].thread = comp[y].thread
      BY ONLY <3>1, StopFlag, Zenon
    <3>2. db' = [state |-> "dying", users |-> {}] /\ main' = <<"reap", main[2]>>
      BY <1>6, <2>3 DEF ReleaseDb, Release
    <3>4. Types' /\ Places' /\ Fresh' /\ HefurStays' /\ UdpHasFd'
      BY <2>1, <2>2, <3>2, <3>3
    <3>5. Referenced'
      <4>1. comp["udp"].thread \in {"none", "end"} /\ comp["wl"].thread \in {"none", "end"}
        BY <2>1
      <4>2. \A w \in Workers : worker[w] # "use"
        BY <2>3
      <4> QED
        BY <2>2, <3>2, <3>3, <4>1, <4>2
    <3>6. ThreadsEndFirst' /\ JoinedFindHefur'
      BY <2>1, <2>2, <3>2, <3>3
    <3> QED
      BY <3>4, <3>5, <3>6
  <2>4. CASE db.users # {"hefur"}
    BY <1>6, <2>1, <2>2, <2>4 DEF ReleaseDb, Release
  <2> QED
    BY <2>3, <2>4
<1>7. CASE ReapDb
  BY <1>7 DEF ReapDb, Reaped
<1>8. CASE Delete
  BY <1>8 DEF Delete
<1>9. CASE Exit
  BY <1>9 DEF Exit
<1>10. ASSUME NEW x \in Components, Call(x) PROVE IndInv'
  BY <1>10 DEF Call, Acquire, Goto, Comps, Threads
<1>11. ASSUME NEW x \in Components, Return(x) PROVE IndInv'
  BY <1>11 DEF Return, Goto, Comps, Threads
<1>12. ASSUME NEW x \in Components, ThreadEnd(x) PROVE IndInv'
  BY <1>12 DEF ThreadEnd, Ready, Goto, Comps, Threads
<1>13. CASE Wake
  BY <1>13 DEF Wake, Ready, Goto, Comps, Threads
<1>14. CASE Rescan
  BY <1>14 DEF Rescan, Ready, Goto, Comps, Threads
<1>15. CASE Cleanup
  BY <1>15 DEF Cleanup, Ready, Goto, Comps, Threads
<1>16. CASE CleanupEnd
  BY <1>16 DEF CleanupEnd, Goto, Comps, Threads
<1>17. CASE ControlQuit
  BY <1>17 DEF ControlQuit, Ready, Goto, Comps, Threads
<1>18. ASSUME NEW x \in Components, NEW w \in Workers, Accept(x, w) PROVE IndInv'
  BY <1>18 DEF Accept, Ready, Goto, Comps, Threads
<1>19. ASSUME NEW w \in Workers, WorkerCall(w) PROVE IndInv'
  BY <1>19 DEF WorkerCall, Acquire
<1>20. ASSUME NEW w \in Workers, WorkerReturn(w) PROVE IndInv'
  <2>1. w \in db.users /\ w # "hefur" /\ UNCHANGED <<main, instance, fd>>
    BY <1>20 DEF WorkerReturn
  <2>2. CASE db.users = {w}
    <3>1. comp' = [comp EXCEPT !["tdb"].stop = TRUE] /\ comp \in Comps /\ "tdb" \in Components
      BY <1>20, <2>2 DEF WorkerReturn, Release
    <3>3. comp' \in Comps /\ \A y \in Components : comp'[y].thread = comp[y].thread
      BY ONLY <3>1, StopFlag, Zenon
    <3>2. db' = [state |-> "dying", users |-> {}] /\ worker' = [worker EXCEPT ![w] = "reap"]
      BY <1>20, <2>2 DEF WorkerReturn, Release
    <3> QED
      BY <2>1, <2>2, <3>2, <3>3
  <2>3. CASE db.users # {w}
    BY <1>20, <2>1, <2>3 DEF WorkerReturn, Release
  <2> QED
    BY <2>2, <2>3
<1>21. ASSUME NEW w \in Workers, WorkerReap(w) PROVE IndInv'
  BY <1>21 DEF WorkerReap, Reaped
<1>22. ASSUME UNCHANGED <<main, instance, comp, fd, worker, db>> PROVE IndInv'
  BY <1>22
<1>23. QED
  BY <1>1, <1>2, <1>3, <1>4, <1>5, <1>6, <1>7, <1>8, <1>9, <1>10, <1>11, <1>12, <1>13, <1>14, <1>15, <1>16, <1>17, <1>18, <1>19, <1>20, <1>21, <1>22
     DEF Next, Main, Progress, Handler, Signal, QuitTest, QuitStop, QuitClear, Exited, vars

-----------------------------------------------------------------------------
(* The invariant holds in every state.                                     *)
LEMMA Invariance == Spec => []IndInv
BY InitInv, NextInv, PTL DEF Spec

(* Main goes on to destroy a member only when the thread of the member     *)
(* before it has ended, whichever components there are.                    *)
THEOREM ThreadsEndFirstCorrect == Spec => []ThreadsEndFirst
<1>1. IndInv => ThreadsEndFirst
  BY DEF IndInv
<1> QED
  BY <1>1, Invariance, PTL

(* The UDP thread and the scan always find Hefur and its database, from    *)
(* the middle of the constructor to the destruction of the members.        *)
THEOREM JoinedFindHefurCorrect == Spec => []JoinedFindHefur
<1>1. IndInv => JoinedFindHefur
  BY DEF IndInv
<1> QED
  BY <1>1, Invariance, PTL

(* The database outlives its users, any number of HTTP workers included,   *)
(* and its own thread.                                                     *)
THEOREM DbOutlivesUsersCorrect == Spec => []DbOutlivesUsers
<1>1. IndInv => DbOutlivesUsers
  BY DEF IndInv, Types, Referenced, DbOutlivesUsers
<1> QED
  BY <1>1, Invariance, PTL
============================================================================
