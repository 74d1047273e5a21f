--------------------------- MODULE StartupProofs ---------------------------
(***************************************************************************)
(* Theorems about starting the server, for any number of processes and of  *)
(* listeners, any leftovers in memory and any number of failures: a        *)
(* process that serves listens on all its ports, and no two processes      *)
(* serve at once.                                                          *)
(*                                                                         *)
(* ServingListens speaks of processes that serve, but a listener gets its  *)
(* port long before that.  StartupInv says what each process has got at    *)
(* each stage of its way through main: the listeners before cur are ready, *)
(* and the socket of cur is as far as pc says.                             *)
(***************************************************************************)
EXTENDS Startup, TLAPS

Before == {"off", "unique", "create", "winsock", "port"}
SettingUp == {"open", "select", "bind", "listen", "posts"}
States == Before \cup SettingUp \cup {"serve", "dead"}
SockStates == {"none", "open", "bound", "listening", "taken"}

(* The state of every process is one main can be in. *)
StartupTypes ==
  /\ pc \in [Procs -> States]
  /\ cur \in [Procs -> Ports]
  /\ lsock \in [Procs -> [Ports -> SockStates]]
  /\ registered \in [Procs -> SUBSET Ports]
  /\ bound \in [Ports -> Procs \cup {Nobody}]

(* Listener i of p is ready, or its socket was closed by a later Init. *)
Ready(p, i) ==
  lsock[p][i] = "taken" \/ (lsock[p][i] = "listening" /\ bound[i] = p)

(* What main has done when p is where it is. *)
RegisteredOK(p) ==
  /\ pc[p] \in Before => cur[p] = 1 /\ registered[p] = {}
  /\ pc[p] = "open" => registered[p] = 1..(cur[p] - 1)
  /\ pc[p] \in SettingUp \ {"open"} => registered[p] = 1..cur[p]
  /\ pc[p] = "serve" => registered[p] = Ports /\ cur[p] = Listeners

SocketsOK(p) ==
  /\ pc[p] \in SettingUp \cup {"serve"} => \A i \in Ports : i < cur[p] => Ready(p, i)
  /\ pc[p] \in {"posts", "serve"} => Ready(p, cur[p])
  /\ pc[p] = "listen" => lsock[p][cur[p]] = "bound" /\ bound[cur[p]] = p

StartupInv ==
  /\ StartupTypes
  /\ \A p \in Procs : RegisteredOK(p) /\ SocketsOK(p)

-----------------------------------------------------------------------------
(* The initial states: no process has been started. *)
LEMMA StartupInitInv == StartupInit => StartupInv
  BY StartupAssumption
  DEF StartupInit, StartupInv, StartupTypes, RegisteredOK, SocketsOK, States, SockStates,
      Before, SettingUp, Ports

(* What a process has is only changed by its own steps: what is said of p
   stays true when its own state stays and its ports stay bound to it. *)
LEMMA OthersStay ==
  ASSUME NEW p \in Procs, RegisteredOK(p), SocketsOK(p),
         pc'[p] = pc[p], cur'[p] = cur[p], lsock'[p] = lsock[p],
         registered'[p] = registered[p],
         \A i \in Ports : bound[i] = p => bound'[i] = p,
         cur[p] \in Ports
  PROVE  RegisteredOK(p)' /\ SocketsOK(p)'
  BY DEF RegisteredOK, SocketsOK, Ready

(* A step of process p only: its state changes, and ports change hands only
   between p and nobody. *)
OnlyBy(p) ==
  \A q \in Procs \ {p} :
    /\ pc'[q] = pc[q] /\ cur'[q] = cur[q] /\ lsock'[q] = lsock[q]
    /\ registered'[q] = registered[q]
    /\ \A i \in Ports : bound[i] = q => bound'[i] = q

(* The invariant survives a step of p that is right for p. *)
LEMMA StepOf ==
  ASSUME StartupInv, NEW p \in Procs, StartupTypes', OnlyBy(p),
         RegisteredOK(p)', SocketsOK(p)'
  PROVE  StartupInv'
<1>1. ASSUME NEW q \in Procs, q # p
      PROVE  RegisteredOK(q)' /\ SocketsOK(q)'
  <2>1. cur[q] \in Ports  BY DEF StartupInv, StartupTypes
  <2>2. RegisteredOK(q) /\ SocketsOK(q)  BY DEF StartupInv
  <2> QED BY <1>1, <2>1, <2>2, OthersStay DEF OnlyBy
<1> QED BY <1>1 DEF StartupInv

-----------------------------------------------------------------------------
(* The steps that only move a process on its way. *)
LEMMA MovesInv ==
  ASSUME StartupInv, NEW p \in Procs,
         Start(p) \/ OpenEvent(p) \/ CreateEvent(p) \/ InitWinsock2(p)
           \/ CreatePortAndWorkers(p) \/ EventSelect(p) \/ (pc[p] \in Running /\ Fails(p))
  PROVE  StartupInv'
<1> USE DEF Goes
<1>1. StartupTypes /\ RegisteredOK(p) /\ SocketsOK(p)  BY DEF StartupInv
<1>2. UNCHANGED <<cur, lsock, registered, bound>>
  BY DEF Start, OpenEvent, CreateEvent, InitWinsock2, CreatePortAndWorkers, EventSelect, Fails
<1>3. PICK to \in States : /\ pc' = [pc EXCEPT ![p] = to]
                           /\ \/ pc[p] \in Before /\ to \in (Before \ {"off"}) \cup {"open", "dead"}
                              \/ to = "dead"
                              \/ pc[p] = "select" /\ to = "bind"
  BY DEF Start, OpenEvent, CreateEvent, InitWinsock2, CreatePortAndWorkers, EventSelect, Fails,
         States, Before, SettingUp
<1>4. StartupTypes' /\ OnlyBy(p)
  BY <1>1, <1>2, <1>3 DEF StartupTypes, OnlyBy
<1>5. pc'[p] = to  BY <1>1, <1>3 DEF StartupTypes
<1>6. RegisteredOK(p)'
  <2>1. 1..(1 - 1) = {}  OBVIOUS
  <2>2. pc[p] \in Before => registered[p] = 1..(cur[p] - 1)  BY <1>1, <2>1 DEF RegisteredOK
  <2> QED BY <1>1, <1>2, <1>3, <1>5, <2>2 DEF RegisteredOK, Before, SettingUp
<1>7. SocketsOK(p)'
  <2>1. cur[p] \in Ports  BY <1>1 DEF StartupTypes
  <2>2. pc[p] \in Before => \A i \in Ports : ~(i < cur[p])
    BY <1>1 DEF RegisteredOK, Ports
  <2> QED BY <1>1, <1>2, <1>3, <1>5, <2>1, <2>2 DEF SocketsOK, Ready, Before, SettingUp
<1> QED BY <1>4, <1>6, <1>7, StepOf

(* The system takes back what a process had. *)
LEMMA SystemCleansUpInv ==
  ASSUME StartupInv, NEW p \in Procs, SystemCleansUp(p)
  PROVE  StartupInv'
<1> USE DEF SystemCleansUp, Goes
<1>1. StartupTypes  BY DEF StartupInv
<1>2. 1 \in Ports  BY StartupAssumption DEF Ports
<1>3. StartupTypes'
  BY <1>1, <1>2 DEF StartupTypes, States, Before, SockStates
<1>4. OnlyBy(p)  BY <1>1 DEF OnlyBy, StartupTypes
<1>5. pc'[p] = "off" /\ cur'[p] = 1 /\ registered'[p] = {}  BY <1>1 DEF StartupTypes
<1>6. RegisteredOK(p)' /\ SocketsOK(p)'
  BY <1>5 DEF RegisteredOK, SocketsOK, Before, SettingUp
<1> QED BY <1>3, <1>4, <1>6, StepOf

-----------------------------------------------------------------------------
(* The socket that Init closes was a ready one of p: no other process loses
   a port. *)
LEMMA RegisterListenerInv ==
  ASSUME StartupInv, NEW p \in Procs, RegisterListener(p)
  PROVE  StartupInv'
<1>1. StartupTypes /\ RegisteredOK(p) /\ SocketsOK(p)  BY DEF StartupInv
<1>2. pc[p] = "open" /\ pc' = [pc EXCEPT ![p] = "select"] /\ cur' = cur
  BY DEF RegisterListener, Goes
<1>3. cur[p] \in 1..Listeners /\ Listeners \in Nat
  BY <1>1, StartupAssumption DEF StartupTypes, Ports
<1>4. registered' = [registered EXCEPT ![p] = @ \cup {cur[p]}]
      /\ registered[p] = 1..(cur[p] - 1)
  BY <1>1, <1>2 DEF RegisterListener, RegisteredOK
<1>5. PICK old \in {0} \cup { i \in Leftovers \cap registered[p] : lsock[p][i] = "listening" } :
        /\ lsock' = [lsock EXCEPT ![p] =
             [i \in Ports |-> IF i = cur[p] THEN "open"
                              ELSE IF i = old THEN "taken" ELSE @[i]]]
        /\ bound' = [i \in Ports |-> IF i = old THEN Nobody ELSE bound[i]]
  BY DEF RegisterListener
<1>6. ASSUME old # 0
      PROVE  old \in Ports /\ old < cur[p] /\ bound[old] = p
  <2>1. old \in 1..(cur[p] - 1) /\ lsock[p][old] = "listening"  BY <1>4, <1>5, <1>6
  <2>2. old \in Ports /\ old < cur[p]  BY <1>3, <2>1 DEF Ports
  <2>3. Ready(p, old)  BY <1>1, <1>2, <2>2 DEF SocketsOK, SettingUp
  <2> QED BY <2>1, <2>2, <2>3 DEF Ready
<1>7. StartupTypes'
  <2>1. pc' \in [Procs -> States]  BY <1>1, <1>2 DEF StartupTypes, States, SettingUp
  <2>2. lsock'[p] \in [Ports -> SockStates]
    BY <1>1, <1>5 DEF StartupTypes, SockStates
  <2>3. lsock' \in [Procs -> [Ports -> SockStates]]
    BY <1>1, <1>5, <2>2 DEF StartupTypes
  <2>4. registered' \in [Procs -> SUBSET Ports]  BY <1>1, <1>4 DEF StartupTypes
  <2>5. bound' \in [Ports -> Procs \cup {Nobody}]  BY <1>1, <1>5 DEF StartupTypes
  <2> QED BY <1>1, <1>2, <2>1, <2>3, <2>4, <2>5 DEF StartupTypes
<1>8. OnlyBy(p)
  <2>1. \A q \in Procs \ {p}, i \in Ports : bound[i] = q => bound'[i] = q
    <3> SUFFICES ASSUME NEW q \in Procs \ {p}, NEW i \in Ports, bound[i] = q PROVE bound'[i] = q
      OBVIOUS
    <3>1. i # old
      <4>1. 0 \notin Ports  BY DEF Ports
      <4> QED BY <1>6, <4>1
    <3> QED BY <1>5, <3>1
  <2>2. \A q \in Procs \ {p} : pc'[q] = pc[q] /\ cur'[q] = cur[q] /\ lsock'[q] = lsock[q]
                               /\ registered'[q] = registered[q]
    BY <1>1, <1>2, <1>4, <1>5 DEF StartupTypes
  <2> QED BY <2>1, <2>2 DEF OnlyBy
<1>9. pc'[p] = "select" /\ cur'[p] = cur[p]  BY <1>1, <1>2 DEF StartupTypes
<1>10. RegisteredOK(p)'
  <2>1. registered'[p] = 1..(cur[p] - 1) \cup {cur[p]}  BY <1>1, <1>4 DEF StartupTypes
  <2>2. registered'[p] = 1..cur[p]
    <3>1. \A i : i \in registered'[p] <=> i \in 1..cur[p]  BY <1>3, <2>1
    <3> QED BY <3>1
  <2> QED BY <1>9, <2>2 DEF RegisteredOK, Before, SettingUp
<1>11. SocketsOK(p)'
  <2>1. ASSUME NEW i \in Ports, i < cur[p]
        PROVE  Ready(p, i)'
    <3>1. Ready(p, i)  BY <1>1, <1>2, <2>1 DEF SocketsOK, SettingUp
    <3>2. lsock'[p][i] = IF i = old THEN "taken" ELSE lsock[p][i]
      <4>1. i # cur[p]  BY <1>3, <2>1
      <4> QED BY <1>1, <1>5, <4>1 DEF StartupTypes
    <3>3. i # old => bound'[i] = bound[i]  BY <1>5
    <3> QED BY <3>1, <3>2, <3>3 DEF Ready
  <2> QED BY <1>9, <2>1 DEF SocketsOK
<1> QED BY <1>7, <1>8, <1>10, <1>11, StepOf

-----------------------------------------------------------------------------
(* A socket of p changes its state, and nothing else of its sockets. *)
LEMMA SocketBecomesIs ==
  ASSUME StartupTypes, NEW p \in Procs, NEW state \in SockStates, SocketBecomes(p, state)
  PROVE  /\ lsock' \in [Procs -> [Ports -> SockStates]]
         /\ lsock'[p][cur[p]] = state
         /\ \A i \in Ports : i # cur[p] => lsock'[p][i] = lsock[p][i]
         /\ \A q \in Procs \ {p} : lsock'[q] = lsock[q]
<1>1. cur[p] \in Ports /\ lsock[p] \in [Ports -> SockStates]  BY DEF StartupTypes
<1>2. lsock' = [lsock EXCEPT ![p] = [lsock[p] EXCEPT ![cur[p]] = state]]
  BY DEF SocketBecomes, StartupTypes
<1>3. lsock'[p] = [lsock[p] EXCEPT ![cur[p]] = state]  BY <1>2 DEF StartupTypes
<1>4. lsock'[p] \in [Ports -> SockStates]  BY <1>1, <1>3
<1>5. lsock' \in [Procs -> [Ports -> SockStates]]  BY <1>2, <1>3, <1>4 DEF StartupTypes
<1> QED BY <1>1, <1>2, <1>3, <1>5 DEF StartupTypes

(* A socket is bound only to a port that is nobody's: the ports of the other
   processes stay theirs. *)
LEMMA BindInv ==
  ASSUME StartupInv, NEW p \in Procs, Bind(p)
  PROVE  StartupInv'
<1>1. StartupTypes /\ RegisteredOK(p) /\ SocketsOK(p)  BY DEF StartupInv
<1>2. pc[p] = "bind" /\ cur' = cur /\ registered' = registered  BY DEF Bind
<1>3. cur[p] \in Ports /\ (\A i \in Ports : i < cur[p] => i # cur[p])
  BY <1>1 DEF StartupTypes, Ports
<1>4. CASE bound[cur[p]] = Nobody
  <2>1. /\ bound' = [bound EXCEPT ![cur[p]] = p]
        /\ SocketBecomes(p, "bound")
        /\ pc' = [pc EXCEPT ![p] = "listen"]
    BY <1>4 DEF Bind, Goes
  <2>2. /\ lsock' \in [Procs -> [Ports -> SockStates]]
        /\ lsock'[p][cur[p]] = "bound"
        /\ \A i \in Ports : i # cur[p] => lsock'[p][i] = lsock[p][i]
        /\ \A q \in Procs \ {p} : lsock'[q] = lsock[q]
    BY <1>1, <2>1, SocketBecomesIs DEF SockStates
  <2>3. pc' \in [Procs -> States] /\ pc'[p] = "listen"
    BY <1>1, <2>1 DEF StartupTypes, States, SettingUp
  <2>4. bound' \in [Ports -> Procs \cup {Nobody}] /\ bound'[cur[p]] = p
        /\ \A i \in Ports : i # cur[p] => bound'[i] = bound[i]
    BY <1>1, <1>3, <2>1 DEF StartupTypes
  <2>5. StartupTypes'  BY <1>1, <1>2, <2>2, <2>3, <2>4 DEF StartupTypes
  <2>6. OnlyBy(p)
    BY <1>1, <1>2, <1>3, <1>4, <2>1, <2>2, <2>4, StartupAssumption DEF OnlyBy, StartupTypes
  <2>7. RegisteredOK(p)'
    BY <1>1, <1>2, <2>3 DEF RegisteredOK, Before, SettingUp
  <2>8. SocketsOK(p)'
    BY <1>1, <1>2, <1>3, <2>2, <2>3, <2>4 DEF SocketsOK, Ready, SettingUp
  <2> QED BY <2>5, <2>6, <2>7, <2>8, StepOf
<1>5. CASE bound[cur[p]] # Nobody
  <2>1. bound' = bound /\ SocketBecomes(p, "none") /\ pc' = [pc EXCEPT ![p] = "dead"]
    BY <1>5 DEF Bind, Goes
  <2>2. lsock' \in [Procs -> [Ports -> SockStates]] /\ \A q \in Procs \ {p} : lsock'[q] = lsock[q]
    BY <1>1, <2>1, SocketBecomesIs DEF SockStates
  <2>3. pc' \in [Procs -> States] /\ pc'[p] = "dead"
    BY <1>1, <2>1 DEF StartupTypes, States
  <2>4. StartupTypes'  BY <1>1, <1>2, <2>1, <2>2, <2>3 DEF StartupTypes
  <2>5. OnlyBy(p)  BY <1>1, <1>2, <2>1, <2>2 DEF OnlyBy, StartupTypes
  <2>6. RegisteredOK(p)' /\ SocketsOK(p)'
    BY <2>3 DEF RegisteredOK, SocketsOK, Before, SettingUp
  <2> QED BY <2>4, <2>5, <2>6, StepOf
<1> QED BY <1>4, <1>5

(* The listener that is set up is ready once its bound socket listens. *)
LEMMA ListenInv ==
  ASSUME StartupInv, NEW p \in Procs, Listen(p)
  PROVE  StartupInv'
<1>1. StartupTypes /\ RegisteredOK(p) /\ SocketsOK(p)  BY DEF StartupInv
<1>2. /\ pc[p] = "listen" /\ pc' = [pc EXCEPT ![p] = "posts"]
      /\ cur' = cur /\ registered' = registered /\ bound' = bound
      /\ SocketBecomes(p, "listening")
  BY DEF Listen, Goes
<1>3. cur[p] \in Ports /\ (\A i \in Ports : i < cur[p] => i # cur[p])
  BY <1>1 DEF StartupTypes, Ports
<1>4. /\ lsock' \in [Procs -> [Ports -> SockStates]]
      /\ lsock'[p][cur[p]] = "listening"
      /\ \A i \in Ports : i # cur[p] => lsock'[p][i] = lsock[p][i]
      /\ \A q \in Procs \ {p} : lsock'[q] = lsock[q]
  BY <1>1, <1>2, SocketBecomesIs DEF SockStates
<1>5. pc' \in [Procs -> States] /\ pc'[p] = "posts"
  BY <1>1, <1>2 DEF StartupTypes, States, SettingUp
<1>6. StartupTypes'  BY <1>1, <1>2, <1>4, <1>5 DEF StartupTypes
<1>7. OnlyBy(p)  BY <1>1, <1>2, <1>4 DEF OnlyBy, StartupTypes
<1>8. RegisteredOK(p)'  BY <1>1, <1>2, <1>5 DEF RegisteredOK, Before, SettingUp
<1>9. SocketsOK(p)'  BY <1>1, <1>2, <1>3, <1>4, <1>5 DEF SocketsOK, Ready, SettingUp
<1> QED BY <1>6, <1>7, <1>8, <1>9, StepOf

(* A failed call leaves a process that will be cleaned up. *)
LEMMA InitListenSockFailsInv ==
  ASSUME StartupInv, NEW p \in Procs, InitListenSockFails(p)
  PROVE  StartupInv'
<1>1. StartupTypes  BY DEF StartupInv
<1>2. /\ pc' = [pc EXCEPT ![p] = "dead"] /\ SocketBecomes(p, "none")
      /\ cur' = cur /\ registered' = registered /\ bound' = bound
  BY DEF InitListenSockFails, Goes
<1>3. lsock' \in [Procs -> [Ports -> SockStates]] /\ \A q \in Procs \ {p} : lsock'[q] = lsock[q]
  BY <1>1, <1>2, SocketBecomesIs DEF SockStates
<1>4. pc' \in [Procs -> States] /\ pc'[p] = "dead"  BY <1>1, <1>2 DEF StartupTypes, States
<1>5. StartupTypes'  BY <1>1, <1>2, <1>3, <1>4 DEF StartupTypes
<1>6. OnlyBy(p)  BY <1>1, <1>2, <1>3 DEF OnlyBy, StartupTypes
<1>7. RegisteredOK(p)' /\ SocketsOK(p)'
  BY <1>4 DEF RegisteredOK, SocketsOK, Before, SettingUp
<1> QED BY <1>5, <1>6, <1>7, StepOf

(* The listener is ready, and main turns to the next one or to its loop. *)
LEMMA FirstPostsInv ==
  ASSUME StartupInv, NEW p \in Procs, FirstPosts(p)
  PROVE  StartupInv'
<1>1. StartupTypes /\ RegisteredOK(p) /\ SocketsOK(p)  BY DEF StartupInv
<1>2. pc[p] = "posts" /\ lsock' = lsock /\ registered' = registered /\ bound' = bound
  BY DEF FirstPosts
<1>3. cur[p] \in Ports /\ cur[p] \in 1..Listeners /\ Listeners \in Nat /\ registered[p] = 1..cur[p]
  BY <1>1, <1>2, StartupAssumption DEF StartupTypes, Ports, RegisteredOK, SettingUp
<1>4. \A i \in Ports : i <= cur[p] => Ready(p, i)
  <2>1. \A i \in Ports : i <= cur[p] => i = cur[p] \/ i < cur[p]  BY <1>3 DEF Ports
  <2> QED BY <1>1, <1>2, <2>1 DEF SocketsOK, SettingUp
<1>5. CASE cur[p] < Listeners
  <2>1. pc' = [pc EXCEPT ![p] = "open"] /\ cur' = [cur EXCEPT ![p] = @ + 1]
    BY <1>5 DEF FirstPosts, Goes
  <2>2. cur[p] + 1 \in Ports /\ (cur[p] + 1) - 1 = cur[p]
        /\ \A i \in Ports : i < cur[p] + 1 => i <= cur[p]
    BY <1>3, <1>5 DEF Ports
  <2>3. pc'[p] = "open" /\ cur'[p] = cur[p] + 1  BY <1>1, <2>1 DEF StartupTypes
  <2>4. StartupTypes'
    BY <1>1, <1>2, <2>1, <2>2 DEF StartupTypes, States, SettingUp
  <2>5. OnlyBy(p)  BY <1>1, <1>2, <2>1 DEF OnlyBy, StartupTypes
  <2>6. RegisteredOK(p)'
    BY <1>2, <1>3, <2>2, <2>3 DEF RegisteredOK, Before, SettingUp
  <2>7. SocketsOK(p)'
    BY <1>2, <1>4, <2>2, <2>3 DEF SocketsOK, Ready
  <2> QED BY <2>4, <2>5, <2>6, <2>7, StepOf
<1>6. CASE ~(cur[p] < Listeners)
  <2>1. pc' = [pc EXCEPT ![p] = "serve"] /\ cur' = cur  BY <1>6 DEF FirstPosts, Goes
  <2>2. cur[p] = Listeners /\ \A i \in Ports : i < cur[p] => i <= cur[p]
    BY <1>3, <1>6 DEF Ports
  <2>3. pc'[p] = "serve"  BY <1>1, <2>1 DEF StartupTypes
  <2>4. StartupTypes'  BY <1>1, <1>2, <2>1 DEF StartupTypes, States
  <2>5. OnlyBy(p)  BY <1>1, <1>2, <2>1 DEF OnlyBy, StartupTypes
  <2>6. RegisteredOK(p)'
    BY <1>2, <1>3, <2>1, <2>2, <2>3 DEF RegisteredOK, Before, SettingUp, Ports
  <2>7. cur[p] <= cur[p]  BY <1>3
  <2>8. SocketsOK(p)'
    BY <1>2, <1>3, <1>4, <2>1, <2>2, <2>3, <2>7 DEF SocketsOK, Ready
  <2> QED BY <2>4, <2>5, <2>6, <2>8, StepOf
<1> QED BY <1>5, <1>6

-----------------------------------------------------------------------------
(* Every step of every process preserves the invariant. *)
LEMMA StartupNextInv == StartupInv /\ [StartupNext]_uVars => StartupInv'
<1> SUFFICES ASSUME StartupInv, [StartupNext]_uVars PROVE StartupInv'
  OBVIOUS
<1>1. CASE UNCHANGED uVars
  BY <1>1 DEF uVars, StartupInv, StartupTypes, RegisteredOK, SocketsOK, Ready
<1>2. CASE StartupNext
  <2>1. PICK p \in Procs : \/ Start(p) \/ StartupStep(p) \/ InitListenSockFails(p)
                           \/ pc[p] \in Running /\ Fails(p)
    BY <1>2 DEF StartupNext
  <2> QED BY <2>1, MovesInv, SystemCleansUpInv, RegisterListenerInv, BindInv, ListenInv,
             InitListenSockFailsInv, FirstPostsInv DEF StartupStep
<1> QED BY <1>1, <1>2

(* StartupInv holds always, for every interleaving of the processes. *)
THEOREM StartupInvariant == StartupSpec => []StartupInv
<1> QED BY StartupInitInv, StartupNextInv, PTL DEF StartupSpec

(* In main's loop all listeners are registered, and each is listening on its
   own port or lost its socket to a later LISTEN_SOCK::Init. *)
THEOREM StartupServingListens == StartupSpec => []ServingListens
<1>1. StartupInv => ServingListens
  <2> SUFFICES ASSUME StartupInv, NEW p \in Procs, pc[p] = "serve"
               PROVE  registered[p] = Ports /\ \A i \in Ports : Ready(p, i)
    BY DEF ServingListens, Ready
  <2>1. RegisteredOK(p) /\ SocketsOK(p)  BY DEF StartupInv
  <2>2. registered[p] = Ports /\ cur[p] = Listeners  BY <2>1 DEF RegisteredOK
  <2>3. \A i \in Ports : i < cur[p] \/ i = cur[p]  BY <2>2, StartupAssumption DEF Ports
  <2> QED BY <2>1, <2>2, <2>3 DEF SocketsOK
<1> QED BY <1>1, StartupInvariant, PTL

(* Two processes never serve at once, unless Init closed a socket of one of
   them: the first port has one owner. *)
THEOREM StartupOneServer == StartupSpec => []OneServer
<1>1. ServingListens => OneServer
  <2> SUFFICES ASSUME ServingListens, NEW p \in Procs, NEW q \in Procs,
                      pc[p] = "serve", pc[q] = "serve", ~Robbed(p), ~Robbed(q)
               PROVE  p = q
    BY DEF OneServer
  <2>1. 1 \in Ports  BY StartupAssumption DEF Ports
  <2>2. bound[1] = p /\ bound[1] = q  BY <2>1 DEF ServingListens, Robbed
  <2> QED BY <2>2
<1> QED BY <1>1, StartupServingListens, PTL
=============================================================================
