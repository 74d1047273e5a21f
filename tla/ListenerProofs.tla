--------------------------- MODULE ListenerProofs ---------------------------
(***************************************************************************)
(* What the sweep may rely on, and how many calls wait for a client, for   *)
(* any number of listeners, connections and keys, any size of batch and    *)
(* any interleaving of main and workers.                                   *)
(*                                                                         *)
(* A connection has entries under its own listener and key only, so that   *)
(* DeleteFromPendingMap never misses one: no entry outlives its            *)
(* connection.  It may take the entry of another connection, but then the  *)
(* two share their key, and both are in clashed.                           *)
(***************************************************************************)
EXTENDS Listener, FiniteSetTheorems, TLAPS

(* The types that the argument needs, of connections and map ... *)
MapTypeOK ==
  /\ at \in [Conns -> Posted \cup {"free", "session"}]
  /\ of \in [Conns -> L] /\ nKey \in [Conns -> Keys]
  /\ acceptPendingMap \in [L -> [Keys -> Conns \cup {None}]]
  /\ clashed \subseteq Conns

Flags == BOOLEAN

MainStates == [pc : PCs, boot : Flags, nIndex : L, i : Int, c : Conns \cup {None}]

(* ... and of main, which has a connection in hand where it asks or changes one. *)
MainOK ==
  /\ main \in MainStates
  /\ main.pc \in {"accept", "ask", "close"} => main.c \in Conns

(* Posted connections with the same listener and key are known to clash. *)
SharersClashed ==
  \A c, d \in Conns :
    /\ c # d /\ at[c] \in Posted /\ at[d] \in Posted
    /\ of[c] = of[d] /\ nKey[c] = nKey[d]
    => c \in clashed

(* SweepFindsAll, from the moment the entry is made. *)
FoundUnlessClashed ==
  \A c \in Conns : at[c] \in Posted /\ c \notin clashed =>
    acceptPendingMap[of[c]][nKey[c]] = c

(* What main has in hand is as main left it: its new call has not been made
   yet, and what the sweep closes is not waiting for a client. *)
InHand ==
  /\ main.pc = "accept" => at[main.c] = "posting"
  /\ SweepSparesUnconnected

(* About the map; the rest is about main. *)
MapInv == MapTypeOK /\ EntriesAreLive /\ SharersClashed /\ FoundUnlessClashed
ListenerInv == MapInv /\ MainOK /\ InHand

-----------------------------------------------------------------------------
(* The three ways in which a step treats the map. *)

(* No entry changes, and no connection enters or leaves the map's charge. *)
LEMMA MapKept ==
  ASSUME MapInv, UNCHANGED mapVars,
         at' \in [Conns -> Posted \cup {"free", "session"}],
         \A c \in Conns : at'[c] \in Posted <=> at[c] \in Posted
  PROVE  MapInv'
<1>1. MapTypeOK'
  BY DEF MapInv, MapTypeOK, mapVars
<1>2. EntriesAreLive'
  BY DEF MapInv, MapTypeOK, EntriesAreLive, mapVars
<1>3. SharersClashed'
  BY DEF MapInv, SharersClashed, mapVars
<1>4. FoundUnlessClashed'
  BY DEF MapInv, FoundUnlessClashed, mapVars
<1>5. QED
  BY <1>1, <1>2, <1>3, <1>4 DEF MapInv

(* A connection that is posted is finished with: DeleteFromPendingMap removes
   every entry that points to it, and takes nobody else's except one that
   shares the key. *)
LEMMA MapDeletes ==
  ASSUME MapInv, NEW c \in Conns, at[c] \in Posted,
         NEW s \in {"free", "session"}, at' = [at EXCEPT ![c] = s],
         DeleteFromPendingMap(c), UNCHANGED <<of, nKey, clashed>>
  PROVE  MapInv'
<1>1. /\ at \in [Conns -> Posted \cup {"free", "session"}]
      /\ of \in [Conns -> L] /\ nKey \in [Conns -> Keys]
      /\ acceptPendingMap \in [L -> [Keys -> Conns \cup {None}]]
  BY DEF MapInv, MapTypeOK
<1>2. of[c] \in L /\ nKey[c] \in Keys
  BY <1>1
<1>3. MapTypeOK'
  BY <1>1, <1>2 DEF MapInv, MapTypeOK, DeleteFromPendingMap
<1>4. ASSUME NEW l \in L, NEW k \in Keys
      PROVE  acceptPendingMap'[l][k] =
               IF l = of[c] /\ k = nKey[c] THEN None ELSE acceptPendingMap[l][k]
  BY <1>1, <1>2 DEF DeleteFromPendingMap
<1>5. \A d \in Conns : at'[d] \in Posted <=> at[d] \in Posted /\ d # c
  BY <1>1 DEF Posted
<1>6. EntriesAreLive'
  <2> SUFFICES ASSUME NEW l \in L, NEW k \in Keys, acceptPendingMap'[l][k] # None
               PROVE  LET d == acceptPendingMap'[l][k] IN
                      at'[d] \in Posted /\ of'[d] = l /\ nKey'[d] = k
    BY DEF EntriesAreLive
  <2>1. ~(l = of[c] /\ k = nKey[c]) /\ acceptPendingMap'[l][k] = acceptPendingMap[l][k]
    BY <1>4
  <2> DEFINE d == acceptPendingMap[l][k]
  <2>2. d \in Conns
    BY <1>1, <2>1
  <2>3. at[d] \in Posted /\ of[d] = l /\ nKey[d] = k
    BY <2>1 DEF MapInv, EntriesAreLive
  <2>4. d # c
    BY <2>1, <2>3
  <2>5. QED
    BY <1>5, <2>1, <2>2, <2>3, <2>4
<1>7. SharersClashed'
  BY <1>5 DEF MapInv, SharersClashed
<1>8. FoundUnlessClashed'
  <2> SUFFICES ASSUME NEW d \in Conns, at'[d] \in Posted, d \notin clashed
               PROVE  acceptPendingMap'[of[d]][nKey[d]] = d
    BY DEF FoundUnlessClashed
  <2>1. at[d] \in Posted /\ d # c
    BY <1>5
  <2>2. acceptPendingMap[of[d]][nKey[d]] = d
    BY <2>1 DEF MapInv, FoundUnlessClashed
  <2>3. ~(of[d] = of[c] /\ nKey[d] = nKey[c])
    BY <2>1 DEF MapInv, SharersClashed
  <2>4. of[d] \in L /\ nKey[d] \in Keys
    BY <1>1
  <2>5. QED
    BY <1>4, <2>2, <2>3, <2>4
<1>9. QED
  BY <1>3, <1>6, <1>7, <1>8 DEF MapInv

(* A new call: its connection was free, so no entry points to it, and it is
   the entry of its key now, whoever was there before. *)
LEMMA MapInserts ==
  ASSUME MapInv, MainOK, NEW c \in Conns, NEW k \in Keys, PostAcceptEx(c, k)
  PROVE  MapInv'
<1> DEFINE m == main.nIndex
<1> DEFINE Same == { d \in Conns : at[d] \in Posted /\ of[d] = m /\ nKey[d] = k }
<1>1. /\ at \in [Conns -> Posted \cup {"free", "session"}]
      /\ of \in [Conns -> L] /\ nKey \in [Conns -> Keys]
      /\ acceptPendingMap \in [L -> [Keys -> Conns \cup {None}]]
      /\ clashed \subseteq Conns /\ m \in L
  BY DEF MapInv, MapTypeOK, MainOK, MainStates
<1>2. /\ at[c] = "free"
      /\ at' = [at EXCEPT ![c] = "posting"]
      /\ of' = [of EXCEPT ![c] = m]
      /\ nKey' = [nKey EXCEPT ![c] = k]
      /\ acceptPendingMap' = [acceptPendingMap EXCEPT ![m][k] = c]
      /\ clashed' = (clashed \ {c}) \cup Same \cup (IF Same = {} THEN {} ELSE {c})
  BY DEF PostAcceptEx, InsertIntoPendingMap
<1>3. c \notin Same /\ Same \subseteq Conns
  BY <1>2 DEF Posted
<1>4. MapTypeOK'
  <2>1. clashed' \subseteq Conns
    BY <1>1, <1>2, <1>3
  <2>2. acceptPendingMap' \in [L -> [Keys -> Conns \cup {None}]]
    BY <1>1, <1>2
  <2>3. QED
    BY <1>1, <1>2, <2>1, <2>2 DEF MapTypeOK, Posted
<1>5. ASSUME NEW l \in L, NEW j \in Keys
      PROVE  acceptPendingMap'[l][j] =
               IF l = m /\ j = k THEN c ELSE acceptPendingMap[l][j]
  BY <1>1, <1>2
<1>6. ASSUME NEW d \in Conns
      PROVE  /\ at'[d] \in Posted <=> at[d] \in Posted \/ d = c
             /\ d # c => of'[d] = of[d] /\ nKey'[d] = nKey[d]
             /\ of'[c] = m /\ nKey'[c] = k
             /\ d # c => (d \in clashed' <=> d \in clashed \/ d \in Same)
             /\ c \in clashed' <=> Same # {}
  BY <1>1, <1>2, <1>3 DEF Posted
<1>7. EntriesAreLive'
  <2> SUFFICES ASSUME NEW l \in L, NEW j \in Keys, acceptPendingMap'[l][j] # None
               PROVE  LET d == acceptPendingMap'[l][j] IN
                      at'[d] \in Posted /\ of'[d] = l /\ nKey'[d] = j
    BY DEF EntriesAreLive
  <2>1. CASE l = m /\ j = k
    BY <1>5, <1>6, <2>1
  <2>2. CASE ~(l = m /\ j = k)
    <3> DEFINE d == acceptPendingMap[l][j]
    <3>1. acceptPendingMap'[l][j] = d /\ d # None
      BY <1>5, <2>2
    <3>2. d \in Conns
      BY <1>1, <3>1
    <3>3. at[d] \in Posted /\ of[d] = l /\ nKey[d] = j
      BY <3>1 DEF MapInv, EntriesAreLive
    <3>4. d # c
      BY <1>2, <3>3 DEF Posted
    <3>5. QED
      BY <1>6, <3>1, <3>2, <3>3, <3>4
  <2>3. QED
    BY <2>1, <2>2
<1>8. SharersClashed'
  <2> SUFFICES ASSUME NEW d \in Conns, NEW f \in Conns, d # f,
                      at'[d] \in Posted, at'[f] \in Posted,
                      of'[d] = of'[f], nKey'[d] = nKey'[f]
               PROVE  d \in clashed'
    BY DEF SharersClashed
  <2>1. CASE d = c
    <3>1. f \in Same
      BY <1>6, <2>1
    <3>2. QED
      BY <1>6, <2>1, <3>1
  <2>2. CASE f = c
    <3>1. d \in Same
      BY <1>6, <2>2
    <3>2. QED
      BY <1>6, <2>2, <3>1
  <2>3. CASE d # c /\ f # c
    <3>1. d \in clashed
      BY <1>6, <2>3 DEF MapInv, SharersClashed
    <3>2. QED
      BY <1>6, <2>3, <3>1
  <2>4. QED
    BY <2>1, <2>2, <2>3
<1>9. FoundUnlessClashed'
  <2> SUFFICES ASSUME NEW d \in Conns, at'[d] \in Posted, d \notin clashed'
               PROVE  acceptPendingMap'[of'[d]][nKey'[d]] = d
    BY DEF FoundUnlessClashed
  <2>1. CASE d = c
    BY <1>1, <1>5, <1>6, <2>1
  <2>2. CASE d # c
    <3>1. at[d] \in Posted /\ d \notin clashed /\ d \notin Same
      BY <1>6, <2>2
    <3>2. acceptPendingMap[of[d]][nKey[d]] = d
      BY <3>1 DEF MapInv, FoundUnlessClashed
    <3>3. ~(of[d] = m /\ nKey[d] = k) /\ of[d] \in L /\ nKey[d] \in Keys
      BY <1>1, <3>1
    <3>4. QED
      BY <1>5, <1>6, <2>2, <3>2, <3>3
  <2>3. QED
    BY <2>1, <2>2
<1>10. QED
  BY <1>4, <1>7, <1>8, <1>9 DEF MapInv

-----------------------------------------------------------------------------
(* main and its sweep. *)

(* The record keeps its type when a call of a batch is counted. *)
LEMMA Counted ==
  ASSUME MainOK, main' = [main EXCEPT !.pc = "post", !.i = @ + 1, !.c = None]
  PROVE  MainOK' /\ main'.pc = "post"
<1>1. "post" \in PCs /\ main.i + 1 \in Int /\ main \in MainStates
  BY DEF MainOK, MainStates, PCs
<1>2. main' \in MainStates
  BY <1>1 DEF MainStates
<1>3. main'.pc = "post"
  BY <1>1 DEF MainStates
<1>4. QED
  BY <1>2, <1>3 DEF MainOK

(* The record keeps its type when main moves on to the next listener. *)
LEMMA MovesOn ==
  ASSUME MainOK, NextListener
  PROVE  MainOK' /\ main'.pc \in {"wait", "post", "scan"}
<1> DEFINE pc == IF main.nIndex = Listeners THEN "wait" ELSE IF main.boot THEN "post" ELSE "scan"
<1> DEFINE next == IF main.nIndex = Listeners THEN main.nIndex ELSE main.nIndex + 1
<1> DEFINE boot == main.boot /\ main.nIndex # Listeners
<1>1. Listeners \in Nat /\ main.nIndex \in 1..Listeners
  BY ListenerAssumption DEF MainOK, MainStates, L
<1>2. next \in L
  BY <1>1 DEF L
<1>3. pc \in {"wait", "post", "scan"}
  OBVIOUS
<1>4. boot \in Flags
  BY Zenon DEF Flags
<1>5. main' = [main EXCEPT !.pc = pc, !.nIndex = next, !.boot = boot, !.i = 0]
  BY Zenon DEF NextListener
<1> HIDE DEF pc, next, boot
<1>6. pc \in PCs /\ 0 \in Int /\ main \in MainStates
  BY <1>3 DEF MainOK, PCs
<1>7. main' \in MainStates
  BY <1>2, <1>4, <1>5, <1>6 DEF MainStates
<1>8. main'.pc = pc
  BY <1>5, <1>6 DEF MainStates
<1>9. QED
  BY <1>3, <1>7, <1>8 DEF MainOK

(* The invariant holds when main posts its first calls: the map is empty. *)
LEMMA ListenerInvInit == ListenerInit => ListenerInv
<1> SUFFICES ASSUME ListenerInit PROVE ListenerInv
  OBVIOUS
<1>1. 1 \in L
  BY ListenerAssumption DEF L
<1>2. (CHOOSE k \in Keys : TRUE) \in Keys
  BY ListenerAssumption
<1>3. MapTypeOK
  BY <1>1, <1>2 DEF ListenerInit, MapTypeOK
<1>4. EntriesAreLive
  BY DEF ListenerInit, EntriesAreLive
<1>5. SharersClashed /\ FoundUnlessClashed
  BY DEF ListenerInit, SharersClashed, FoundUnlessClashed, Posted
<1>6. MainOK /\ InHand
  BY <1>1 DEF ListenerInit, MainOK, InHand, SweepSparesUnconnected, MainStates, PCs, Flags
<1>7. QED
  BY <1>3, <1>4, <1>5, <1>6 DEF ListenerInv, MapInv

(* Steps of main that leave connections and map alone. *)
LEMMA MainAlone ==
  ASSUME ListenerInv, UNCHANGED <<at, mapVars>>, MainOK', main'.pc # "accept",
         main'.pc = "close" => at[main'.c] \notin {"posting", "pending"}
  PROVE  ListenerInv'
<1>1. at' \in [Conns -> Posted \cup {"free", "session"}]
  BY DEF ListenerInv, MapInv, MapTypeOK
<1>2. MapInv'
  BY <1>1, MapKept DEF ListenerInv
<1>3. InHand'
  BY DEF InHand, SweepSparesUnconnected
<1>4. QED
  BY <1>2, <1>3 DEF ListenerInv

(* A connection goes from one state to another, and main stays as it is or
   comes to a place where it has nothing in hand. *)
LEMMA ConnMoves ==
  ASSUME ListenerInv, NEW c \in Conns, NEW s \in Posted \cup {"free", "session"},
         at' = [at EXCEPT ![c] = s],
         MapInv', MainOK',
         \/ main' = main /\ at[c] # "posting" /\ s \notin {"posting", "pending"}
         \/ main'.pc \notin {"accept", "close"}
  PROVE  ListenerInv'
<1>1. at \in [Conns -> Posted \cup {"free", "session"}]
  BY DEF ListenerInv, MapInv, MapTypeOK
<1>2. InHand'
  BY <1>1 DEF ListenerInv, MainOK, InHand, SweepSparesUnconnected
<1>3. QED
  BY <1>2 DEF ListenerInv

(* Every step of main that has no failing call keeps the invariant. *)
LEMMA MainStep == ListenerInv /\ Main => ListenerInv'
<1> SUFFICES ASSUME ListenerInv, Main PROVE ListenerInv'
  OBVIOUS
<1>0. /\ MapInv /\ MainOK /\ InHand
      /\ at \in [Conns -> Posted \cup {"free", "session"}]
      /\ main \in MainStates
  BY DEF ListenerInv, MapInv, MapTypeOK, MainOK
<1>1. CASE WaitForMultipleEvents
  <2>1. 1 \in L
    BY ListenerAssumption DEF L
  <2>2. MainOK' /\ main'.pc = "scan"
    BY <1>0, <1>1, <2>1 DEF WaitForMultipleEvents, MainOK, MainStates, PCs
  <2>3. QED
    BY <1>1, <2>2, MainAlone DEF WaitForMultipleEvents
<1>2. CASE WaitForSingleObject
  <2>1. MainOK' /\ main'.pc \notin {"accept", "close"}
    <3>1. CASE MainGoes("reset")
      BY <1>0, <3>1 DEF MainGoes, MainOK, MainStates, PCs
    <3>2. CASE NextListener
      BY <1>0, <3>2, MovesOn
    <3>3. QED
      BY <1>2, <3>1, <3>2 DEF WaitForSingleObject
  <2>2. QED
    BY <1>2, <2>1, MainAlone DEF WaitForSingleObject
<1>3. CASE ResetEvent
  <2>1. MainOK' /\ main'.pc = "post"
    BY <1>0, <1>3 DEF ResetEvent, MainGoes, MainOK, MainStates, PCs
  <2>2. QED
    BY <1>3, <2>1, MainAlone DEF ResetEvent
<1>4. CASE \E c \in Conns, k \in Keys : PostAcceptEx(c, k)
  <2> PICK c \in Conns, k \in Keys : PostAcceptEx(c, k)
    BY <1>4
  <2>1. MapInv'
    BY <1>0, MapInserts
  <2>2. /\ main' = [main EXCEPT !.pc = "accept", !.c = c]
        /\ at' = [at EXCEPT ![c] = "posting"]
    BY DEF PostAcceptEx
  <2>3. MainOK' /\ InHand'
    BY <1>0, <2>2 DEF MainOK, MainStates, PCs, InHand, SweepSparesUnconnected
  <2>4. QED
    BY <2>1, <2>3 DEF ListenerInv
<1>5. CASE AcceptEx
  <2>1. main.c \in Conns /\ at[main.c] = "posting"
    BY <1>0, <1>5 DEF AcceptEx, MainOK, InHand
  <2>2. PICK s \in {"connected", "pending"} : at' = [at EXCEPT ![main.c] = s]
    BY <1>5 DEF AcceptEx
  <2>3. main' = [main EXCEPT !.pc = "post", !.i = @ + 1, !.c = None] /\ UNCHANGED mapVars
    BY <1>5, Zenon DEF AcceptEx
  <2>4. MainOK' /\ main'.pc = "post"
    BY <1>0, <2>3, Counted
  <2>5. MapInv'
    BY <1>0, <2>1, <2>2, <2>3, MapKept DEF Posted
  <2>6. QED
    BY <2>1, <2>2, <2>4, <2>5, ConnMoves DEF Posted
<1>6. CASE BatchDone
  <2>1. MainOK' /\ main'.pc \notin {"accept", "close"}
    <3>1. CASE MainGoes("visit")
      BY <1>0, <3>1 DEF MainGoes, MainOK, MainStates, PCs
    <3>2. CASE NextListener
      BY <1>0, <3>2, MovesOn
    <3>3. QED
      BY <1>6, <3>1, <3>2 DEF BatchDone
  <2>2. QED
    BY <1>6, <2>1, MainAlone DEF BatchDone
<1>7. CASE \E k \in Keys : SweepVisits(k)
  <2> PICK k \in Keys : SweepVisits(k)
    BY <1>7
  <2> DEFINE c == acceptPendingMap[main.nIndex][k]
  <2>1. c \in Conns \cup {None}
    BY <1>0 DEF MapInv, MapTypeOK, MainStates
  <2>2. main.pc = "visit" /\ main' = IF c = None THEN main ELSE [main EXCEPT !.pc = "ask", !.c = c]
    BY DEF SweepVisits
  <2>3. MainOK' /\ main'.pc \in {"visit", "ask"}
    BY <1>0, <2>1, <2>2 DEF MainOK, MainStates, PCs
  <2>4. UNCHANGED <<at, mapVars>>
    BY DEF SweepVisits
  <2>5. QED
    BY <2>3, <2>4, MainAlone
<1>7a. CASE SweepAsks
  <2>1. main.pc = "ask" /\ main.c \in Conns
    BY <1>0, <1>7a DEF SweepAsks, MainOK
  <2>2. /\ MainOK' /\ main'.pc \in {"visit", "close"}
        /\ main'.pc = "close" => at[main'.c] \notin {"posting", "pending"}
    <3>1. CASE main' = [main EXCEPT !.pc = "visit", !.c = None]
      BY <1>0, <3>1 DEF MainOK, MainStates, PCs
    <3>2. CASE MainGoes("close") /\ at[main.c] \in {"connected", "ready", "failed", "session"}
      BY <1>0, <2>1, <3>2 DEF MainGoes, MainOK, MainStates, PCs
    <3>3. QED
      BY <1>7a, <3>1, <3>2 DEF SweepAsks
  <2>3. UNCHANGED <<at, mapVars>>
    BY <1>7a DEF SweepAsks
  <2>4. QED
    BY <2>2, <2>3, MainAlone
<1>8. CASE SweepCloses
  <2> DEFINE s == IF at[main.c] = "connected" THEN "failed" ELSE at[main.c]
  <2>1. main.c \in Conns
    BY <1>0, <1>8 DEF SweepCloses, MainOK
  <2>2. /\ at' = [at EXCEPT ![main.c] = s] /\ UNCHANGED mapVars
        /\ main' = [main EXCEPT !.pc = "visit", !.c = None]
    BY <1>8, Zenon DEF SweepCloses
  <2>3. s \in Posted \cup {"free", "session"} /\ (s \in Posted <=> at[main.c] \in Posted)
    BY <1>0, <2>1 DEF Posted
  <2> HIDE DEF s
  <2>4. MainOK' /\ main'.pc = "visit"
    BY <1>0, <2>2 DEF MainOK, MainStates, PCs
  <2>5. MapInv'
    BY <1>0, <2>1, <2>2, <2>3, MapKept
  <2>6. QED
    BY <2>1, <2>2, <2>3, <2>4, <2>5, ConnMoves
<1>9. CASE SweepDone
  <2>1. MainOK' /\ main'.pc \notin {"accept", "close"}
    BY <1>0, <1>9, MovesOn DEF SweepDone
  <2>2. QED
    BY <1>9, <2>1, MainAlone DEF SweepDone
<1>10. QED
  BY <1>1, <1>2, <1>3, <1>4, <1>5, <1>6, <1>7, <1>8, <1>9, <1>7a DEF Main

(* A failing call of main keeps the invariant: the entry of an AcceptEx that
   fails is taken back. *)
LEMMA MainFailsStep == ListenerInv /\ MainFails => ListenerInv'
<1> SUFFICES ASSUME ListenerInv, MainFails PROVE ListenerInv'
  OBVIOUS
<1>0. /\ MapInv /\ MainOK /\ InHand
      /\ main \in MainStates
  BY DEF ListenerInv, MainOK
<1>1. CASE WaitFailed
  <2>1. MainOK' /\ main'.pc = "exit"
    BY <1>0, <1>1 DEF WaitFailed, MainGoes, MainOK, MainStates, PCs
  <2>2. QED
    BY <1>1, <2>1, MainAlone DEF WaitFailed
<1>2. CASE PostAcceptExFails
  <2>1. MainOK' /\ main'.pc = "post"
    BY <1>0, <1>2 DEF PostAcceptExFails, MainOK, MainStates, PCs
  <2>2. QED
    BY <1>2, <2>1, MainAlone DEF PostAcceptExFails
<1>3. CASE AcceptExFails
  <2>1. main.c \in Conns /\ at[main.c] \in Posted
    BY <1>0, <1>3 DEF AcceptExFails, MainOK, InHand, Posted
  <2>2. /\ main' = [main EXCEPT !.pc = "post", !.i = @ + 1, !.c = None]
        /\ at' = [at EXCEPT ![main.c] = "free"]
        /\ DeleteFromPendingMap(main.c) /\ UNCHANGED <<of, nKey, clashed>>
    BY <1>3, Zenon DEF AcceptExFails
  <2>3. MapInv'
    BY <1>0, <2>1, <2>2, MapDeletes
  <2>4. MainOK' /\ main'.pc = "post"
    BY <1>0, <2>2, Counted
  <2>5. QED
    BY <2>1, <2>2, <2>3, <2>4, ConnMoves
<1>4. QED
  BY <1>1, <1>2, <1>3 DEF MainFails

(* The workers, and the peer of a connection, keep the invariant. *)
LEMMA ConnStep ==
  ASSUME ListenerInv, NEW c \in Conns, Worker(c) \/ ClientActs(c)
  PROVE  ListenerInv'
<1>0. MapInv /\ MainOK /\ at \in [Conns -> Posted \cup {"free", "session"}]
  BY DEF ListenerInv, MapInv, MapTypeOK
<1>1. ASSUME main' = main PROVE MainOK'
  BY <1>0, <1>1 DEF MainOK
<1>2. CASE AcceptCompletionSuccess(c)
  <2>1. /\ at[c] = "ready" /\ at' = [at EXCEPT ![c] = "session"] /\ main' = main
        /\ DeleteFromPendingMap(c) /\ UNCHANGED <<of, nKey, clashed>>
    BY <1>2 DEF AcceptCompletionSuccess
  <2>2. MapInv'
    BY <1>0, <2>1, MapDeletes DEF Posted
  <2>3. QED
    BY <1>1, <2>1, <2>2, ConnMoves
<1>3. CASE AcceptCompletionFailed(c)
  <2>1. /\ at[c] = "failed" /\ at' = [at EXCEPT ![c] = "free"] /\ main' = main
        /\ DeleteFromPendingMap(c) /\ UNCHANGED <<of, nKey, clashed>>
    BY <1>3 DEF AcceptCompletionFailed
  <2>2. MapInv'
    BY <1>0, <2>1, MapDeletes DEF Posted
  <2>3. QED
    BY <1>1, <2>1, <2>2, ConnMoves
<1>4. CASE SessionEnds(c)
  <2>1. /\ at[c] = "session" /\ at' = [at EXCEPT ![c] = "free"] /\ main' = main
        /\ UNCHANGED mapVars
    BY <1>4 DEF SessionEnds
  <2>2. MapInv'
    BY <1>0, <2>1, MapKept DEF Posted
  <2>3. QED
    BY <1>1, <2>1, <2>2, ConnMoves
<1>5. CASE ClientActs(c)
  <2>1. PICK s \in {"ready", "failed"} : at' = [at EXCEPT ![c] = s]
    BY <1>5 DEF ClientActs
  <2>2. at[c] = "connected" /\ main' = main /\ UNCHANGED mapVars
    BY <1>5 DEF ClientActs
  <2>3. MapInv'
    BY <1>0, <2>1, <2>2, MapKept DEF Posted
  <2>4. QED
    BY <1>1, <2>1, <2>2, <2>3, ConnMoves DEF Posted
<1>6. QED
  BY <1>2, <1>3, <1>4, <1>5 DEF Worker

(* A client that connects takes a pending call or waits: either way no entry
   changes. *)
LEMMA ConnectStep ==
  ASSUME ListenerInv, NEW l \in L, ClientConnects(l)
  PROVE  ListenerInv'
<1>0. MapInv /\ MainOK /\ at \in [Conns -> Posted \cup {"free", "session"}]
  BY DEF ListenerInv, MapInv, MapTypeOK
<1>1. main' = main /\ UNCHANGED mapVars
  BY DEF ClientConnects
<1>2. MainOK'
  BY <1>0, <1>1 DEF MainOK
<1>3. CASE UNCHANGED at
  <2>1. MapInv'
    BY <1>0, <1>1, <1>3, MapKept
  <2>2. InHand'
    BY <1>1, <1>3 DEF ListenerInv, InHand, SweepSparesUnconnected
  <2>3. QED
    BY <1>2, <2>1, <2>2 DEF ListenerInv
<1>4. CASE \E c \in Conns : at[c] = "pending" /\ at' = [at EXCEPT ![c] = "connected"]
  <2> PICK c \in Conns : at[c] = "pending" /\ at' = [at EXCEPT ![c] = "connected"]
    BY <1>4
  <2>1. MapInv'
    BY <1>0, <1>1, MapKept DEF Posted
  <2>2. QED
    BY <1>1, <1>2, <2>1, ConnMoves DEF Posted
<1>5. QED
  BY <1>3, <1>4 DEF ClientConnects

-----------------------------------------------------------------------------
(* The invariant is inductive. *)
THEOREM ListenerInvariant == ListenerSpec => []ListenerInv
<1>1. ListenerInv /\ [ListenerNext]_lVars => ListenerInv'
  <2> SUFFICES ASSUME ListenerInv, [ListenerNext]_lVars PROVE ListenerInv'
    OBVIOUS
  <2>1. CASE Main \/ MainFails
    BY <2>1, MainStep, MainFailsStep
  <2>2. CASE \E c \in Conns : Worker(c) \/ ClientActs(c)
    BY <2>2, ConnStep
  <2>3. CASE \E l \in L : ClientConnects(l)
    BY <2>3, ConnectStep
  <2>4. CASE UNCHANGED lVars
    <3>1. UNCHANGED <<at, mapVars, main>>
      BY <2>4 DEF lVars, mapVars
    <3>2. MapInv'
      BY <3>1, MapKept DEF ListenerInv, MapInv, MapTypeOK
    <3>3. MainOK' /\ InHand'
      BY <3>1 DEF ListenerInv, MainOK, InHand, SweepSparesUnconnected
    <3>4. QED
      BY <3>2, <3>3 DEF ListenerInv
  <2>5. QED
    BY <2>1, <2>2, <2>3, <2>4 DEF ListenerNext
<1>2. QED
  BY <1>1, ListenerInvInit, PTL DEF ListenerSpec

(* What the sweep dereferences exists: no entry outlives its connection,
   however many connections draw the same key. *)
THEOREM SweepReadsLiveEntries == ListenerSpec => []EntriesAreLive
<1>1. ListenerInv => EntriesAreLive
  BY DEF ListenerInv, MapInv
<1>2. QED
  BY <1>1, ListenerInvariant, PTL

(* The sweep misses a posted connection only if it shared its random key. *)
THEOREM SweepMissesClashesOnly == ListenerSpec => []SweepFindsAll
<1>1. ListenerInv => SweepFindsAll
  BY DEF ListenerInv, MapInv, FoundUnlessClashed, SweepFindsAll
<1>2. QED
  BY <1>1, ListenerInvariant, PTL

(* What the sweep closes is never a call that waits for its client. *)
THEOREM SweepSparesNewCalls == ListenerSpec => []SweepSparesUnconnected
<1>1. ListenerInv => SweepSparesUnconnected
  BY DEF ListenerInv, InHand
<1>2. QED
  BY <1>1, ListenerInvariant, PTL

-----------------------------------------------------------------------------
(* How many calls may wait for a client.  main.i counts the calls of a batch,
   and a batch starts with fewer than Batch unclaimed calls: its event was set
   by a client that found none, and main itself has posted since only what it
   had counted.  So the count rises from below Batch to below 2 * Batch. *)

(* main posts calls for this listener. *)
InBatch(l) == main.pc \in {"post", "accept"} /\ main.nIndex = l

(* Where main is, as far as its batches go: it has counted its calls, only
   batches are posted before the first wait, and it resets an event that is
   set, which nobody else does. *)
BatchOK ==
  /\ backlog \in [L -> Nat] /\ event \in [L -> Flags]
  /\ main.i \in 0..Batch
  /\ main.pc \in {"wait", "scan", "reset"} => main.i = 0
  /\ main.pc = "accept" => main.i < Batch /\ of[main.c] = main.nIndex
  /\ main.boot => main.pc \in {"post", "accept"}
  /\ main.pc = "reset" => event[main.nIndex]

(* Clients wait only where no call is left, nothing has happened yet at a
   listener that is still to be filled, and a set event stands for clients in
   the backlog or for fewer unclaimed calls than a batch, of which this batch
   has posted more than are left. *)
PostsOK(l) ==
  LET u == Cardinality(Unclaimed(l)) IN
  /\ backlog[l] > 0 => Unclaimed(l) = {}
  /\ main.boot /\ l > main.nIndex => Unclaimed(l) = {} /\ ~event[l] /\ backlog[l] = 0
  /\ InBatch(l) => u < Batch + main.i /\ (event[l] => backlog[l] > 0 \/ u < main.i)
  /\ ~InBatch(l) => u < 2 * Batch /\ (event[l] => u < Batch)

PostInv == BatchOK /\ \A l \in L : PostsOK(l)

(* A step after which no call is unclaimed that was not before, and that
   neither adds to a backlog nor touches an event. *)
Quiet ==
  /\ \A d \in Conns : at'[d] = "pending" => at[d] = "pending" /\ of'[d] = of[d]
  /\ UNCHANGED <<backlog, event>>

(* Unclaimed calls can be counted. *)
LEMMA UnclaimedCounted ==
  ASSUME NEW l \in L
  PROVE  /\ IsFiniteSet(Unclaimed(l)) /\ Cardinality(Unclaimed(l)) \in Nat
         /\ Unclaimed(l) = {} => Cardinality(Unclaimed(l)) = 0
<1>1. Unclaimed(l) \subseteq Conns
  BY DEF Unclaimed
<1>2. IsFiniteSet(Unclaimed(l))
  BY <1>1, FS_Subset, ListenerAssumption
<1>3. Cardinality(Unclaimed(l)) \in Nat
  BY <1>2, FS_CardinalityType
<1>4. Unclaimed(l) = {} => Cardinality(Unclaimed(l)) = 0
  BY FS_EmptySet
<1>5. QED
  BY <1>2, <1>3, <1>4

(* The count does not rise in a step that claims calls or frees them. *)
LEMMA UnclaimedShrinks ==
  ASSUME NEW l \in L, Unclaimed(l)' \subseteq Unclaimed(l)
  PROVE  /\ Cardinality(Unclaimed(l)') \in Nat
         /\ Cardinality(Unclaimed(l)') <= Cardinality(Unclaimed(l))
<1>1. IsFiniteSet(Unclaimed(l))
  BY UnclaimedCounted
<1>2. IsFiniteSet(Unclaimed(l)') /\ Cardinality(Unclaimed(l)') <= Cardinality(Unclaimed(l))
  BY <1>1, FS_Subset
<1>3. Cardinality(Unclaimed(l)') \in Nat
  BY <1>2, FS_CardinalityType
<1>4. QED
  BY <1>2, <1>3

(* What holds of a listener survives a step that is quiet there, as long as
   main neither begins nor ends a batch for it. *)
LEMMA PostsKept ==
  ASSUME PostInv, NEW l \in L, PostsOK(l),
         Unclaimed(l)' \subseteq Unclaimed(l),
         backlog'[l] = backlog[l], event'[l] => event[l],
         main'.boot => main.boot /\ main.nIndex <= main'.nIndex,
         main.nIndex \in L, main'.nIndex \in L, main.i \in Int, main'.i \in Int,
         InBatch(l)' <=> InBatch(l),
         InBatch(l) => main.i <= main'.i
  PROVE  PostsOK(l)'
<1>1. /\ Cardinality(Unclaimed(l)') \in Nat /\ Cardinality(Unclaimed(l)) \in Nat
      /\ Cardinality(Unclaimed(l)') <= Cardinality(Unclaimed(l))
  BY UnclaimedShrinks, UnclaimedCounted
<1>2. Batch \in Nat /\ l \in Int /\ main.nIndex \in Int /\ main'.nIndex \in Int
  BY ListenerAssumption DEF L
<1> DEFINE u == Cardinality(Unclaimed(l))
           v == Cardinality(Unclaimed(l)')
<1>3. /\ backlog[l] > 0 => Unclaimed(l) = {}
      /\ main.boot /\ l > main.nIndex => Unclaimed(l) = {} /\ ~event[l] /\ backlog[l] = 0
      /\ InBatch(l) => u < Batch + main.i /\ (event[l] => backlog[l] > 0 \/ u < main.i)
      /\ ~InBatch(l) => u < 2 * Batch /\ (event[l] => u < Batch)
  BY DEF PostsOK
<1>4. /\ backlog'[l] > 0 => Unclaimed(l)' = {}
      /\ main'.boot /\ l > main'.nIndex => Unclaimed(l)' = {} /\ ~event'[l] /\ backlog'[l] = 0
  <2>1. backlog'[l] > 0 => Unclaimed(l)' = {}
    BY <1>3
  <2>2. ASSUME main'.boot, l > main'.nIndex
        PROVE  Unclaimed(l)' = {} /\ ~event'[l] /\ backlog'[l] = 0
    <3>1. main.boot /\ main.nIndex <= main'.nIndex
      BY <2>2
    <3>2. l > main.nIndex
      BY <1>2, <2>2, <3>1
    <3>3. QED
      BY <1>3, <3>1, <3>2
  <2>3. QED
    BY <2>1, <2>2
<1> u \in Nat /\ v \in Nat /\ v <= u
  BY <1>1
<1> HIDE DEF u, v
<1>5. /\ InBatch(l) => v < Batch + main'.i /\ (event[l] => backlog[l] > 0 \/ v < main'.i)
      /\ ~InBatch(l) => v < 2 * Batch /\ (event[l] => v < Batch)
  BY <1>2, <1>3
<1>6. QED
  BY <1>4, <1>5 DEF PostsOK, u, v

(* A quiet step leaves no more calls unclaimed than there were. *)
LEMMA QuietShrinks ==
  ASSUME Quiet, NEW l \in L
  PROVE  Unclaimed(l)' \subseteq Unclaimed(l) /\ backlog'[l] = backlog[l] /\ event'[l] = event[l]
BY DEF Quiet, Unclaimed

(* A quiet step in which main does nothing. *)
LEMMA QuietAlone ==
  ASSUME ListenerInv, PostInv, Quiet, main' = main, of' = of
  PROVE  PostInv'
<1>1. main.nIndex \in L /\ main.i \in Int
  BY DEF ListenerInv, MainOK, MainStates
<1>2. BatchOK'
  BY DEF PostInv, BatchOK, Quiet
<1>3. ASSUME NEW l \in L PROVE PostsOK(l)'
  <2>1. InBatch(l)' <=> InBatch(l)
    BY DEF InBatch
  <2>2. main.nIndex <= main.nIndex /\ main.i <= main.i
    BY <1>1, ListenerAssumption DEF L
  <2>3. QED
    BY <1>1, <2>1, <2>2, QuietShrinks, PostsKept DEF PostInv
<1>4. QED
  BY <1>2, <1>3 DEF PostInv

(* main counts a call that was not made, or is about to make one. *)
LEMMA QuietInBatch ==
  ASSUME ListenerInv, PostInv, Quiet, main.pc \in {"post", "accept"},
         main' \in MainStates, main'.pc \in {"post", "accept"},
         main'.nIndex = main.nIndex, main'.boot = main.boot,
         main.i <= main'.i, main'.i <= Batch,
         main'.pc = "accept" => main'.i < Batch /\ of'[main'.c] = main'.nIndex
  PROVE  PostInv'
<1>1. main.nIndex \in L /\ main.i \in 0..Batch /\ main'.i \in Int /\ Batch \in Nat
  BY ListenerAssumption DEF ListenerInv, MainOK, MainStates, PostInv, BatchOK
<1>2. main'.i \in 0..Batch
  BY <1>1
<1>3. BatchOK'
  BY <1>2 DEF PostInv, BatchOK, Quiet
<1>4. ASSUME NEW l \in L PROVE PostsOK(l)'
  <2>1. InBatch(l)' <=> InBatch(l)
    BY DEF InBatch
  <2>2. main.nIndex <= main.nIndex
    BY <1>1, ListenerAssumption DEF L
  <2>3. QED
    BY <1>1, <2>1, <2>2, QuietShrinks, PostsKept DEF PostInv
<1>5. QED
  BY <1>3, <1>4 DEF PostInv

(* main goes about anything but batches, after the first wait. *)
LEMMA QuietOutside ==
  ASSUME ListenerInv, PostInv, Quiet, main.pc \notin {"post", "accept"},
         main' \in MainStates, main'.pc \notin {"post", "accept"},
         ~main'.boot, main'.i \in 0..Batch,
         main'.pc \in {"wait", "scan", "reset"} => main'.i = 0,
         main'.pc = "reset" => event[main'.nIndex]
  PROVE  PostInv'
<1>1. main.nIndex \in L /\ main.i \in Int /\ main'.i \in Int /\ main'.nIndex \in L
  BY ListenerAssumption DEF ListenerInv, MainOK, MainStates
<1>2. BatchOK'
  BY DEF PostInv, BatchOK, Quiet
<1>3. ASSUME NEW l \in L PROVE PostsOK(l)'
  <2>1. ~InBatch(l)' /\ ~InBatch(l)
    BY DEF InBatch
  <2>2. QED
    BY <1>1, <2>1, QuietShrinks, PostsKept DEF PostInv
<1>4. QED
  BY <1>2, <1>3 DEF PostInv

(* The batch of a listener ends: its clients still wait, and then no call is
   left, or fewer calls are left than the batch has posted. *)
LEMMA BatchEnds ==
  ASSUME PostInv, Quiet, NEW l \in L, InBatch(l), ~InBatch(l)', main.i = Batch,
         ~(main'.boot /\ l > main'.nIndex)
  PROVE  PostsOK(l)'
<1> DEFINE u == Cardinality(Unclaimed(l))
           v == Cardinality(Unclaimed(l)')
<1>1. u \in Nat /\ v \in Nat /\ v <= u /\ (Unclaimed(l) = {} => u = 0)
  BY UnclaimedCounted, UnclaimedShrinks, QuietShrinks
<1>2. Batch \in Nat /\ Batch > 0
  BY ListenerAssumption
<1>3. backlog'[l] = backlog[l] /\ event'[l] = event[l] /\ Unclaimed(l)' \subseteq Unclaimed(l)
  BY QuietShrinks
<1>4. /\ backlog[l] > 0 => Unclaimed(l) = {}
      /\ u < Batch + Batch /\ (event[l] => backlog[l] > 0 \/ u < Batch)
  BY DEF PostInv, PostsOK
<1>5. backlog'[l] > 0 => Unclaimed(l)' = {}
  BY <1>3, <1>4
<1> HIDE DEF u, v
<1>6. v < 2 * Batch /\ (event'[l] => v < Batch)
  BY <1>1, <1>2, <1>3, <1>4
<1>7. QED
  BY <1>5, <1>6 DEF PostsOK, v

(* At start-up main goes on with a listener where nothing has happened. *)
LEMMA BatchBegins ==
  ASSUME PostInv, Quiet, NEW l \in L, main.boot, l > main.nIndex,
         InBatch(l)', main'.nIndex = l, main'.i = 0
  PROVE  PostsOK(l)'
<1>1. Unclaimed(l) = {} /\ ~event[l] /\ backlog[l] = 0
  BY DEF PostInv, PostsOK
<1>2. Unclaimed(l)' = {} /\ ~event'[l] /\ backlog'[l] = 0
  BY <1>1, QuietShrinks
<1>3. Cardinality(Unclaimed(l)') = 0
  BY <1>2, FS_EmptySet
<1>4. 0 < Batch + 0 /\ ~(l > l) /\ ~(0 > 0)
  BY ListenerAssumption DEF L
<1>5. QED
  BY <1>2, <1>3, <1>4 DEF PostsOK

(* Where main is after moving on. *)
LEMMA MovesOnTo ==
  ASSUME MainOK, NextListener
  PROVE  /\ main'.i = 0
         /\ main.nIndex = Listeners => main'.pc = "wait" /\ ~main'.boot
         /\ main.nIndex # Listeners => /\ main'.nIndex = main.nIndex + 1
                                       /\ main'.pc = (IF main.boot THEN "post" ELSE "scan")
                                       /\ main'.boot => main.boot
                                       /\ main.boot => main'.boot
<1> DEFINE pc == IF main.nIndex = Listeners THEN "wait" ELSE IF main.boot THEN "post" ELSE "scan"
<1> DEFINE next == IF main.nIndex = Listeners THEN main.nIndex ELSE main.nIndex + 1
<1> DEFINE boot == main.boot /\ main.nIndex # Listeners
<1>1. main' = [main EXCEPT !.pc = pc, !.nIndex = next, !.boot = boot, !.i = 0]
  BY Zenon DEF NextListener
<1>2. main \in MainStates
  BY DEF MainOK
<1>3. /\ main.nIndex = Listeners => pc = "wait" /\ ~boot
      /\ main.nIndex # Listeners => /\ next = main.nIndex + 1
                                    /\ pc = (IF main.boot THEN "post" ELSE "scan")
                                    /\ boot => main.boot
                                    /\ main.boot => boot
  BY Zenon
<1> HIDE DEF pc, next, boot
<1>4. main'.pc = pc /\ main'.nIndex = next /\ main'.boot = boot /\ main'.i = 0
  BY <1>1, <1>2 DEF MainStates
<1>5. QED
  BY <1>3, <1>4

(* main moves on from a listener, or sweeps its map. *)
LEMMA BatchDonePosts ==
  ASSUME ListenerInv, PostInv, ListenerInv', BatchDone
  PROVE  PostInv'
<1> DEFINE m == main.nIndex
<1>1. /\ MainOK /\ MainOK' /\ main \in MainStates /\ main' \in MainStates
      /\ m \in L /\ main'.nIndex \in L
      /\ main.pc = "post" /\ main.i = Batch /\ Batch \in Nat /\ Listeners \in Nat
  BY ListenerAssumption DEF ListenerInv, MainOK, MainStates, BatchDone
<1>2. Quiet
  BY DEF BatchDone, Quiet, mapVars, netVars
<1>3. /\ backlog' \in [L -> Nat] /\ event' \in [L -> Flags]
  BY <1>2 DEF Quiet, PostInv, BatchOK
<1>4. CASE ~main.boot /\ MainGoes("visit")
  <2>1. main'.pc = "visit" /\ main'.boot = main.boot /\ main'.nIndex = m /\ main'.i = Batch
    BY <1>1, <1>4 DEF MainGoes, MainStates
  <2>2. BatchOK'
    BY <1>1, <1>3, <1>4, <2>1 DEF BatchOK
  <2>3. ASSUME NEW l \in L PROVE PostsOK(l)'
    <3>1. CASE l = m
      <4>1. InBatch(l) /\ ~InBatch(l)'
        BY <1>1, <2>1, <3>1 DEF InBatch
      <4>2. QED
        BY <1>1, <1>2, <1>4, <2>1, <4>1, BatchEnds
    <3>2. CASE l # m
      <4>1. ~InBatch(l) /\ ~InBatch(l)'
        BY <2>1, <3>2 DEF InBatch
      <4>2. main.i \in Int /\ main'.i \in Int
        BY <1>1, <2>1
      <4>3. QED
        BY <1>1, <1>2, <1>4, <2>1, <4>1, <4>2, QuietShrinks, PostsKept DEF PostInv
    <3>3. QED
      BY <3>1, <3>2
  <2>4. QED
    BY <2>2, <2>3 DEF PostInv
<1>5. CASE NextListener
  <2>1. /\ main'.i = 0
        /\ m = Listeners => main'.pc = "wait" /\ ~main'.boot
        /\ m # Listeners => /\ main'.nIndex = m + 1
                            /\ main'.pc = (IF main.boot THEN "post" ELSE "scan")
                            /\ main'.boot => main.boot
                            /\ main.boot => main'.boot
    BY <1>1, <1>5, MovesOnTo
  <2>2. main'.boot => main.boot /\ main'.nIndex = m + 1 /\ main'.pc = "post"
    BY <2>1
  <2>3. main'.pc \in {"wait", "post", "scan"} /\ (main'.pc = "post" => main.boot /\ main'.nIndex = m + 1)
    BY <2>1
  <2>4. BatchOK'
    BY <1>1, <1>3, <2>1, <2>2, <2>3 DEF BatchOK
  <2>5. ASSUME NEW l \in L PROVE PostsOK(l)'
    <3>0. m \in Int /\ l \in Int /\ main.i \in Int /\ main'.i \in Int /\ m # m + 1 /\ m <= m + 1
      BY <1>1, <2>1 DEF L
    <3>1. CASE l = m
      <4>1. InBatch(l)
        BY <1>1, <3>1 DEF InBatch
      <4>2. ~InBatch(l)'
        BY <2>3, <3>0, <3>1 DEF InBatch
      <4>3. ~(main'.boot /\ l > main'.nIndex)
        BY <2>2, <3>0, <3>1
      <4>4. QED
        BY <1>1, <1>2, <4>1, <4>2, <4>3, BatchEnds
    <3>2. CASE l # m /\ InBatch(l)'
      <4>1. main.boot /\ main'.nIndex = m + 1 /\ l = m + 1
        BY <2>3, <3>2 DEF InBatch
      <4>2. l > m
        BY <3>0, <4>1
      <4>3. QED
        BY <1>2, <2>1, <3>2, <4>1, <4>2, BatchBegins
    <3>3. CASE l # m /\ ~InBatch(l)'
      <4>1. ~InBatch(l)
        BY <3>3 DEF InBatch
      <4>2. main'.boot => main.boot /\ m <= main'.nIndex
        BY <2>2, <3>0
      <4>3. QED
        BY <1>1, <1>2, <3>0, <3>3, <4>1, <4>2, QuietShrinks, PostsKept DEF PostInv
    <3>4. QED
      BY <3>1, <3>2, <3>3
  <2>6. QED
    BY <2>4, <2>5 DEF PostInv
<1>6. QED
  BY <1>4, <1>5 DEF BatchDone

(* A listener that a step of main leaves as it was: no count, no client, no
   event of it changes, and no batch for it begins or ends. *)
LEMMA OthersPosts ==
  ASSUME ListenerInv, PostInv, NEW l \in L, l # main.nIndex,
         Unclaimed(l)' = Unclaimed(l), backlog'[l] = backlog[l], event'[l] = event[l],
         main' \in MainStates, main'.nIndex = main.nIndex, main'.boot = main.boot
  PROVE  PostsOK(l)'
<1>1. main.nIndex \in L /\ main.i \in Int /\ main'.i \in Int /\ main.nIndex <= main.nIndex
  BY ListenerAssumption DEF ListenerInv, MainOK, MainStates, L
<1>2. ~InBatch(l) /\ ~InBatch(l)'
  BY DEF InBatch
<1>3. QED
  BY <1>1, <1>2, PostsKept DEF PostInv

(* The call is made: it takes a client who waits, and then no call was left,
   or it is one more that no client has taken. *)
LEMMA AcceptExPosts ==
  ASSUME ListenerInv, PostInv, ListenerInv', AcceptEx
  PROVE  PostInv'
<1>0. PICK m \in L : m = main.nIndex
  BY DEF ListenerInv, MainOK, MainStates
<1> DEFINE waiting == IF backlog[m] > 0 THEN backlog[m] - 1 ELSE 0
<1> DEFINE now == IF backlog[m] > 0 THEN "connected" ELSE "pending"
<1>1. /\ at \in [Conns -> Posted \cup {"free", "session"}] /\ main.c \in Conns
      /\ main \in MainStates /\ main' \in MainStates
      /\ main.pc = "accept" /\ at[main.c] = "posting" /\ of[main.c] = m
      /\ main.i \in 0..Batch /\ main.i < Batch /\ Batch \in Nat
      /\ backlog \in [L -> Nat] /\ event \in [L -> Flags]
  BY <1>0, ListenerAssumption
  DEF AcceptEx, ListenerInv, MapInv, MapTypeOK, MainOK, MainStates, InHand, PostInv, BatchOK
<1>2. /\ at' = [at EXCEPT ![main.c] = now] /\ of' = of
      /\ backlog' = [backlog EXCEPT ![m] = waiting]
      /\ event' = [event EXCEPT ![m] = @ \/ waiting > 0]
      /\ main' = [main EXCEPT !.pc = "post", !.i = @ + 1, !.c = None]
  BY <1>0, Zenon DEF AcceptEx, mapVars
<1>3. /\ main'.pc = "post" /\ main'.i = main.i + 1
      /\ main'.nIndex = m /\ main'.boot = main.boot
  BY <1>0, <1>1, <1>2 DEF MainStates
<1>4. backlog[m] \in Nat /\ waiting \in Nat
  BY <1>1
<1>5. /\ backlog' \in [L -> Nat] /\ backlog'[m] = waiting
      /\ \A l \in L : l # m => backlog'[l] = backlog[l] /\ event'[l] = event[l]
  BY <1>1, <1>2, <1>4
<1>6. event' \in [L -> Flags] /\ (event'[m] <=> event[m] \/ waiting > 0)
  <2> DEFINE e == event[m] \/ waiting > 0
  <2>1. e \in Flags
    BY Zenon DEF Flags
  <2>2. event' = [event EXCEPT ![m] = e]
    BY <1>2, Zenon
  <2> HIDE DEF e
  <2>3. event' \in [L -> Flags] /\ event'[m] = e
    BY <1>1, <2>1, <2>2
  <2>4. QED
    BY <2>3 DEF e
<1>7. BatchOK'
  <2>1. main'.i \in 0..Batch
    BY <1>1, <1>3
  <2>2. main.boot => main'.pc \in {"post", "accept"}
    BY <1>3
  <2>3. QED
    BY <1>3, <1>5, <1>6, <2>1, <2>2 DEF BatchOK
<1>8. PostsOK(m)'
  <2> DEFINE u == Cardinality(Unclaimed(m))
             v == Cardinality(Unclaimed(m)')
  <2>1. u \in Nat /\ (Unclaimed(m) = {} => u = 0) /\ IsFiniteSet(Unclaimed(m))
    BY <1>1, UnclaimedCounted
  <2>2. InBatch(m) /\ InBatch(m)'
    BY <1>0, <1>1, <1>3 DEF InBatch
  <2>3. /\ backlog[m] > 0 => Unclaimed(m) = {}
        /\ u < Batch + main.i /\ (event[m] => backlog[m] > 0 \/ u < main.i)
    BY <1>1, <2>2 DEF PostInv, PostsOK
  <2>4. ~(m > main'.nIndex)
    BY <1>1, <1>3 DEF L
  <2>5. CASE backlog[m] > 0
    <3>1. Unclaimed(m)' = {} /\ v = 0
      <4>1. Unclaimed(m)' = {}
        BY <1>1, <1>2, <2>3, <2>5 DEF Unclaimed
      <4>2. QED
        BY <4>1, FS_EmptySet
    <3>2. 0 < Batch + main'.i /\ 0 < main'.i
      BY <1>1, <1>3
    <3>3. QED
      BY <2>2, <2>4, <3>1, <3>2 DEF PostsOK
  <2>6. CASE ~(backlog[m] > 0)
    <3>1. Unclaimed(m)' = Unclaimed(m) \cup {main.c} /\ main.c \notin Unclaimed(m)
      BY <1>1, <1>2, <2>6 DEF Unclaimed
    <3>2. v = u + 1
      BY <2>1, <3>1, FS_AddElement
    <3>3. waiting = 0 /\ ~(backlog'[m] > 0)
      BY <1>5, <2>6
    <3>4. event'[m] => event[m]
      BY <1>6, <3>3
    <3> HIDE DEF u, v
    <3>5. v < Batch + main'.i /\ (event'[m] => v < main'.i)
      BY <1>1, <1>3, <2>1, <2>3, <2>6, <3>2, <3>4
    <3>6. QED
      BY <2>2, <2>4, <3>3, <3>5 DEF PostsOK, v
  <2>7. QED
    BY <2>5, <2>6
<1>9. ASSUME NEW l \in L, l # m PROVE PostsOK(l)'
  <2>1. Unclaimed(l)' = Unclaimed(l)
    BY <1>1, <1>2, <1>9 DEF Unclaimed
  <2>2. QED
    BY <1>0, <1>1, <1>3, <1>5, <1>9, <2>1, OthersPosts
<1>10. QED
  BY <1>7, <1>8, <1>9 DEF PostInv

(* A batch begins: its event was set, so fewer calls than a batch are left,
   and the event has to be set anew. *)
LEMMA ResetEventPosts ==
  ASSUME ListenerInv, PostInv, ListenerInv', ResetEvent
  PROVE  PostInv'
<1>0. PICK m \in L : m = main.nIndex
  BY DEF ListenerInv, MainOK, MainStates
<1>1. /\ main \in MainStates /\ main' \in MainStates
      /\ main.pc = "reset" /\ event[m] /\ main.i = 0 /\ Batch \in Nat
      /\ backlog \in [L -> Nat] /\ event \in [L -> Flags]
  BY <1>0, ListenerAssumption DEF ResetEvent, ListenerInv, MainOK, MainStates, PostInv, BatchOK
<1>2. /\ event' = [event EXCEPT ![m] = FALSE] /\ backlog' = backlog
      /\ at' = at /\ of' = of /\ MainGoes("post")
  BY <1>0 DEF ResetEvent, mapVars
<1>3. main'.pc = "post" /\ main'.i = 0 /\ main'.nIndex = m /\ main'.boot = main.boot
  BY <1>0, <1>1, <1>2 DEF MainGoes, MainStates
<1>4. event' \in [L -> Flags] /\ ~event'[m] /\ \A l \in L : l # m => event'[l] = event[l]
  BY <1>1, <1>2 DEF Flags
<1>5. BatchOK'
  <2>1. main'.i \in 0..Batch
    BY <1>1, <1>3
  <2>2. QED
    BY <1>1, <1>2, <1>3, <1>4, <2>1 DEF BatchOK
<1>6. PostsOK(m)'
  <2> DEFINE u == Cardinality(Unclaimed(m))
  <2>1. ~InBatch(m) /\ InBatch(m)' /\ Unclaimed(m)' = Unclaimed(m)
    BY <1>0, <1>1, <1>2, <1>3 DEF InBatch, Unclaimed
  <2>2. (backlog[m] > 0 => Unclaimed(m) = {}) /\ u < Batch
    BY <1>1, <2>1 DEF PostInv, PostsOK
  <2>3. u \in Nat /\ ~(m > main'.nIndex)
    BY <1>1, <1>3, UnclaimedCounted DEF L
  <2> HIDE DEF u
  <2>4. u < Batch + main'.i
    BY <1>1, <1>3, <2>2, <2>3
  <2>5. QED
    BY <1>2, <1>4, <2>1, <2>2, <2>3, <2>4 DEF PostsOK, u
<1>7. ASSUME NEW l \in L, l # m PROVE PostsOK(l)'
  <2>1. Unclaimed(l)' = Unclaimed(l)
    BY <1>2 DEF Unclaimed
  <2>2. QED
    BY <1>0, <1>1, <1>2, <1>3, <1>4, <1>7, <2>1, OthersPosts
<1>8. QED
  BY <1>5, <1>6, <1>7 DEF PostInv

(* A client takes an unclaimed call, or finds none and waits. *)
LEMMA ConnectPosts ==
  ASSUME ListenerInv, PostInv, NEW l \in L, ClientConnects(l)
  PROVE  PostInv'
<1>1. /\ at \in [Conns -> Posted \cup {"free", "session"}] /\ main.nIndex \in L
      /\ main.i \in Int /\ main' = main /\ of' = of
      /\ backlog \in [L -> Nat] /\ event \in [L -> Flags]
  BY DEF ListenerInv, MapInv, MapTypeOK, MainOK, MainStates, PostInv, BatchOK,
         ClientConnects, mapVars
<1>2. CASE \E c \in Conns : at[c] = "pending" /\ of[c] = l
  <2>1. Quiet
    BY <1>1, <1>2 DEF ClientConnects, Quiet
  <2>2. QED
    BY <1>1, <2>1, QuietAlone
<1>3. CASE ~ \E c \in Conns : at[c] = "pending" /\ of[c] = l
  <2> DEFINE e == event[l] \/ enabled[l]
  <2>1. /\ at' = at /\ backlog' = [backlog EXCEPT ![l] = @ + 1]
        /\ event' = [event EXCEPT ![l] = e]
    BY <1>3, Zenon DEF ClientConnects
  <2>2. e \in Flags
    BY Zenon DEF Flags
  <2>3. event[l] => e
    BY Zenon
  <2> HIDE DEF e
  <2>4. /\ backlog' \in [L -> Nat] /\ event' \in [L -> Flags]
        /\ backlog'[l] > 0 /\ (event[l] => event'[l])
        /\ \A m \in L : m # l => backlog'[m] = backlog[m] /\ event'[m] = event[m]
    BY <1>1, <2>1, <2>2, <2>3
  <2>5. main.pc = "reset" => event'[main.nIndex]
    BY <1>1, <2>4 DEF PostInv, BatchOK
  <2>6. BatchOK'
    BY <1>1, <2>4, <2>5 DEF PostInv, BatchOK
  <2>7. \A m \in L : Unclaimed(m)' = Unclaimed(m)
    BY <1>1, <2>1 DEF Unclaimed
  <2>8. PostsOK(l)'
    <3>1. Unclaimed(l)' = {} /\ Cardinality(Unclaimed(l)') = 0
      <4>1. Unclaimed(l)' = {}
        BY <1>3, <2>7 DEF Unclaimed
      <4>2. QED
        BY <4>1, FS_EmptySet
    <3>2. ~(main.boot /\ l > main.nIndex)
      <4>1. Listening(l) /\ l \in Int /\ main.nIndex \in Int
        BY <1>1 DEF ClientConnects, L
      <4>2. QED
        BY <4>1 DEF Listening
    <3>3. Batch \in Nat /\ Batch > 0 /\ main.i >= 0
      BY ListenerAssumption DEF PostInv, BatchOK
    <3>4. 0 < Batch + main.i /\ 0 < 2 * Batch /\ 0 < Batch
      BY <1>1, <3>3
    <3>5. QED
      BY <1>1, <2>4, <3>1, <3>2, <3>4 DEF PostsOK
  <2>9. ASSUME NEW m \in L, m # l PROVE PostsOK(m)'
    <3>1. InBatch(m)' <=> InBatch(m)
      BY <1>1 DEF InBatch
    <3>2. main.nIndex <= main.nIndex /\ main.i <= main.i
      BY <1>1 DEF L
    <3>3. QED
      BY <1>1, <2>4, <2>7, <2>9, <3>1, <3>2, PostsKept DEF PostInv
  <2>10. QED
    BY <2>6, <2>8, <2>9 DEF PostInv
<1>4. QED
  BY <1>2, <1>3

(* Nothing has been posted when main begins its first batch. *)
LEMMA PostInvInit == ListenerInit => PostInv
<1> SUFFICES ASSUME ListenerInit PROVE PostInv
  OBVIOUS
<1>1. /\ main.pc = "post" /\ main.nIndex = 1 /\ main.i = 0
      /\ backlog = [l \in L |-> 0] /\ event = [l \in L |-> FALSE]
      /\ Batch \in Nat /\ Batch > 0
  BY ListenerAssumption DEF ListenerInit
<1>2. BatchOK
  BY <1>1 DEF BatchOK, Flags
<1>3. ASSUME NEW l \in L PROVE PostsOK(l)
  <2>1. Unclaimed(l) = {}
    BY DEF ListenerInit, Unclaimed
  <2>2. Cardinality(Unclaimed(l)) = 0
    BY <2>1, FS_EmptySet
  <2>3. backlog[l] = 0 /\ ~event[l]
    BY <1>1
  <2>4. 0 < Batch + main.i /\ 0 < 2 * Batch
    BY <1>1
  <2>5. QED
    BY <2>1, <2>2, <2>3, <2>4 DEF PostsOK
<1>4. QED
  BY <1>2, <1>3 DEF PostInv

(* main, when no call of it fails. *)
LEMMA MainPosts ==
  ASSUME ListenerInv, PostInv, ListenerInv', Main
  PROVE  PostInv'
<1>0. /\ MainOK /\ MainOK' /\ main \in MainStates /\ main' \in MainStates
      /\ at \in [Conns -> Posted \cup {"free", "session"}] /\ of \in [Conns -> L]
      /\ main.i \in 0..Batch /\ Batch \in Nat /\ main.nIndex \in L
      /\ (main.boot => main.pc \in {"post", "accept"})
  BY ListenerAssumption
  DEF ListenerInv, MapInv, MapTypeOK, MainOK, MainStates, PostInv, BatchOK
<1>1. CASE WaitForMultipleEvents
  <2>1. Quiet
    BY <1>1 DEF WaitForMultipleEvents, Quiet, mapVars, netVars
  <2>2. main.pc = "wait" /\ main'.pc = "scan" /\ main'.i = main.i /\ main'.boot = main.boot
    BY <1>0, <1>1 DEF WaitForMultipleEvents, MainStates
  <2>3. ~main'.boot /\ main'.i = 0
    BY <1>0, <2>2 DEF PostInv, BatchOK
  <2>4. QED
    BY <1>0, <2>1, <2>2, <2>3, QuietOutside
<1>2. CASE WaitForSingleObject
  <2>1. Quiet /\ main.pc = "scan"
    BY <1>2 DEF WaitForSingleObject, Quiet, mapVars, netVars
  <2>2. ~main.boot /\ main.i = 0
    BY <1>0, <2>1 DEF PostInv, BatchOK
  <2>3. CASE event[main.nIndex] /\ MainGoes("reset")
    <3>1. /\ main'.pc = "reset" /\ main'.i = main.i /\ main'.boot = main.boot
          /\ main'.nIndex = main.nIndex
      BY <1>0, <2>3 DEF MainGoes, MainStates
    <3>2. QED
      BY <1>0, <2>1, <2>2, <2>3, <3>1, QuietOutside
  <2>4. CASE NextListener
    <3>1. main'.i = 0 /\ main'.pc \in {"wait", "scan"} /\ ~main'.boot
      BY <1>0, <2>2, <2>4, MovesOnTo
    <3>2. QED
      BY <1>0, <2>1, <3>1, QuietOutside
  <2>5. QED
    BY <1>2, <2>3, <2>4 DEF WaitForSingleObject
<1>3. CASE ResetEvent
  BY <1>3, ResetEventPosts
<1>4. CASE \E c \in Conns, k \in Keys : PostAcceptEx(c, k)
  <2> PICK c \in Conns, k \in Keys : PostAcceptEx(c, k)
    BY <1>4
  <2>1. /\ at' = [at EXCEPT ![c] = "posting"] /\ of' = [of EXCEPT ![c] = main.nIndex]
        /\ main' = [main EXCEPT !.pc = "accept", !.c = c]
        /\ UNCHANGED <<backlog, event>> /\ main.pc = "post" /\ main.i < Batch
    BY DEF PostAcceptEx, netVars
  <2>2. Quiet
    BY <1>0, <2>1 DEF Quiet
  <2>3. /\ main'.pc = "accept" /\ main'.c = c /\ main'.i = main.i
        /\ main'.boot = main.boot /\ main'.nIndex = main.nIndex
    BY <1>0, <2>1 DEF MainStates
  <2>4. of'[c] = main.nIndex /\ main.i <= main.i /\ main.i <= Batch
    BY <1>0, <2>1
  <2>5. QED
    BY <1>0, <2>1, <2>2, <2>3, <2>4, QuietInBatch
<1>5. CASE AcceptEx
  BY <1>5, AcceptExPosts
<1>6. CASE BatchDone
  BY <1>6, BatchDonePosts
<1>7. CASE \E k \in Keys : SweepVisits(k)
  <2>1. Quiet /\ main.pc = "visit"
    BY <1>7 DEF SweepVisits, Quiet, mapVars, netVars
  <2>2. main'.pc \in {"visit", "ask"} /\ main'.i = main.i /\ main'.boot = main.boot
    BY <1>0, <1>7 DEF SweepVisits, MainStates
  <2>3. QED
    BY <1>0, <2>1, <2>2, QuietOutside
<1>7a. CASE SweepAsks
  <2>1. Quiet /\ main.pc = "ask"
    BY <1>7a DEF SweepAsks, Quiet, mapVars, netVars
  <2>2. main'.pc \in {"visit", "close"} /\ main'.i = main.i /\ main'.boot = main.boot
    BY <1>0, <1>7a DEF SweepAsks, MainGoes, MainStates
  <2>3. QED
    BY <1>0, <2>1, <2>2, QuietOutside
<1>8. CASE SweepCloses
  <2>1. main.pc = "close" /\ main'.pc = "visit" /\ main'.i = main.i /\ main'.boot = main.boot
    BY <1>0, <1>8 DEF SweepCloses, MainStates
  <2>2. Quiet
    BY <1>0, <1>8 DEF SweepCloses, Quiet, mapVars, netVars
  <2>3. QED
    BY <1>0, <2>1, <2>2, QuietOutside
<1>9. CASE SweepDone
  <2>1. Quiet /\ main.pc = "visit"
    BY <1>9 DEF SweepDone, Quiet, mapVars, netVars
  <2>2. ~main.boot
    BY <1>0, <2>1
  <2>3. main'.i = 0 /\ main'.pc \in {"wait", "scan"} /\ ~main'.boot
    BY <1>0, <1>9, <2>2, MovesOnTo DEF SweepDone
  <2>4. QED
    BY <1>0, <2>1, <2>3, QuietOutside
<1>10. QED
  BY <1>1, <1>2, <1>3, <1>4, <1>5, <1>6, <1>7, <1>8, <1>9, <1>7a DEF Main

(* main, when a call of it fails: a call that was not made is counted. *)
LEMMA MainFailsPosts ==
  ASSUME ListenerInv, PostInv, ListenerInv', MainFails
  PROVE  PostInv'
<1>0. /\ main \in MainStates /\ main' \in MainStates
      /\ at \in [Conns -> Posted \cup {"free", "session"}] /\ of \in [Conns -> L]
      /\ main.i \in 0..Batch /\ Batch \in Nat
      /\ (main.boot => main.pc \in {"post", "accept"})
  BY ListenerAssumption
  DEF ListenerInv, MapInv, MapTypeOK, MainOK, MainStates, PostInv, BatchOK
<1>1. CASE WaitFailed
  <2>1. Quiet /\ main.pc \in {"wait", "scan"}
    BY <1>1 DEF WaitFailed, Quiet, mapVars, netVars
  <2>2. main'.pc = "exit" /\ main'.i = main.i /\ main'.boot = main.boot
    BY <1>0, <1>1 DEF WaitFailed, MainGoes, MainStates
  <2>3. QED
    BY <1>0, <2>1, <2>2, QuietOutside
<1>2. CASE PostAcceptExFails \/ AcceptExFails
  <2>1. /\ Quiet /\ main.pc \in {"post", "accept"} /\ main.i < Batch
        /\ main'.pc = "post" /\ main'.i = main.i + 1
        /\ main'.boot = main.boot /\ main'.nIndex = main.nIndex
    <3>1. CASE PostAcceptExFails
      BY <1>0, <3>1 DEF PostAcceptExFails, Quiet, mapVars, netVars, MainStates
    <3>2. CASE AcceptExFails
      <4>1. main.c \in Conns /\ main.pc = "accept" /\ main.i < Batch
        BY <3>2 DEF AcceptExFails, ListenerInv, MainOK, PostInv, BatchOK
      <4>2. Quiet
        BY <1>0, <3>2, <4>1 DEF AcceptExFails, Quiet, netVars
      <4>3. /\ main'.pc = "post" /\ main'.i = main.i + 1
            /\ main'.boot = main.boot /\ main'.nIndex = main.nIndex
        BY <1>0, <3>2 DEF AcceptExFails, MainStates
      <4>4. QED
        BY <4>1, <4>2, <4>3
    <3>3. QED
      BY <1>2, <3>1, <3>2
  <2>2. main.i <= main'.i /\ main'.i <= Batch
    BY <1>0, <2>1
  <2>3. QED
    BY <1>0, <2>1, <2>2, QuietInBatch
<1>3. QED
  BY <1>1, <1>2 DEF MainFails

(* The workers, and a client who has been taken, post no call. *)
LEMMA ConnPosts ==
  ASSUME ListenerInv, PostInv, NEW c \in Conns, Worker(c) \/ ClientActs(c)
  PROVE  PostInv'
<1>1. at \in [Conns -> Posted \cup {"free", "session"}]
  BY DEF ListenerInv, MapInv, MapTypeOK
<1>2. /\ \E s \in {"ready", "failed", "session", "free"} : at' = [at EXCEPT ![c] = s]
      /\ main' = main /\ of' = of /\ UNCHANGED <<backlog, event>>
  BY DEF Worker, AcceptCompletionSuccess, AcceptCompletionFailed, SessionEnds, ClientActs,
         mapVars, netVars
<1>3. Quiet
  BY <1>1, <1>2 DEF Quiet
<1>4. QED
  BY <1>2, <1>3, QuietAlone

(* Unclaimed AcceptEx calls do not pile up, for any number of listeners and
   connections and any size of batch: main starts a batch for a listener only
   when fewer than Batch are left. *)
THEOREM PostsAreBounded == ListenerSpec => []PostsBounded
<1>1. ListenerInv /\ ListenerInv' /\ PostInv /\ [ListenerNext]_lVars => PostInv'
  <2> SUFFICES ASSUME ListenerInv, ListenerInv', PostInv, [ListenerNext]_lVars
               PROVE  PostInv'
    OBVIOUS
  <2>1. CASE Main \/ MainFails
    BY <2>1, MainPosts, MainFailsPosts
  <2>2. CASE \E c \in Conns : Worker(c) \/ ClientActs(c)
    BY <2>2, ConnPosts
  <2>3. CASE \E l \in L : ClientConnects(l)
    BY <2>3, ConnectPosts
  <2>4. CASE UNCHANGED lVars
    <3>1. Quiet /\ main' = main /\ of' = of
      BY <2>4 DEF lVars, Quiet
    <3>2. QED
      BY <3>1, QuietAlone
  <2>5. QED
    BY <2>1, <2>2, <2>3, <2>4 DEF ListenerNext
<1>2. PostInv => PostsBounded
  <2> SUFFICES ASSUME PostInv, NEW l \in L PROVE Cardinality(Unclaimed(l)) < 2 * Batch
    BY DEF PostsBounded
  <2> DEFINE u == Cardinality(Unclaimed(l))
  <2>1. u \in Nat /\ Batch \in Nat /\ main.i \in 0..Batch
    BY UnclaimedCounted, ListenerAssumption DEF PostInv, BatchOK
  <2>2. u < Batch + main.i \/ u < 2 * Batch
    BY DEF PostInv, PostsOK
  <2> HIDE DEF u
  <2>3. u < 2 * Batch
    BY <2>1, <2>2
  <2>4. QED
    BY <2>3 DEF u
<1>3. QED
  BY <1>1, <1>2, PostInvInit, ListenerInvariant, PTL DEF ListenerSpec
=============================================================================
