---------------------------- MODULE DbPoolProofs ----------------------------
(***************************************************************************)
(* Proofs about the connection pool, for any number of threads and any     *)
(* limits.  DbInv adds to the types and the count: who is inside the       *)
(* critical section while connecting, that there is room then, that a      *)
(* thread with a link has one, and that db_init runs alone.                *)
(***************************************************************************)
EXTENDS DbPool, FiniteSetTheorems, SequenceTheorems, TLAPS

(* The growing thread is inside cs_db, and the count has room for its link. *)
GrowLocked ==
  \A t \in Threads : pc[t] = "grow" => cs_db = t /\ g_nCurrentLinkNumber < DB_LINK_MAX

LinkHeld ==
  \A t \in Threads : pc[t] \in {"ping", "using"} => link[t] \in Links

InitAlone ==
  nInit < DB_LINK_MIN =>
    g_nCurrentLinkNumber <= nInit /\ \A t \in Threads : pc[t] = "idle"

DbInv ==
  /\ DbTypeOK /\ LinksAccounted
  /\ g_nCurrentLinkNumber <= DB_LINK_MAX
  /\ GrowLocked /\ LinkHeld /\ InitAlone

(* db_connect returns a link or NULL. *)
LEMMA ConnectType ==
  ASSUME NEW connected, NEW err
  PROVE  db_connect(connected, err) \in Links \cup {None}
BY DEF db_connect, CharacterSet, Links

(* pop_back on a vector. *)
LEMMA FrontOfSeq ==
  ASSUME NEW S, NEW s \in Seq(S), NEW n \in 0..Len(s)
  PROVE  SubSeq(s, 1, n) \in Seq(S) /\ Len(SubSeq(s, 1, n)) = n
OBVIOUS

(* There are finitely many owners, and their number is a natural number. *)
LEMMA OwnersFinite == IsFiniteSet(Owners) /\ Cardinality(Owners) \in Nat
<1>1. Owners \subseteq Threads
  BY DEF Owners
<1>2. IsFiniteSet(Owners)
  BY <1>1, DbAssumption, FS_Subset
<1> QED BY <1>2, FS_CardinalityType

(* A thread that takes a link makes one owner more. *)
LEMMA OwnersGain ==
  ASSUME NEW t \in Threads, t \notin Owners, Owners' = Owners \cup {t}
  PROVE  Cardinality(Owners') = Cardinality(Owners) + 1
BY OwnersFinite, FS_AddElement

(* A thread that gives its link up makes one owner less. *)
LEMMA OwnersLose ==
  ASSUME NEW t \in Owners, Owners' = Owners \ {t}
  PROVE  Cardinality(Owners') = Cardinality(Owners) - 1
BY OwnersFinite, FS_RemoveElement

(* The pool starts empty with nobody in it. *)
LEMMA DbInitInv == DbInit => DbInv
<1> SUFFICES ASSUME DbInit PROVE DbInv
  OBVIOUS
<1>1. Owners = {}
  BY DEF DbInit, Owners
<1>2. Cardinality(Owners) = 0
  BY <1>1, FS_EmptySet
<1> QED
  BY <1>2, DbAssumption
  DEF DbInit, DbInv, DbTypeOK, LinksAccounted, GrowLocked, LinkHeld, InitAlone, DbPCs

(* db_init counts each link it lists, and there is room for DB_LINK_MIN. *)
LEMMA DbInitStep ==
  ASSUME DbInv, db_init PROVE DbInv'
<1> USE DbAssumption
<1>1. /\ nInit < DB_LINK_MIN /\ nInit' = nInit + 1
      /\ UNCHANGED <<cs_db, pc, link>>
  BY DEF db_init
<1>2. /\ nInit \in 0..DB_LINK_MIN /\ g_nCurrentLinkNumber \in Int
      /\ g_nCurrentLinkNumber <= nInit /\ v_db \in Seq(Links)
      /\ \A t \in Threads : pc[t] = "idle"
  BY <1>1 DEF DbInv, DbTypeOK, InitAlone
<1>3. Owners' = Owners
  BY <1>1 DEF Owners
<1>4. PICK connected \in BOOLEAN, err \in {0, 1} :
        IF db_connect(connected, err) = None
        THEN UNCHANGED <<v_db, g_nCurrentLinkNumber>>
        ELSE /\ v_db' = Append(v_db, db_connect(connected, err))
             /\ g_nCurrentLinkNumber' = g_nCurrentLinkNumber + 1
  BY DEF db_init
<1>5. db_connect(connected, err) \in Links \cup {None}
  BY ConnectType
<1>6. \/ v_db' = v_db /\ g_nCurrentLinkNumber' = g_nCurrentLinkNumber
      \/ /\ v_db' \in Seq(Links) /\ Len(v_db') = Len(v_db) + 1
         /\ g_nCurrentLinkNumber' = g_nCurrentLinkNumber + 1
  BY <1>2, <1>4, <1>5, AppendProperties
<1>7. DbTypeOK'
  BY <1>1, <1>2, <1>6 DEF DbInv, DbTypeOK
<1>8. LinksAccounted'
  BY <1>2, <1>3, <1>6, OwnersFinite, LenProperties DEF DbInv, LinksAccounted
<1>9. g_nCurrentLinkNumber' <= DB_LINK_MAX /\ InitAlone'
  BY <1>1, <1>2, <1>6 DEF DbInv, InitAlone
<1>10. GrowLocked' /\ LinkHeld'
  BY <1>1, <1>2 DEF GrowLocked, LinkHeld
<1> QED BY <1>7, <1>8, <1>9, <1>10 DEF DbInv

(* Steps of a thread t. Every one changes pc[t] only; who owns a link changes
   by t at most. *)
LEMMA OwnersAfter ==
  ASSUME DbTypeOK, NEW t \in Threads, NEW p, pc' = [pc EXCEPT ![t] = p]
  PROVE  Owners' = IF p \in {"ping", "reconnect", "uncount", "using"}
                   THEN Owners \cup {t} ELSE Owners \ {t}
BY DEF Owners, DbTypeOK

(* Where t starts and ends an action, and what it does to the pool, is all
   the invariant needs to know of an action that counts nothing. *)
LEMMA ThreadInv ==
  ASSUME DbInv, NEW t \in Threads, ThreadStep(t) PROVE DbInv'
<1> USE DbAssumption
<1>0. /\ DbTypeOK /\ LinksAccounted /\ g_nCurrentLinkNumber <= DB_LINK_MAX
      /\ GrowLocked /\ LinkHeld /\ InitAlone
      /\ v_db \in Seq(Links) /\ Len(v_db) \in Nat /\ g_nCurrentLinkNumber \in Int
      /\ pc \in [Threads -> DbPCs] /\ nInit \in 0..DB_LINK_MIN
  BY LenProperties DEF DbInv, DbTypeOK
<1>00. Cardinality(Owners) \in Nat /\ Cardinality(Owners') \in Nat
  <2>1. Owners' \subseteq Threads
    BY DEF Owners
  <2> QED BY <2>1, OwnersFinite, FS_Subset, FS_CardinalityType
<1>1. CASE AllocGrows(t)
  <2>1. /\ pc[t] = "idle" /\ cs_db' = t /\ g_nCurrentLinkNumber < DB_LINK_MAX
        /\ cs_db = None /\ nInit = DB_LINK_MIN
        /\ pc' = [pc EXCEPT ![t] = "grow"]
        /\ UNCHANGED <<v_db, g_nCurrentLinkNumber, nInit, link>>
    BY <1>1 DEF AllocGrows, Enters
  <2>2. Owners' = Owners
    BY <1>0, <2>1, OwnersAfter DEF Owners
  <2>3. DbTypeOK'
    BY <1>0, <2>1 DEF DbTypeOK, DbPCs
  <2>4. LinksAccounted'
    BY <1>0, <2>1, <2>2 DEF LinksAccounted
  <2>5. GrowLocked'
    BY <1>0, <2>1 DEF GrowLocked
  <2>6. LinkHeld' /\ InitAlone'
    BY <1>0, <2>1 DEF LinkHeld, InitAlone
  <2> QED BY <1>0, <2>1, <2>3, <2>4, <2>5, <2>6 DEF DbInv
<1>2. CASE Grown(t)
  <2>1. pc[t] = "grow" /\ cs_db' = None /\ UNCHANGED <<v_db, nInit>>
    BY <1>2 DEF Grown
  <2>2. cs_db = t /\ g_nCurrentLinkNumber < DB_LINK_MAX
    BY <1>0, <2>1 DEF GrowLocked
  <2>3. \A u \in Threads \ {t} : pc[u] # "grow"
    BY <1>0, <2>2 DEF GrowLocked
  <2>4. PICK l \in Links \cup {None} :
          /\ link' = [link EXCEPT ![t] = l]
          /\ IF l = None
             THEN pc' = [pc EXCEPT ![t] = "noLink"] /\ UNCHANGED g_nCurrentLinkNumber
             ELSE /\ pc' = [pc EXCEPT ![t] = "using"]
                  /\ g_nCurrentLinkNumber' = g_nCurrentLinkNumber + 1
    BY <1>2, ConnectType DEF Grown
  <2>5. nInit = DB_LINK_MIN
    BY <1>0, <2>1 DEF InitAlone
  <2>6. DbTypeOK'
    BY <1>0, <2>1, <2>4 DEF DbTypeOK, DbPCs
  <2>7. GrowLocked' /\ LinkHeld' /\ InitAlone'
    <3>1. pc'[t] \in {"noLink", "using"} /\ (pc'[t] = "using" => link'[t] \in Links)
      BY <1>0, <2>4 DEF DbTypeOK
    <3>2. \A u \in Threads \ {t} : pc'[u] = pc[u] /\ link'[u] = link[u]
      BY <1>0, <2>4 DEF DbTypeOK
    <3>3. GrowLocked'
      BY <2>3, <3>1, <3>2 DEF GrowLocked
    <3>4. LinkHeld'
      BY <1>0, <3>1, <3>2 DEF LinkHeld
    <3> QED BY <2>1, <2>5, <3>3, <3>4 DEF InitAlone
  <2>8. t \notin Owners
    BY <2>1 DEF Owners
  <2>9. CASE l = None
    <3>1. pc' = [pc EXCEPT ![t] = "noLink"] /\ g_nCurrentLinkNumber' = g_nCurrentLinkNumber
      BY <2>4, <2>9
    <3>2. Owners' = Owners
      BY <1>0, <2>8, <3>1 DEF Owners
    <3> QED BY <1>0, <2>1, <2>6, <2>7, <3>1, <3>2 DEF DbInv, LinksAccounted
  <2>10. CASE l # None
    <3>1. /\ pc' = [pc EXCEPT ![t] = "using"]
          /\ g_nCurrentLinkNumber' = g_nCurrentLinkNumber + 1
      BY <2>4, <2>10
    <3>2. Owners' = Owners \cup {t}
      BY <1>0, <3>1, OwnersAfter
    <3>3. Cardinality(Owners') = Cardinality(Owners) + 1
      BY <2>8, <3>2, OwnersGain
    <3> QED
      BY <1>0, <1>00, <2>1, <2>2, <2>6, <2>7, <3>1, <3>3 DEF DbInv, LinksAccounted
  <2> QED BY <2>9, <2>10
<1>3. CASE AllocTakes(t)
  <2>1. /\ pc[t] = "idle" /\ v_db # <<>> /\ nInit = DB_LINK_MIN
        /\ link' = [link EXCEPT ![t] = v_db[Len(v_db)]]
        /\ v_db' = SubSeq(v_db, 1, Len(v_db) - 1)
        /\ pc' = [pc EXCEPT ![t] = "ping"]
        /\ UNCHANGED <<g_nCurrentLinkNumber, cs_db, nInit>>
    BY <1>3 DEF AllocTakes, Enters
  <2>2. Len(v_db) >= 1 /\ v_db[Len(v_db)] \in Links
    BY <1>0, <2>1, EmptySeq, ElementOfSeq
  <2>3. v_db' \in Seq(Links) /\ Len(v_db') = Len(v_db) - 1
    <3>1. Len(v_db) - 1 \in 0..Len(v_db)
      BY <1>0, <2>2
    <3>2. /\ SubSeq(v_db, 1, Len(v_db) - 1) \in Seq(Links)
          /\ Len(SubSeq(v_db, 1, Len(v_db) - 1)) = Len(v_db) - 1
      BY <1>0, <3>1, FrontOfSeq, Zenon
    <3> QED BY <2>1, <3>2, Zenon
  <2>4. t \notin Owners /\ Owners' = Owners \cup {t}
    BY <1>0, <2>1, OwnersAfter DEF Owners
  <2>5. Cardinality(Owners') = Cardinality(Owners) + 1
    BY <2>4, OwnersGain
  <2>6. DbTypeOK'
    BY <1>0, <2>1, <2>2, <2>3 DEF DbTypeOK, DbPCs
  <2>7. LinksAccounted'
    BY <1>0, <1>00, <2>1, <2>3, <2>5 DEF LinksAccounted
  <2>8. LinkHeld'
    BY <1>0, <2>1, <2>2 DEF LinkHeld, DbTypeOK
  <2>9. GrowLocked' /\ InitAlone'
    BY <1>0, <2>1 DEF GrowLocked, InitAlone
  <2> QED BY <1>0, <2>1, <2>6, <2>7, <2>8, <2>9 DEF DbInv
<1>4. CASE PingSucceeds(t) \/ PingFails(t) \/ Reconnect(t)
  <2>1. PICK p \in {"reconnect", "uncount", "using"} : pc' = [pc EXCEPT ![t] = p]
    BY <1>4 DEF PingSucceeds, PingFails, Reconnect
  <2>2. /\ pc[t] \in {"ping", "reconnect"}
        /\ UNCHANGED <<v_db, g_nCurrentLinkNumber, cs_db, nInit>>
    BY <1>4 DEF PingSucceeds, PingFails, Reconnect
  <2>3. PICK l \in Links \cup {None} : link' = [link EXCEPT ![t] = l] /\ (p = "using" => l \in Links)
    <3>1. CASE PingSucceeds(t)
      <4>1. link' = [link EXCEPT ![t] = link[t]] /\ link[t] \in Links
        BY <1>0, <3>1 DEF PingSucceeds, LinkHeld, DbTypeOK
      <4> QED BY <4>1
    <3>2. CASE PingFails(t)
      <4>1. link' = [link EXCEPT ![t] = None] /\ pc'[t] = "reconnect"
        BY <1>0, <3>2 DEF PingFails
      <4>2. p = "reconnect"
        BY <1>0, <2>1, <4>1
      <4> QED BY <4>1, <4>2
    <3>3. CASE Reconnect(t)
      <4>1. PICK connected \in BOOLEAN, err \in {0, 1} :
              /\ link' = [link EXCEPT ![t] = db_connect(connected, err)]
              /\ pc' = [pc EXCEPT ![t] = IF db_connect(connected, err) = None
                                         THEN "uncount" ELSE "using"]
        BY <3>3 DEF Reconnect
      <4>2. db_connect(connected, err) \in Links \cup {None}
        BY ConnectType
      <4>3. p = "using" => db_connect(connected, err) # None
        BY <1>0, <2>1, <4>1
      <4> QED BY <4>1, <4>2, <4>3
    <3> QED BY <1>4, <3>1, <3>2, <3>3
  <2>4. Owners' = Owners
    BY <1>0, <2>1, <2>2, OwnersAfter DEF Owners
  <2>5. nInit = DB_LINK_MIN
    BY <1>0, <2>2 DEF InitAlone
  <2>6. DbTypeOK'
    BY <1>0, <2>1, <2>2, <2>3 DEF DbTypeOK, DbPCs
  <2>7. LinksAccounted'
    BY <1>0, <2>2, <2>4 DEF LinksAccounted
  <2>8. LinkHeld'
    BY <1>0, <2>1, <2>3 DEF LinkHeld, DbTypeOK
  <2>9. GrowLocked' /\ InitAlone'
    BY <1>0, <2>1, <2>2, <2>5 DEF GrowLocked, InitAlone
  <2> QED BY <1>0, <2>2, <2>6, <2>7, <2>8, <2>9 DEF DbInv
<1>5. CASE Uncount(t)
  <2>1. /\ pc[t] = "uncount" /\ g_nCurrentLinkNumber' = g_nCurrentLinkNumber - 1
        /\ pc' = [pc EXCEPT ![t] = "noLink"]
        /\ UNCHANGED <<v_db, cs_db, nInit, link>>
    BY <1>5 DEF Uncount
  <2>2. t \in Owners /\ Owners' = Owners \ {t}
    BY <1>0, <2>1, OwnersAfter DEF Owners
  <2>3. Cardinality(Owners') = Cardinality(Owners) - 1
    BY <2>2, OwnersLose
  <2>4. DbTypeOK'
    BY <1>0, <2>1 DEF DbTypeOK, DbPCs
  <2>5. LinksAccounted'
    BY <1>0, <1>00, <2>1, <2>3 DEF LinksAccounted
  <2>6. GrowLocked' /\ LinkHeld' /\ InitAlone'
    BY <1>0, <2>1 DEF GrowLocked, LinkHeld, InitAlone
  <2> QED BY <1>0, <2>1, <2>4, <2>5, <2>6 DEF DbInv
<1>6. CASE db_free(t)
  <2>1. /\ pc[t] = "using" /\ v_db' = Append(v_db, link[t])
        /\ link' = [link EXCEPT ![t] = None]
        /\ pc' = [pc EXCEPT ![t] = "idle"]
        /\ UNCHANGED <<g_nCurrentLinkNumber, cs_db, nInit>>
    BY <1>6 DEF db_free
  <2>2. link[t] \in Links
    BY <1>0, <2>1 DEF LinkHeld
  <2>3. v_db' \in Seq(Links) /\ Len(v_db') = Len(v_db) + 1
    BY <1>0, <2>1, <2>2, AppendProperties
  <2>4. t \in Owners /\ Owners' = Owners \ {t}
    BY <1>0, <2>1, OwnersAfter DEF Owners
  <2>5. Cardinality(Owners') = Cardinality(Owners) - 1
    BY <2>4, OwnersLose
  <2>6. DbTypeOK'
    BY <1>0, <2>1, <2>3 DEF DbTypeOK, DbPCs
  <2>7. LinksAccounted'
    BY <1>0, <1>00, <2>1, <2>3, <2>5 DEF LinksAccounted
  <2>8. GrowLocked' /\ LinkHeld' /\ InitAlone'
    BY <1>0, <2>1 DEF GrowLocked, LinkHeld, InitAlone
  <2> QED BY <1>0, <2>1, <2>6, <2>7, <2>8 DEF DbInv
<1>7. CASE AllocExhausted(t) \/ DoWithout(t)
  <2>1. PICK p \in {"noLink", "idle"} : pc' = [pc EXCEPT ![t] = p]
    BY <1>7 DEF AllocExhausted, DoWithout
  <2>2. /\ pc[t] \in {"noLink", "idle"} /\ (pc[t] = "idle" => nInit = DB_LINK_MIN)
        /\ UNCHANGED <<v_db, g_nCurrentLinkNumber, cs_db, nInit, link>>
    BY <1>7 DEF AllocExhausted, DoWithout, Enters
  <2>3. Owners' = Owners
    BY <1>0, <2>1, <2>2, OwnersAfter DEF Owners
  <2>4. DbTypeOK'
    BY <1>0, <2>1, <2>2 DEF DbTypeOK, DbPCs
  <2>5. LinksAccounted'
    BY <1>0, <2>2, <2>3 DEF LinksAccounted
  <2>6. GrowLocked' /\ LinkHeld' /\ InitAlone'
    BY <1>0, <2>1, <2>2 DEF GrowLocked, LinkHeld, InitAlone
  <2> QED BY <1>0, <2>2, <2>4, <2>5, <2>6 DEF DbInv
<1> QED
  BY <1>1, <1>2, <1>3, <1>4, <1>5, <1>6, <1>7 DEF ThreadStep

(* DbInv holds in every reachable state of the pool. *)
LEMMA DbInvariant == DbSpec => []DbInv
<1>1. DbInv /\ [DbNext]_dbVars => DbInv'
  <2> SUFFICES ASSUME DbInv, [DbNext]_dbVars PROVE DbInv'
    OBVIOUS
  <2>1. CASE UNCHANGED dbVars
    BY <2>1
    DEF dbVars, DbInv, DbTypeOK, LinksAccounted, Owners, GrowLocked, LinkHeld, InitAlone
  <2> QED BY <2>1, DbInitStep, ThreadInv DEF DbNext
<1> QED BY <1>1, DbInitInv, PTL DEF DbSpec

-----------------------------------------------------------------------------
(* For any number of threads, whoever uses a link was given one that
   db_connect had made, and v_db holds such links only: no failed connection
   of db_init, db_alloc or a reconnect gets into the pool or out to a caller. *)
THEOREM DbLinksReal == DbSpec => [](DbTypeOK /\ LinkHeld)
<1>1. DbInv => DbTypeOK /\ LinkHeld
  BY DEF DbInv
<1> QED BY <1>1, DbInvariant, PTL

(* For any number of threads, g_nCurrentLinkNumber never drifts from the
   number of idle links and of links that db_alloc has given to threads. *)
THEOREM DbLinksAccounted == DbSpec => []LinksAccounted
<1>1. DbInv => LinksAccounted
  BY DEF DbInv
<1> QED BY <1>1, DbInvariant, PTL

(* For any number of threads, there never are more than DB_LINK_MAX links. *)
THEOREM DbNeverTooManyLinks == DbSpec => []NeverTooManyLinks
<1>1. DbInv => NeverTooManyLinks
  BY DEF DbInv, LinksAccounted, NeverTooManyLinks
<1> QED BY <1>1, DbInvariant, PTL
=============================================================================
