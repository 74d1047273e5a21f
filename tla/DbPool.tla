------------------------------- MODULE DbPool -------------------------------
(***************************************************************************)
(* The MySQL connection pool of db_mysql.cpp: the vector v_db of idle      *)
(* links, g_nCurrentLinkNumber, and db_init, db_connect, db_alloc and      *)
(* db_free as threads call them.  The callers are not in the sources: each *)
(* allocates a link, uses it and frees it.                                 *)
(*                                                                         *)
(* A link is the character set the server uses on it.  The MySQL client    *)
(* library is external: connecting, choosing the character set and pinging *)
(* may each succeed or fail.                                               *)
(***************************************************************************)
EXTENDS Integers, Sequences, FiniteSets

CONSTANTS
  Threads,
  DB_LINK_MIN, DB_LINK_MAX,   \* 10 and 50
  None                        \* NULL, and no owner of cs_db

Links == {"gbk", "default"}

ASSUME DbAssumption ==
  /\ IsFiniteSet(Threads) /\ None \notin Threads \cup Links
  /\ DB_LINK_MIN \in Nat /\ DB_LINK_MAX \in Nat /\ DB_LINK_MIN <= DB_LINK_MAX

VARIABLES
  v_db, g_nCurrentLinkNumber,
  cs_db,     \* who is inside the critical section across a call, or None
  nInit,     \* rounds of db_init's loop
  pc,        \* where each thread is in db_alloc, or in its own code
  link       \* pMysql of each thread

dbVars == <<v_db, g_nCurrentLinkNumber, cs_db, nInit, pc, link>>

DbPCs == {"idle", "grow", "ping", "reconnect", "uncount", "using", "noLink"}

-----------------------------------------------------------------------------
(* mysql_set_character_set: 0 on success. *)
CharacterSet(err) == IF err = 0 THEN "gbk" ELSE "default"

(* db_connect, given whether mysql_real_connect succeeds and what
   mysql_set_character_set returns: it gives the link up if that is 0. *)
db_connect(connected, err) ==
  IF ~connected \/ err = 0 THEN None ELSE CharacterSet(err)

DbInit ==
  /\ v_db = <<>> /\ g_nCurrentLinkNumber = 0
  /\ cs_db = None /\ nInit = 0
  /\ pc = [t \in Threads |-> "idle"]
  /\ link = [t \in Threads |-> None]

(* One round of db_init, before any thread allocates. *)
db_init ==
  /\ nInit < DB_LINK_MIN
  /\ nInit' = nInit + 1
  /\ \E connected \in BOOLEAN, err \in {0, 1} :
       LET l == db_connect(connected, err) IN
       IF l = None THEN UNCHANGED <<v_db, g_nCurrentLinkNumber>>
       ELSE /\ v_db' = Append(v_db, l)
            /\ g_nCurrentLinkNumber' = g_nCurrentLinkNumber + 1
  /\ UNCHANGED <<cs_db, pc, link>>

Enters(t) == nInit = DB_LINK_MIN /\ pc[t] = "idle" /\ cs_db = None

(* AllocGrows that leaves the critical section before it connects. *)
AllocGrowsUnlocked(t) ==
  /\ Enters(t) /\ v_db = <<>> /\ g_nCurrentLinkNumber < DB_LINK_MAX
  /\ pc' = [pc EXCEPT ![t] = "grow"]
  /\ UNCHANGED <<v_db, g_nCurrentLinkNumber, cs_db, nInit, link>>

(* db_alloc finds no idle link and room for one more: it connects without
   leaving the critical section. *)
AllocGrows(t) ==
  /\ Enters(t) /\ v_db = <<>> /\ g_nCurrentLinkNumber < DB_LINK_MAX
  /\ cs_db' = t
  /\ pc' = [pc EXCEPT ![t] = "grow"]
  /\ UNCHANGED <<v_db, g_nCurrentLinkNumber, nInit, link>>

Grown(t) ==
  /\ pc[t] = "grow"
  /\ cs_db' = None
  /\ \E connected \in BOOLEAN, err \in {0, 1} :
       LET l == db_connect(connected, err) IN
       /\ link' = [link EXCEPT ![t] = l]
       /\ IF l = None
          THEN pc' = [pc EXCEPT ![t] = "noLink"] /\ UNCHANGED g_nCurrentLinkNumber
          ELSE /\ pc' = [pc EXCEPT ![t] = "using"]
               /\ g_nCurrentLinkNumber' = g_nCurrentLinkNumber + 1
  /\ UNCHANGED <<v_db, nInit>>

(* Neither an idle link nor room: NULL at once. *)
AllocExhausted(t) ==
  /\ Enters(t) /\ v_db = <<>> /\ g_nCurrentLinkNumber >= DB_LINK_MAX
  /\ pc' = [pc EXCEPT ![t] = "noLink"]
  /\ UNCHANGED <<v_db, g_nCurrentLinkNumber, cs_db, nInit, link>>

(* The most recently freed link is taken and, outside the critical section,
   pinged. *)
AllocTakes(t) ==
  /\ Enters(t) /\ v_db # <<>>
  /\ link' = [link EXCEPT ![t] = v_db[Len(v_db)]]
  /\ v_db' = SubSeq(v_db, 1, Len(v_db) - 1)
  /\ pc' = [pc EXCEPT ![t] = "ping"]
  /\ UNCHANGED <<g_nCurrentLinkNumber, cs_db, nInit>>

PingSucceeds(t) ==
  /\ pc[t] = "ping"
  /\ pc' = [pc EXCEPT ![t] = "using"]
  /\ UNCHANGED <<v_db, g_nCurrentLinkNumber, cs_db, nInit, link>>

(* mysql_close, then a new connection is tried in place of the dead one. *)
PingFails(t) ==
  /\ pc[t] = "ping"
  /\ pc' = [pc EXCEPT ![t] = "reconnect"]
  /\ link' = [link EXCEPT ![t] = None]
  /\ UNCHANGED <<v_db, g_nCurrentLinkNumber, cs_db, nInit>>

(* The outcome of that connection. *)
Reconnect(t) ==
  /\ pc[t] = "reconnect"
  /\ \E connected \in BOOLEAN, err \in {0, 1} :
       LET l == db_connect(connected, err) IN
       /\ link' = [link EXCEPT ![t] = l]
       /\ pc' = [pc EXCEPT ![t] = IF l = None THEN "uncount" ELSE "using"]
  /\ UNCHANGED <<v_db, g_nCurrentLinkNumber, cs_db, nInit>>

(* Uncount forgotten: the dead link is counted for ever. *)
UncountForgotten(t) ==
  /\ pc[t] = "uncount" /\ cs_db = None
  /\ pc' = [pc EXCEPT ![t] = "noLink"]
  /\ UNCHANGED <<v_db, g_nCurrentLinkNumber, cs_db, nInit, link>>

(* The dead link is counted out, in the critical section again. *)
Uncount(t) ==
  /\ pc[t] = "uncount" /\ cs_db = None
  /\ g_nCurrentLinkNumber' = g_nCurrentLinkNumber - 1
  /\ pc' = [pc EXCEPT ![t] = "noLink"]
  /\ UNCHANGED <<v_db, cs_db, nInit, link>>

db_free(t) ==
  /\ pc[t] = "using" /\ cs_db = None
  /\ v_db' = Append(v_db, link[t])
  /\ link' = [link EXCEPT ![t] = None]
  /\ pc' = [pc EXCEPT ![t] = "idle"]
  /\ UNCHANGED <<g_nCurrentLinkNumber, cs_db, nInit>>

(* A caller that got NULL does without, and may try again. *)
DoWithout(t) ==
  /\ pc[t] = "noLink"
  /\ pc' = [pc EXCEPT ![t] = "idle"]
  /\ UNCHANGED <<v_db, g_nCurrentLinkNumber, cs_db, nInit, link>>

ThreadStep(t) ==
  \/ AllocGrows(t) \/ Grown(t) \/ AllocExhausted(t) \/ AllocTakes(t)
  \/ PingSucceeds(t) \/ PingFails(t) \/ Reconnect(t) \/ Uncount(t)
  \/ db_free(t) \/ DoWithout(t)

DbNext == db_init \/ \E t \in Threads : ThreadStep(t)

DbSpec == DbInit /\ [][DbNext]_dbVars

-----------------------------------------------------------------------------
DbTypeOK ==
  /\ v_db \in Seq(Links)
  /\ g_nCurrentLinkNumber \in Int
  /\ cs_db \in Threads \cup {None}
  /\ nInit \in 0..DB_LINK_MIN
  /\ pc \in [Threads -> DbPCs]
  /\ link \in [Threads -> Links \cup {None}]

(* The threads that have taken a link that g_nCurrentLinkNumber counts. *)
Owners == { t \in Threads : pc[t] \in {"ping", "reconnect", "uncount", "using"} }

(* g_nCurrentLinkNumber counts the idle links and those in the hands of
   threads, dead ones that are being replaced included: no order of
   concurrent db_alloc and db_free, and no failed reconnect, makes it drift. *)
LinksAccounted == g_nCurrentLinkNumber = Len(v_db) + Cardinality(Owners)

(* However many threads find the pool empty at once, there are never more
   than DB_LINK_MAX links: test, connect and count are one critical section. *)
NeverTooManyLinks == Len(v_db) + Cardinality(Owners) <= DB_LINK_MAX

(* What db_alloc hands out is usable: it is set to the character set the
   program works in. db_connect keeps only links where that failed. *)
LinkUsable == \A t \in Threads : pc[t] = "using" => link[t] = "gbk"
=============================================================================
