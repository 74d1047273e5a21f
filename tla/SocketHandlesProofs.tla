------------------------ MODULE SocketHandlesProofs ------------------------
(***************************************************************************)
(* Theorems about socket handles, for any number of connections and of     *)
(* handle values: no open socket is ever lost, and for a connection that   *)
(* was not harmed, by an early close under one of its handlers, by         *)
(* CheckNCData or by a thread of another harmed connection, a handle that  *)
(* its threads hold and the handle that it has stand for its own socket.   *)
(*                                                                         *)
(* HandleInv is the invariant.  Its core is what the reference count buys: *)
(* the thread that closes and frees a RECV_SOCK is alone with it (RefOK),  *)
(* so that between reading a handle and closing it nobody but main's sweep *)
(* or the parser can have given the number back, and only main, which is   *)
(* busy while it sweeps, can have opened a socket with it again.           *)
(***************************************************************************)
EXTENDS SocketHandles, TLAPS

Values == Handles \cup {INVALID_SOCKET}

\* A worker that has a reference, and one that has dropped the last one.
Holding == {"run", "damaged", "mark", "use", "posted", "drop"}
Ending == {"test", "close", "write", "free"}
PCs == Holding \cup Ending \cup {"idle", "found"}

HandleTypes ==
  /\ phase \in [Conns -> {"free", "accept", "session"}]
  /\ sock \in [Conns -> Values]
  /\ nRef \in [Conns -> Nat]
  /\ owner \in [Handles -> Conns \cup {INVALID_SOCKET}]
  /\ thr \in [Threads -> [pc : PCs, h : Values]]
  /\ swept \in Conns

(* The reference count of c and the workers that hold a reference; the one
   that frees c is alone. *)
RefOK(c) ==
  LET rx == thr[<<c, "rx">>].pc
      tx == thr[<<c, "tx">>].pc
  IN  /\ phase[c] # "session" => rx = "idle" /\ tx = "idle"
      /\ phase[c] = "accept" => nRef[c] = 1
      /\ phase[c] = "session" =>
           \/ rx \in Holding /\ tx \in Holding /\ nRef[c] = 2
           \/ rx \in Holding /\ tx = "idle" /\ nRef[c] = 1
           \/ rx = "idle" /\ tx \in Holding /\ nRef[c] = 1
           \/ rx \in Ending /\ tx = "idle"
           \/ rx = "idle" /\ tx \in Ending

(* Which steps a thread takes. *)
PlaceOK(t) ==
  /\ thr[t].h # INVALID_SOCKET => thr[t].pc \in {"use", "damaged", "close"}
  /\ t = Main => thr[t].pc \in {"idle", "found", "close", "write"}
  /\ t \in Workers => thr[t].pc # "found"
  /\ t \in Workers /\ thr[t].pc \in {"damaged", "mark"} => t[2] = "rx"

(* Before a close the connection still has the handle that was read, or none;
   after it no socket is the connection's; a RECV_SOCK that is about to be
   freed has no handle. *)
CloseOK(t) ==
  /\ thr[t].pc \in {"close", "damaged"} => sock[Conn(t)] \in {thr[t].h, INVALID_SOCKET}
  /\ thr[t].pc \in {"write", "mark"} => \A h \in Handles : owner[h] # Conn(t)
  /\ t \in Workers /\ thr[t].pc = "free" => sock[t[1]] = INVALID_SOCKET

(* HandleStaysOurs for one thread: what it has read is what the connection
   has, and is the connection's. *)
OursOK(t) ==
  thr[t].h # INVALID_SOCKET => thr[t].h = sock[Conn(t)] /\ owner[thr[t].h] = Conn(t)

(* SocketStaysOpen for one connection. *)
OpenOK(c) ==
  phase[c] # "free" /\ sock[c] # INVALID_SOCKET =>
    \/ owner[sock[c]] = c
    \/ \E t \in Threads : Conn(t) = c /\ thr[t].pc \in {"write", "mark"}

(* What holds of a connection that nobody harmed. *)
SoundOK(c) ==
  /\ ~OverlapAt(c)
  /\ \A t \in Threads : Conn(t) = c => OursOK(t)
  /\ OpenOK(c)

HandleInv ==
  /\ HandleTypes
  /\ \A c \in Conns : RefOK(c)
  /\ \A c \in Conns : phase[c] = "free" => sock[c] = INVALID_SOCKET
  /\ \A t \in Threads : PlaceOK(t) /\ CloseOK(t)
  /\ NoSocketLost
  /\ \A c \in Conns : c \notin hurt => SoundOK(c)

-----------------------------------------------------------------------------
(* Threads. *)

(* A worker is a connection and one of its two roles; main is no worker. *)
LEMMA WorkerIs ==
  ASSUME NEW t \in Workers
  PROVE  /\ t \in Threads /\ t # Main
         /\ t[1] \in Conns /\ (t[2] = "rx" \/ t[2] = "tx") /\ t = <<t[1], t[2]>>
         /\ Conn(t) = t[1] /\ Conn(t)' = t[1]
  BY HandleAssumption DEF Workers, Threads, Conn

(* Both roles of a connection are workers. *)
LEMMA RolesAre ==
  ASSUME NEW c \in Conns
  PROVE  <<c, "rx">> \in Workers /\ <<c, "tx">> \in Workers
  BY DEF Workers

(* main works on the connection its sweep has reached. *)
LEMMA MainIs == Main \in Threads /\ Conn(Main) = swept /\ Conn(Main)' = swept'
  BY DEF Threads, Conn

(* There is nobody else. *)
LEMMA ThreadIs ==
  ASSUME NEW t \in Threads
  PROVE  t = Main \/ t \in Workers
  BY DEF Threads

(* A thread's connection is one. *)
LEMMA ConnIs ==
  ASSUME HandleTypes, NEW t \in Threads
  PROVE  Conn(t) \in Conns
  BY ThreadIs, WorkerIs, MainIs DEF HandleTypes

(* A worker that is not idle has its connection in a session. *)
LEMMA BusyInSession ==
  ASSUME HandleInv, NEW t \in Workers, thr[t].pc # "idle"
  PROVE  phase[t[1]] = "session"
<1>1. t[1] \in Conns /\ (t = <<t[1], "rx">> \/ t = <<t[1], "tx">>)  BY WorkerIs
<1>2. RefOK(t[1])  BY <1>1 DEF HandleInv
<1> QED BY <1>1, <1>2 DEF RefOK

(* What the absence of an overlap means. *)
LEMMA CalmIs ==
  ASSUME HandleInv, NEW c \in Conns, c \notin hurt
  PROVE  /\ thr[Main].pc # "idle" /\ swept = c => phase[c] = "accept"
         /\ thr[<<c, "rx">>].pc \in {"damaged", "mark"} =>
              thr[<<c, "tx">>].pc \in {"idle", "posted"}
<1>1. ~OverlapAt(c)  BY DEF HandleInv, SoundOK
<1>2. thr[Main].pc # "idle" /\ swept = c => phase[c] = "accept"  BY <1>1 DEF OverlapAt
<1>3. ASSUME thr[<<c, "rx">>].pc \in {"damaged", "mark"}
      PROVE  thr[<<c, "tx">>].pc \in {"idle", "posted"}
  <2>1. Busy(c) = {}  BY <1>1, <1>3 DEF OverlapAt
  <2>2. thr[<<c, "tx">>].pc \in {"idle", "posted", "damaged", "mark"}  BY <2>1 DEF Busy
  <2>3. <<c, "tx">> \in Workers /\ <<c, "tx">> \in Threads  BY RolesAre, WorkerIs
  <2>4. PlaceOK(<<c, "tx">>)  BY <2>3 DEF HandleInv
  <2>5. <<c, "tx">>[2] = "tx"  OBVIOUS
  <2>6. thr[<<c, "tx">>].pc \notin {"damaged", "mark"}  BY <2>3, <2>4, <2>5 DEF PlaceOK
  <2> QED BY <2>2, <2>6
<1> QED BY <1>2, <1>3

(* In a sound connection a thread that closes a socket or is about to write
   INVALID_SOCKET is the only one inside a handler. *)
LEMMA CloserIsAlone ==
  ASSUME HandleInv, NEW t \in Threads, NEW u \in Threads, t # u, Conn(t) = Conn(u),
         Conn(t) \notin hurt, thr[t].pc \in {"close", "damaged", "write", "mark"}
  PROVE  thr[u].pc \in {"idle", "posted"}
<1>1. PICK c \in Conns : c = Conn(t) /\ c = Conn(u) /\ c \notin hurt
  BY ConnIs DEF HandleInv
<1>2. CASE t = Main
  <2>1. swept = c /\ phase[c] = "accept"  BY <1>1, <1>2, MainIs, CalmIs
  <2>2. u \in Workers /\ u[1] = c  BY <1>1, <1>2, ThreadIs, WorkerIs
  <2> QED BY <2>1, <2>2, BusyInSession
<1>3. CASE t \in Workers
  <2>1. phase[c] = "session" /\ t[1] = c  BY <1>1, <1>3, WorkerIs, BusyInSession
  <2>2. CASE u = Main
    <3>1. swept = c  BY <1>1, <2>2, MainIs
    <3> QED BY <1>1, <2>1, <2>2, <3>1, CalmIs
  <2>3. CASE u \in Workers
    <3>1. u[1] = c  BY <1>1, <2>3, WorkerIs
    <3>2. \/ t = <<c, "rx">> /\ u = <<c, "tx">>
          \/ t = <<c, "tx">> /\ u = <<c, "rx">>
      BY <1>3, <2>1, <2>3, <3>1, WorkerIs
    <3>3. RefOK(c) /\ phase[c] = "session"  BY <2>1 DEF HandleInv
    <3>4. CASE thr[t].pc \in {"close", "write"}
      BY <3>2, <3>3, <3>4 DEF RefOK, Holding, Ending
    <3>5. CASE thr[t].pc \in {"damaged", "mark"}
      <4>1. t[2] = "rx"  BY <1>3, <3>5 DEF HandleInv, PlaceOK
      <4>2. t = <<c, "rx">> /\ u = <<c, "tx">>  BY <3>2, <4>1
      <4> QED BY <1>1, <3>5, <4>2, CalmIs
    <3> QED BY <3>4, <3>5
  <2> QED BY <2>2, <2>3, ThreadIs
<1> QED BY <1>2, <1>3, ThreadIs

(* The handle that a running handler, the last worker or the sweep of a sound
   connection reads is the connection's own socket. *)
LEMMA ReadsOurs ==
  ASSUME HandleInv, NEW t \in Threads, NEW c \in Conns, c = Conn(t), c \notin hurt,
         thr[t].pc \in {"run", "test", "found"}, sock[c] # INVALID_SOCKET
  PROVE  owner[sock[c]] = c
<1>1. phase[c] # "free"
  <2>1. CASE t = Main  BY <2>1, CalmIs, MainIs
  <2>2. CASE t \in Workers  BY <2>2, BusyInSession, WorkerIs
  <2> QED BY <2>1, <2>2, ThreadIs
<1>2. OpenOK(c)  BY DEF HandleInv, SoundOK
<1>3. ASSUME NEW u \in Threads, Conn(u) = c, thr[u].pc \in {"write", "mark"}
      PROVE  FALSE
  <2>1. u # t  BY <1>3
  <2>2. thr[t].pc \in {"idle", "posted"}  BY <1>3, <2>1, CloserIsAlone
  <2> QED BY <2>2
<1> QED BY <1>1, <1>2, <1>3 DEF OpenOK

-----------------------------------------------------------------------------
(* Reference counts. *)
SameClass(t) ==
  /\ thr'[t].pc = "idle" <=> thr[t].pc = "idle"
  /\ thr'[t].pc \in Holding <=> thr[t].pc \in Holding
  /\ thr'[t].pc \in Ending <=> thr[t].pc \in Ending

(* What is said of a reference count stays true when its holders stay. *)
LEMMA RefSame ==
  ASSUME NEW c \in Conns, RefOK(c), phase'[c] = phase[c], nRef'[c] = nRef[c],
         SameClass(<<c, "rx">>), SameClass(<<c, "tx">>)
  PROVE  RefOK(c)'
  BY DEF RefOK, SameClass

(* A step of a worker concerns its own connection ... *)
LEMMA RefWorker ==
  ASSUME HandleInv, NEW t \in Workers, NEW v, thr' = [thr EXCEPT ![t] = v],
         \A d \in Conns : d # t[1] => phase'[d] = phase[d] /\ nRef'[d] = nRef[d],
         RefOK(t[1])'
  PROVE  \A c \in Conns : RefOK(c)'
<1> SUFFICES ASSUME NEW c \in Conns, c # t[1] PROVE RefOK(c)'
  OBVIOUS
<1>1. t # <<c, "rx">> /\ t # <<c, "tx">>  OBVIOUS
<1>2. <<c, "rx">> \in Threads /\ <<c, "tx">> \in Threads  BY RolesAre, WorkerIs
<1>3. SameClass(<<c, "rx">>) /\ SameClass(<<c, "tx">>)
  BY <1>1, <1>2 DEF SameClass, HandleInv, HandleTypes
<1>4. RefOK(c)  BY DEF HandleInv
<1> QED BY <1>3, <1>4, RefSame

(* ... and those that neither take nor drop a reference keep the count. *)
LEMMA RefMoves ==
  ASSUME HandleInv, NEW t \in Threads, NEW v, thr' = [thr EXCEPT ![t] = v],
         phase' = phase, nRef' = nRef, t # Main => SameClass(t)
  PROVE  \A c \in Conns : RefOK(c)'
<1> SUFFICES ASSUME NEW c \in Conns PROVE RefOK(c)'
  OBVIOUS
<1>1. \A u \in Workers : u # t => SameClass(u)
  BY WorkerIs DEF SameClass, HandleInv, HandleTypes
<1>2. SameClass(<<c, "rx">>) /\ SameClass(<<c, "tx">>)
  BY <1>1, RolesAre, WorkerIs
<1>3. RefOK(c)  BY DEF HandleInv
<1> QED BY <1>2, <1>3, RefSame

-----------------------------------------------------------------------------
(* A sound connection was sound before, unless it is a new one, ... *)
LEMMA HurtGrows ==
  ASSUME Harms, NEW c \in Conns, c \notin hurt', phase[c] = "free" => phase'[c] = "free"
  PROVE  c \notin hurt /\ ~OverlapAt(c)'
  BY DEF Harms

(* ... and has lost no socket but to a thread of a sound connection. *)
LEMMA NotRobbed ==
  ASSUME Harms, phase' = phase, \A t \in Threads : thr'[t] # thr[t] => Conn(t) \in hurt,
         NEW c \in Conns, c \notin hurt', NEW h \in Handles, owner[h] = c
  PROVE  owner'[h] = c
  BY DEF Harms, Robbed

(* Steps of one thread that leave sockets alone. *)
LEMMA QuietStep ==
  ASSUME HandleInv, NEW t0 \in Threads, NEW v \in [pc : PCs, h : Values],
         thr' = [thr EXCEPT ![t0] = v], thr[t0].pc \notin {"write", "mark"},
         owner' = owner, sock' = sock, swept' = swept \/ t0 = Main,
         HandleTypes', \A c \in Conns : RefOK(c)',
         \A c \in Conns : phase[c] = "free" => phase'[c] = "free",
         \A c \in Conns : phase'[c] = "free" => sock[c] = INVALID_SOCKET,
         PlaceOK(t0)', CloseOK(t0)', Harms,
         (Conn(t0) \notin hurt)' => OursOK(t0)'
  PROVE  HandleInv'
<1>1. \A u \in Threads : u # t0 => thr'[u] = thr[u] /\ Conn(u)' = Conn(u)
  <2> SUFFICES ASSUME NEW u \in Threads, u # t0 PROVE thr'[u] = thr[u] /\ Conn(u)' = Conn(u)
    OBVIOUS
  <2>1. thr'[u] = thr[u]  BY DEF HandleInv, HandleTypes
  <2>2. Conn(u)' = Conn(u)  BY DEF Conn
  <2> QED BY <2>1, <2>2
<1>2. ASSUME NEW u \in Threads, u # t0 PROVE PlaceOK(u)' /\ CloseOK(u)'
  <2>1. PlaceOK(u) /\ CloseOK(u)  BY DEF HandleInv
  <2>2. thr'[u] = thr[u] /\ Conn(u)' = Conn(u)  BY <1>1, <1>2
  <2>3. PlaceOK(u)'  BY <2>1, <2>2 DEF PlaceOK
  <2>4. CloseOK(u)'  BY <2>1, <2>2 DEF CloseOK
  <2> QED BY <2>3, <2>4
<1>3. NoSocketLost'
  <2> SUFFICES ASSUME NEW h \in Handles, owner[h] # INVALID_SOCKET
               PROVE  sock[owner[h]] = h /\ phase'[owner[h]] # "free"
    BY DEF NoSocketLost
  <2>1. sock[owner[h]] = h /\ owner[h] \in Conns
    BY DEF HandleInv, NoSocketLost, HandleTypes
  <2>2. h # INVALID_SOCKET  BY HandleAssumption
  <2> QED BY <2>1, <2>2
<1>4. ASSUME NEW c \in Conns, c \notin hurt' PROVE SoundOK(c)'
  <2>1. c \notin hurt /\ ~OverlapAt(c)'  BY <1>4, HurtGrows
  <2>2. SoundOK(c)  BY <2>1 DEF HandleInv
  <2>3. ASSUME NEW u \in Threads, Conn(u)' = c PROVE OursOK(u)'
    <3>1. CASE u = t0  BY <1>4, <2>3, <3>1
    <3>2. CASE u # t0
      <4>1. thr'[u] = thr[u] /\ Conn(u)' = Conn(u)  BY <1>1, <3>2
      <4>2. OursOK(u)  BY <2>2, <2>3, <4>1 DEF SoundOK
      <4> QED BY <4>1, <4>2 DEF OursOK
    <3> QED BY <3>1, <3>2
  <2>4. OpenOK(c)'
    <3>1. OpenOK(c)  BY <2>2 DEF SoundOK
    <3>2. \A u \in Threads : Conn(u) = c /\ thr[u].pc \in {"write", "mark"} =>
                               Conn(u)' = c /\ thr'[u].pc \in {"write", "mark"}
      BY <1>1
    <3> QED BY <3>1, <3>2 DEF OpenOK
  <2> QED BY <2>1, <2>3, <2>4 DEF SoundOK
<1>5. \A u \in Threads : PlaceOK(u)' /\ CloseOK(u)'  BY <1>2
<1>6. \A c \in Conns : phase'[c] = "free" => sock'[c] = INVALID_SOCKET  OBVIOUS
<1> QED BY <1>3, <1>4, <1>5, <1>6 DEF HandleInv

-----------------------------------------------------------------------------
(* The values that threads take. *)
LEMMA AtIs ==
  ASSUME NEW pc \in PCs
  PROVE  /\ At(pc) \in [pc : PCs, h : Values]
         /\ At(pc).pc = pc /\ At(pc).h = INVALID_SOCKET
  BY DEF At, Values

(* A step of a thread that reads no handle, and is not about to free. *)
LEMMA GoesStep ==
  ASSUME HandleInv, NEW t \in Threads, NEW pc \in PCs, Goes(t, pc),
         thr[t].pc \notin {"write", "mark"},
         pc \notin {"close", "damaged", "write", "mark"},
         t = Main => pc \in {"idle", "found"},
         t # Main => pc # "found" /\ (pc = "free" => sock[t[1]] = INVALID_SOCKET),
         owner' = owner, sock' = sock, swept' = swept \/ t = Main, swept' \in Conns,
         phase' \in [Conns -> {"free", "accept", "session"}], nRef' \in [Conns -> Nat],
         \A c \in Conns : RefOK(c)',
         \A c \in Conns : phase[c] = "free" => phase'[c] = "free",
         \A c \in Conns : phase'[c] = "free" => sock[c] = INVALID_SOCKET,
         Harms
  PROVE  HandleInv'
<1>1. PICK v \in [pc : PCs, h : Values] : v = At(pc) /\ v.pc = pc /\ v.h = INVALID_SOCKET
  BY AtIs
<1>2. thr' = [thr EXCEPT ![t] = v]  BY <1>1 DEF Goes
<1>3. HandleTypes /\ HandleTypes'
  BY <1>2 DEF HandleInv, HandleTypes
<1>4. thr'[t].pc = pc /\ thr'[t].h = INVALID_SOCKET  BY <1>1, <1>2, <1>3 DEF HandleTypes
<1>5. PlaceOK(t)'
  <2>1. t \in Workers => t # Main  BY WorkerIs
  <2> QED BY <1>4, <2>1 DEF PlaceOK
<1>6. CloseOK(t)'
  <2>1. t \in Workers => t # Main  BY WorkerIs
  <2> QED BY <1>4, <2>1 DEF CloseOK
<1>7. OursOK(t)'  BY <1>4 DEF OursOK
<1> QED BY <1>2, <1>3, <1>5, <1>6, <1>7, QuietStep

(* A thread reads the handle of its connection. *)
LEMMA ReadsStep ==
  ASSUME HandleInv, NEW t \in Threads, NEW c \in Conns, c = Conn(t), NEW pc,
         Reads(t, c, pc), thr[t].pc \in {"run", "test", "found"},
         pc \in {"use", "damaged", "close"},
         t = Main => pc = "close",
         t # Main => SameClass(t) /\ (pc = "damaged" => t[2] = "rx"),
         UNCHANGED <<phase, nRef, sock, owner, swept>>,
         Harms
  PROVE  HandleInv'
<1>1. HandleTypes  BY DEF HandleInv
<1>2. sock[c] \in Values /\ pc \in PCs  BY <1>1 DEF HandleTypes, PCs, Holding, Ending
<1>3. PICK v \in [pc : PCs, h : Values] :
        v = [pc |-> pc, h |-> sock[c]] /\ v.pc = pc /\ v.h = sock[c]
  <2>1. [pc |-> pc, h |-> sock[c]] \in [pc : PCs, h : Values]  BY <1>2
  <2> QED BY <2>1
<1>4. thr' = [thr EXCEPT ![t] = v]  BY <1>3 DEF Reads
<1>5. HandleTypes'  BY <1>1, <1>4 DEF HandleTypes
<1>6. thr'[t].pc = pc /\ thr'[t].h = sock[c]  BY <1>1, <1>3, <1>4 DEF HandleTypes
<1>7. Conn(t)' = c  BY DEF Conn
<1>8. t \in Workers => t # Main  BY WorkerIs
<1>9. PlaceOK(t)'  BY <1>6, <1>8 DEF PlaceOK
<1>10. CloseOK(t)'  BY <1>6, <1>7 DEF CloseOK
<1>11. ASSUME c \notin hurt' PROVE OursOK(t)'
  <2>1. c \notin hurt  BY <1>11, HurtGrows
  <2>2. sock[c] # INVALID_SOCKET => owner[sock[c]] = c  BY <2>1, ReadsOurs
  <2> QED BY <1>6, <1>7, <2>2 DEF OursOK
<1>12. \A d \in Conns : RefOK(d)'  BY <1>4, RefMoves
<1>13. \A d \in Conns : phase'[d] = "free" => sock[d] = INVALID_SOCKET  BY DEF HandleInv
<1> QED BY <1>4, <1>5, <1>7, <1>9, <1>10, <1>11, <1>12, <1>13, QuietStep

-----------------------------------------------------------------------------
(* closesocket. No socket of the connection is left, since the one it has is
   the one that is closed; and nobody else loses a socket, unless an early
   close overlapped with a handler. *)
LEMMA ClosesStep ==
  ASSUME HandleInv, NEW t \in Threads, NEW pc, Closes(t, pc),
         \/ thr[t].pc = "close" /\ pc = "write"
         \/ thr[t].pc = "damaged" /\ pc = "mark",
         UNCHANGED <<phase, nRef, sock, swept>>,
         Harms
  PROVE  HandleInv'
<1>1. HandleTypes /\ PlaceOK(t) /\ CloseOK(t)  BY DEF HandleInv
<1>2. PICK h0 \in Values : h0 = thr[t].h  BY <1>1 DEF HandleTypes
<1>3. owner' = [h \in Handles |-> IF h = h0 THEN INVALID_SOCKET ELSE owner[h]]
  BY <1>2 DEF Closes
<1>4. pc \in PCs  BY DEF PCs, Holding, Ending
<1>5. PICK v \in [pc : PCs, h : Values] : v = At(pc) /\ v.pc = pc /\ v.h = INVALID_SOCKET
  BY <1>4, AtIs
<1>6. thr' = [thr EXCEPT ![t] = v]  BY <1>5 DEF Closes, Goes
<1>7. HandleTypes'  BY <1>1, <1>3, <1>6 DEF HandleTypes
<1>8. thr'[t].pc = pc /\ thr'[t].h = INVALID_SOCKET  BY <1>1, <1>5, <1>6 DEF HandleTypes
<1>9. \A u \in Threads : u # t => thr'[u] = thr[u]  BY <1>1, <1>6 DEF HandleTypes
<1>10. \A u : Conn(u)' = Conn(u)  BY DEF Conn
<1>11. t # Main => SameClass(t)  BY <1>8 DEF SameClass, Holding, Ending
<1>12. \A c \in Conns : RefOK(c)'  BY <1>6, <1>11, RefMoves
<1>13. Conn(t) \in Conns /\ INVALID_SOCKET \notin Handles /\ INVALID_SOCKET \notin Conns
  BY <1>1, ThreadIs, WorkerIs, MainIs, HandleAssumption DEF HandleTypes
<1>14. \A h \in Handles : owner'[h] # Conn(t)
  <2> SUFFICES ASSUME NEW h \in Handles, owner[h] = Conn(t) PROVE h = h0
    BY <1>3, <1>13
  <2>1. sock[Conn(t)] = h  BY <1>13 DEF HandleInv, NoSocketLost
  <2> QED BY <1>1, <1>2, <1>13, <2>1 DEF CloseOK
<1>15. ASSUME NEW u \in Threads PROVE PlaceOK(u)' /\ CloseOK(u)'
  <2>1. CASE u = t
    <3>1. PlaceOK(t)'  BY <1>1, <1>8 DEF PlaceOK
    <3>2. CloseOK(t)'  BY <1>8, <1>10, <1>14 DEF CloseOK
    <3> QED BY <2>1, <3>1, <3>2
  <2>2. CASE u # t
    <3>1. PlaceOK(u) /\ CloseOK(u) /\ thr'[u] = thr[u]  BY <1>9, <2>2 DEF HandleInv
    <3>2. Conn(u) \in Conns
      BY <1>1, ThreadIs, WorkerIs, MainIs DEF HandleTypes
    <3>3. PlaceOK(u)'  BY <3>1 DEF PlaceOK
    <3>4. \A h \in Handles : owner[h] # Conn(u) => owner'[h] # Conn(u)
      BY <1>3, <1>13, <3>2
    <3>5. CloseOK(u)'  BY <1>10, <3>1, <3>4 DEF CloseOK
    <3> QED BY <3>3, <3>5
  <2> QED BY <2>1, <2>2
<1>16. NoSocketLost'  BY <1>3 DEF HandleInv, NoSocketLost
<1>17. ASSUME NEW c \in Conns, c \notin hurt' PROVE SoundOK(c)'
  <2>1. c \notin hurt /\ ~OverlapAt(c)'  BY <1>17, HurtGrows
  <2>2. SoundOK(c)  BY <2>1 DEF HandleInv
  <2>3. ASSUME NEW h \in Handles, owner[h] = c, owner'[h] # c PROVE c = Conn(t)
    <3>1. CASE Conn(t) \in hurt
      <4>1. \A u \in Threads : thr'[u] # thr[u] => Conn(u) \in hurt  BY <1>9, <3>1
      <4> QED BY <1>17, <2>3, <4>1, NotRobbed
    <3>2. CASE Conn(t) \notin hurt
      <4>1. OursOK(t)  BY <1>13, <3>2 DEF HandleInv, SoundOK
      <4>2. h = h0  BY <1>3, <2>3
      <4>3. owner[h0] = Conn(t)  BY <1>2, <1>13, <4>1, <4>2 DEF OursOK
      <4> QED BY <2>3, <4>2, <4>3
    <3> QED BY <3>1, <3>2
  <2>4. ASSUME NEW u \in Threads, Conn(u)' = c PROVE OursOK(u)'
    <3>1. CASE u = t  BY <1>8, <3>1 DEF OursOK
    <3>2. CASE u # t
      <4>1. thr'[u] = thr[u] /\ Conn(u) = c  BY <1>9, <1>10, <2>4, <3>2
      <4>2. OursOK(u) /\ PlaceOK(u)  BY <2>2, <4>1 DEF SoundOK, HandleInv
      <4> SUFFICES ASSUME thr[u].h # INVALID_SOCKET
                   PROVE  thr[u].h = sock[c] /\ owner'[thr[u].h] = c
        BY <1>10, <4>1 DEF OursOK
      <4>3. thr[u].h = sock[c] /\ owner[thr[u].h] = c /\ thr[u].h \in Handles
        BY <1>1, <4>1, <4>2 DEF OursOK, HandleTypes, Values
      <4>4. ASSUME c = Conn(t) PROVE FALSE
        <5>1. thr[u].pc \in {"idle", "posted"}  BY <2>1, <3>2, <4>1, <4>4, CloserIsAlone
        <5> QED BY <4>2, <5>1 DEF PlaceOK
      <4> QED BY <2>3, <4>3, <4>4
    <3> QED BY <3>1, <3>2
  <2>5. OpenOK(c)'
    <3> SUFFICES ASSUME phase[c] # "free", sock[c] # INVALID_SOCKET
                 PROVE  \/ owner'[sock[c]] = c
                        \/ \E u \in Threads : Conn(u)' = c /\ thr'[u].pc \in {"write", "mark"}
      BY DEF OpenOK
    <3>1. OpenOK(c) /\ sock[c] \in Handles  BY <1>1, <2>2 DEF SoundOK, HandleTypes, Values
    <3>2. CASE owner[sock[c]] = c
      <4>1. owner'[sock[c]] = c \/ Conn(t)' = c  BY <1>10, <2>3, <3>1, <3>2
      <4> QED BY <1>8, <4>1
    <3>3. CASE \E u \in Threads : Conn(u) = c /\ thr[u].pc \in {"write", "mark"}
      <4>1. PICK u \in Threads : Conn(u) = c /\ thr[u].pc \in {"write", "mark"}  BY <3>3
      <4>2. u # t  BY <4>1
      <4> QED BY <1>9, <1>10, <4>1, <4>2
    <3> QED BY <3>1, <3>2, <3>3 DEF OpenOK
  <2> QED BY <2>1, <2>4, <2>5 DEF SoundOK
<1>18. \A c \in Conns : phase'[c] = "free" => sock'[c] = INVALID_SOCKET  BY DEF HandleInv
<1> QED BY <1>7, <1>12, <1>15, <1>16, <1>17, <1>18 DEF HandleInv

(* sock = INVALID_SOCKET: no socket is the connection's any more. *)
LEMMA InvalidatesStep ==
  ASSUME HandleInv, NEW t \in Threads, NEW c \in Conns, c = Conn(t), NEW pc,
         Invalidates(t, c, pc),
         \/ t = Main /\ thr[t].pc = "write" /\ pc = "idle"
         \/ t # Main /\ thr[t].pc = "write" /\ pc = "free"
         \/ t # Main /\ thr[t].pc = "mark" /\ pc = "run",
         UNCHANGED <<phase, nRef, owner, swept>>,
         Harms
  PROVE  HandleInv'
<1>1. HandleTypes /\ PlaceOK(t) /\ CloseOK(t)  BY DEF HandleInv
<1>2. sock' = [sock EXCEPT ![c] = INVALID_SOCKET]  BY DEF Invalidates
<1>3. pc \in PCs  BY DEF PCs, Holding, Ending
<1>4. PICK v \in [pc : PCs, h : Values] : v = At(pc) /\ v.pc = pc /\ v.h = INVALID_SOCKET
  BY <1>3, AtIs
<1>5. thr' = [thr EXCEPT ![t] = v]  BY <1>4 DEF Invalidates, Goes
<1>6. HandleTypes'  BY <1>1, <1>2, <1>5 DEF HandleTypes, Values
<1>7. thr'[t].pc = pc /\ thr'[t].h = INVALID_SOCKET  BY <1>1, <1>4, <1>5 DEF HandleTypes
<1>8. \A u \in Threads : u # t => thr'[u] = thr[u]  BY <1>1, <1>5 DEF HandleTypes
<1>9. \A u : Conn(u)' = Conn(u)  BY DEF Conn
<1>10. sock'[c] = INVALID_SOCKET /\ \A d \in Conns : d # c => sock'[d] = sock[d]
  BY <1>1, <1>2 DEF HandleTypes
<1>11. t # Main => SameClass(t)  BY <1>7 DEF SameClass, Holding, Ending
<1>12. \A d \in Conns : RefOK(d)'  BY <1>5, <1>11, RefMoves
<1>13. \A h \in Handles : owner[h] # c  BY <1>1 DEF CloseOK
<1>14. ASSUME NEW u \in Threads PROVE PlaceOK(u)' /\ CloseOK(u)'
  <2>1. CASE u = t
    <3>1. t \in Workers => t # Main /\ t[1] = c  BY WorkerIs
    <3>2. PlaceOK(t)'  BY <1>1, <1>7, <3>1 DEF PlaceOK
    <3>3. CloseOK(t)'  BY <1>7, <1>10, <3>1 DEF CloseOK
    <3> QED BY <2>1, <3>2, <3>3
  <2>2. CASE u # t
    <3>1. PlaceOK(u) /\ CloseOK(u) /\ thr'[u] = thr[u]  BY <1>8, <2>2 DEF HandleInv
    <3>2. Conn(u) \in Conns /\ (u \in Workers => u[1] \in Conns)
      BY <1>1, ThreadIs, WorkerIs, MainIs DEF HandleTypes
    <3>3. PlaceOK(u)'  BY <3>1 DEF PlaceOK
    <3>4. CloseOK(u)'  BY <1>9, <1>10, <3>1, <3>2 DEF CloseOK
    <3> QED BY <3>3, <3>4
  <2> QED BY <2>1, <2>2
<1>15. NoSocketLost'
  <2> SUFFICES ASSUME NEW h \in Handles, owner[h] # INVALID_SOCKET
               PROVE  sock'[owner[h]] = h /\ phase[owner[h]] # "free"
    BY DEF NoSocketLost
  <2>1. sock[owner[h]] = h /\ phase[owner[h]] # "free" /\ owner[h] \in Conns
    BY <1>1 DEF HandleInv, NoSocketLost, HandleTypes
  <2> QED BY <1>10, <1>13, <2>1
<1>16. ASSUME NEW d \in Conns, d \notin hurt' PROVE SoundOK(d)'
  <2>1. d \notin hurt /\ ~OverlapAt(d)'  BY <1>16, HurtGrows
  <2>2. SoundOK(d)  BY <2>1 DEF HandleInv
  <2>3. ASSUME NEW u \in Threads, Conn(u)' = d PROVE OursOK(u)'
    <3>1. CASE u = t  BY <1>7, <3>1 DEF OursOK
    <3>2. CASE u # t
      <4>1. thr'[u] = thr[u] /\ Conn(u) = d  BY <1>8, <1>9, <2>3, <3>2
      <4>2. OursOK(u)  BY <2>2, <4>1 DEF SoundOK
      <4>3. thr[u].h \in Values  BY <1>1 DEF HandleTypes
      <4>4. thr[u].h # INVALID_SOCKET => d # c
        BY <1>13, <4>1, <4>2, <4>3 DEF OursOK, Values
      <4> QED BY <1>9, <1>10, <4>1, <4>2, <4>4 DEF OursOK
    <3> QED BY <3>1, <3>2
  <2>4. OpenOK(d)'
    <3>1. CASE d = c  BY <1>10, <3>1 DEF OpenOK
    <3>2. CASE d # c
      <4>1. OpenOK(d)  BY <2>2 DEF SoundOK
      <4>2. sock'[d] = sock[d]  BY <1>10, <3>2
      <4>3. \A u \in Threads : Conn(u) = d => Conn(u)' = d /\ thr'[u] = thr[u]
        BY <1>8, <1>9, <3>2
      <4> QED BY <4>1, <4>2, <4>3 DEF OpenOK
    <3> QED BY <3>1, <3>2
  <2> QED BY <2>1, <2>3, <2>4 DEF SoundOK
<1>17. \A d \in Conns : phase'[d] = "free" => sock'[d] = INVALID_SOCKET
  BY <1>10 DEF HandleInv
<1> QED BY <1>6, <1>12, <1>14, <1>15, <1>16, <1>17 DEF HandleInv

-----------------------------------------------------------------------------
(* Client_PostAcceptEx: a socket is opened for a free RECV_SOCK, which has no
   handle and no thread; main itself is idle, so nobody has read the number
   that the socket gets. *)
LEMMA PostAcceptExStep ==
  ASSUME HandleInv, NEW c \in Conns, NEW h0 \in Handles, Client_PostAcceptEx(c, h0),
         Harms
  PROVE  HandleInv'
<1>1. HandleTypes  BY DEF HandleInv
<1>2. INVALID_SOCKET \notin Handles /\ INVALID_SOCKET \notin Conns  BY HandleAssumption
<1>3. phase[c] = "free" /\ thr[Main].pc = "idle" /\ thr' = thr /\ swept' = swept
  BY DEF Client_PostAcceptEx
<1>4. sock[c] = INVALID_SOCKET /\ owner[h0] = INVALID_SOCKET
  BY <1>2, <1>3 DEF HandleInv, Client_PostAcceptEx
<1>5. /\ phase' = [phase EXCEPT ![c] = "accept"]
      /\ nRef' = [nRef EXCEPT ![c] = 1]
      /\ sock' = [sock EXCEPT ![c] = h0]
  BY DEF Client_PostAcceptEx
<1>6. owner' = [owner EXCEPT ![h0] = c]
  <2>1. owner' = [g \in Handles |-> IF g = h0 THEN c
                                    ELSE IF g = sock[c] THEN INVALID_SOCKET ELSE owner[g]]
    BY DEF Client_PostAcceptEx
  <2>2. \A g \in Handles : g # sock[c]  BY <1>2, <1>4
  <2> QED BY <1>1, <2>1, <2>2 DEF HandleTypes
<1>7. HandleTypes'
  <2>1. h0 \in Values  BY DEF Values
  <2> QED BY <1>1, <1>3, <1>5, <1>6, <2>1 DEF HandleTypes
<1>8. phase'[c] = "accept" /\ nRef'[c] = 1 /\ sock'[c] = h0 /\ owner'[h0] = c
      /\ (\A d \in Conns : d # c => phase'[d] = phase[d] /\ nRef'[d] = nRef[d] /\ sock'[d] = sock[d])
      /\ (\A g \in Handles : g # h0 => owner'[g] = owner[g])
  BY <1>1, <1>5, <1>6 DEF HandleTypes
<1>9. \A d \in Conns : RefOK(d)'
  <2> SUFFICES ASSUME NEW d \in Conns PROVE RefOK(d)'  OBVIOUS
  <2>1. RefOK(d)  BY DEF HandleInv
  <2>2. CASE d = c  BY <1>3, <1>8, <2>1, <2>2 DEF RefOK
  <2>3. CASE d # c  BY <1>3, <1>8, <2>1, <2>3 DEF RefOK
  <2> QED BY <2>2, <2>3
<1>10. \A u \in Threads : Conn(u)' = Conn(u) /\ Conn(u) \in Conns
  <2>1. \A u \in Threads : Conn(u)' = Conn(u)  BY <1>3 DEF Conn
  <2>2. \A u \in Threads : Conn(u) \in Conns
    BY <1>1, ThreadIs, WorkerIs, MainIs DEF HandleTypes
  <2> QED BY <2>1, <2>2
<1>11. \A u \in Threads : thr[u].pc # "idle" => Conn(u) # c
  <2> SUFFICES ASSUME NEW u \in Threads, thr[u].pc # "idle" PROVE Conn(u) # c  OBVIOUS
  <2>1. u \in Workers  BY <1>3, ThreadIs
  <2>2. phase[u[1]] = "session" /\ Conn(u) = u[1]  BY <2>1, BusyInSession, WorkerIs
  <2> QED BY <1>3, <2>2
<1>12. ASSUME NEW u \in Threads PROVE PlaceOK(u)' /\ CloseOK(u)'
  <2>1. PlaceOK(u) /\ CloseOK(u)  BY DEF HandleInv
  <2>2. PlaceOK(u)'  BY <1>3, <2>1 DEF PlaceOK
  <2>3. CASE thr[u].pc = "idle"  BY <1>3, <2>2, <2>3 DEF CloseOK
  <2>4. CASE thr[u].pc # "idle"
    <3>1. Conn(u) # c /\ Conn(u) \in Conns /\ Conn(u)' = Conn(u) /\ sock'[Conn(u)] = sock[Conn(u)]
      BY <1>8, <1>10, <1>11, <2>4
    <3>2. u \in Workers => u[1] = Conn(u)  BY WorkerIs
    <3>3. \A g \in Handles : owner[g] # Conn(u) => owner'[g] # Conn(u)
      BY <1>8, <3>1
    <3> QED BY <1>3, <2>1, <2>2, <3>1, <3>2, <3>3 DEF CloseOK
  <2> QED BY <2>2, <2>3, <2>4
<1>13. NoSocketLost'
  <2> SUFFICES ASSUME NEW g \in Handles, owner'[g] # INVALID_SOCKET
               PROVE  sock'[owner'[g]] = g /\ phase'[owner'[g]] # "free"
    BY DEF NoSocketLost
  <2>1. CASE g = h0  BY <1>8, <2>1
  <2>2. CASE g # h0
    <3>1. owner'[g] = owner[g]  BY <1>8, <2>2
    <3>2. sock[owner[g]] = g /\ phase[owner[g]] # "free" /\ owner[g] \in Conns
      BY <1>1, <3>1 DEF HandleInv, NoSocketLost, HandleTypes
    <3>3. owner[g] # c  BY <1>3, <3>2
    <3> QED BY <1>8, <3>1, <3>2, <3>3
  <2> QED BY <2>1, <2>2
<1>14. ASSUME NEW d \in Conns, d \notin hurt', d # c PROVE SoundOK(d)'
  <2>1. phase'[d] = phase[d] /\ sock'[d] = sock[d] /\ sock[d] \in Values
    BY <1>1, <1>8, <1>14 DEF HandleTypes
  <2>2. d \notin hurt /\ ~OverlapAt(d)'  BY <1>14, <2>1, HurtGrows
  <2>3. SoundOK(d)  BY <2>2 DEF HandleInv
  <2>4. ASSUME NEW u \in Threads, Conn(u)' = d PROVE OursOK(u)'
    <3>1. Conn(u) = d  BY <1>10, <2>4
    <3>2. OursOK(u)  BY <2>3, <3>1 DEF SoundOK
    <3> SUFFICES ASSUME thr[u].h # INVALID_SOCKET
                 PROVE  thr[u].h = sock'[d] /\ owner'[thr[u].h] = d
      BY <1>3, <2>4 DEF OursOK
    <3>3. thr[u].h = sock[d] /\ owner[thr[u].h] = d /\ thr[u].h \in Handles
      BY <1>1, <3>1, <3>2 DEF OursOK, HandleTypes, Values
    <3>4. thr[u].h # h0  BY <1>2, <1>4, <3>3
    <3> QED BY <1>8, <2>1, <3>3, <3>4
  <2>5. OpenOK(d)'
    <3>1. OpenOK(d)  BY <2>3 DEF SoundOK
    <3> SUFFICES ASSUME phase[d] # "free", sock[d] # INVALID_SOCKET
                 PROVE  \/ owner'[sock[d]] = d
                        \/ \E u \in Threads : Conn(u)' = d /\ thr'[u].pc \in {"write", "mark"}
      BY <2>1 DEF OpenOK
    <3>2. CASE owner[sock[d]] = d
      <4>1. sock[d] # h0 /\ sock[d] \in Handles  BY <1>2, <1>4, <2>1, <3>2 DEF Values
      <4> QED BY <1>8, <3>2, <4>1
    <3>3. CASE \E u \in Threads : Conn(u) = d /\ thr[u].pc \in {"write", "mark"}
      BY <1>3, <1>10, <3>3
    <3> QED BY <3>1, <3>2, <3>3 DEF OpenOK
  <2> QED BY <2>2, <2>4, <2>5 DEF SoundOK
<1>16. c \notin hurt' => SoundOK(c)'
  <2> SUFFICES ASSUME c \notin hurt' PROVE SoundOK(c)'  OBVIOUS
  <2>1. ~OverlapAt(c)'  BY DEF Harms
  <2>2. ASSUME NEW u \in Threads, Conn(u)' = c PROVE OursOK(u)'
    <3>1. thr[u].pc = "idle" /\ PlaceOK(u)  BY <1>10, <1>11, <2>2 DEF HandleInv
    <3> QED BY <1>3, <3>1 DEF PlaceOK, OursOK
  <2>3. OpenOK(c)'  BY <1>8 DEF OpenOK
  <2> QED BY <2>1, <2>2, <2>3 DEF SoundOK
<1>15. \A d \in Conns : phase'[d] = "free" => sock'[d] = INVALID_SOCKET
  BY <1>8 DEF HandleInv
<1> QED BY <1>7, <1>9, <1>12, <1>13, <1>14, <1>15, <1>16 DEF HandleInv

(* CheckNCData closes a socket that none of its threads has read: the one that
   loses it is harmed. *)
LEMMA CloseByCountStep ==
  ASSUME HandleInv, NEW h0 \in Handles, CloseByCount(h0), Harms
  PROVE  HandleInv'
<1>1. HandleTypes /\ INVALID_SOCKET \notin Conns  BY HandleAssumption DEF HandleInv
<1>2. /\ owner' = [owner EXCEPT ![h0] = INVALID_SOCKET]
      /\ UNCHANGED <<phase, nRef, sock, thr, swept>>
  BY DEF CloseByCount, Held
<1>3. HandleTypes'  BY <1>1, <1>2 DEF HandleTypes
<1>4. \A h \in Handles : owner'[h] \in {owner[h], INVALID_SOCKET}
  BY <1>1, <1>2 DEF HandleTypes
<1>5. \A u \in Threads : Conn(u)' = Conn(u) /\ Conn(u) \in Conns
  <2>1. \A u : Conn(u)' = Conn(u)  BY <1>2 DEF Conn
  <2> QED BY <1>1, <2>1, ConnIs
<1>6. \A d \in Conns : RefOK(d)'  BY <1>2 DEF HandleInv, RefOK
<1>7. ASSUME NEW u \in Threads PROVE PlaceOK(u)' /\ CloseOK(u)'
  <2>1. PlaceOK(u) /\ CloseOK(u)  BY DEF HandleInv
  <2>2. PlaceOK(u)'  BY <1>2, <2>1 DEF PlaceOK
  <2>3. \A h \in Handles : owner[h] # Conn(u) => owner'[h] # Conn(u)  BY <1>1, <1>4, <1>5
  <2>4. CloseOK(u)'  BY <1>2, <1>5, <2>1, <2>3 DEF CloseOK
  <2> QED BY <2>2, <2>4
<1>8. NoSocketLost'  BY <1>2, <1>4 DEF HandleInv, NoSocketLost
<1>9. ASSUME NEW c \in Conns, c \notin hurt' PROVE SoundOK(c)'
  <2>1. c \notin hurt /\ ~OverlapAt(c)'  BY <1>2, <1>9, HurtGrows
  <2>2. SoundOK(c)  BY <2>1 DEF HandleInv
  <2>3. ASSUME NEW h \in Handles, owner[h] = c PROVE owner'[h] = c
    BY <1>2, <1>9, <2>3, NotRobbed
  <2>4. ASSUME NEW u \in Threads, Conn(u)' = c PROVE OursOK(u)'
    <3>1. OursOK(u) /\ Conn(u) = c  BY <1>5, <2>2, <2>4 DEF SoundOK
    <3>2. thr[u].h \in Values  BY <1>1 DEF HandleTypes
    <3> QED BY <1>2, <1>5, <2>3, <3>1, <3>2 DEF OursOK, Values
  <2>5. OpenOK(c)'
    <3>1. OpenOK(c) /\ sock[c] \in Values  BY <1>1, <2>2 DEF SoundOK, HandleTypes
    <3> QED BY <1>2, <1>5, <2>3, <3>1 DEF OpenOK, Values
  <2> QED BY <2>1, <2>4, <2>5 DEF SoundOK
<1>10. \A d \in Conns : phase'[d] = "free" => sock'[d] = INVALID_SOCKET
  BY <1>2 DEF HandleInv
<1> QED BY <1>3, <1>6, <1>7, <1>8, <1>9, <1>10 DEF HandleInv

-----------------------------------------------------------------------------
(* Main's sweep: no worker is concerned. *)
LEMMA SweepStep ==
  ASSUME HandleInv, Harms,
         (\E c \in Conns : SweepFinds(c)) \/ SweepReads \/ SweepCloses \/ SweepInvalidates
  PROVE  HandleInv'
<1>1. HandleTypes /\ Main \in Threads /\ Conn(Main) = swept  BY MainIs DEF HandleInv
<1>2. swept \in Conns  BY <1>1 DEF HandleTypes
<1>3. ASSUME NEW c \in Conns, SweepFinds(c) PROVE HandleInv'
  <2>1. /\ thr[Main].pc = "idle" /\ Goes(Main, "found") /\ swept' = c
        /\ UNCHANGED <<phase, nRef, sock, owner>>
    BY <1>3 DEF SweepFinds, Held
  <2>2. thr' = [thr EXCEPT ![Main] = At("found")]  BY <2>1 DEF Goes
  <2>3. \A d \in Conns : RefOK(d)'  BY <1>1, <2>1, <2>2, RefMoves
  <2>4. phase' \in [Conns -> {"free", "accept", "session"}] /\ nRef' \in [Conns -> Nat]
        /\ "found" \in PCs
    BY <1>1, <2>1 DEF HandleTypes, PCs
  <2>5. \A d \in Conns : phase'[d] = "free" => sock[d] = INVALID_SOCKET  BY <2>1 DEF HandleInv
  <2> QED BY <1>1, <2>1, <2>3, <2>4, <2>5, GoesStep
<1>4. CASE SweepReads
  <2>1. /\ thr[Main].pc = "found" /\ Reads(Main, swept, "close")
        /\ UNCHANGED <<phase, nRef, sock, owner, swept>>
    BY <1>4 DEF SweepReads, Held
  <2>2. PICK c \in Conns : c = swept  BY <1>2
  <2>3. c = Conn(Main) /\ Reads(Main, c, "close")  BY <1>1, <2>1, <2>2
  <2> QED BY <1>1, <2>1, <2>3, ReadsStep
<1>5. CASE SweepCloses
  <2>1. /\ thr[Main].pc = "close" /\ Closes(Main, "write")
        /\ UNCHANGED <<phase, nRef, sock, swept>>
    BY <1>5 DEF SweepCloses, Held
  <2> QED BY <1>1, <2>1, ClosesStep
<1>6. CASE SweepInvalidates
  <2>1. /\ thr[Main].pc = "write" /\ Invalidates(Main, swept, "idle")
        /\ UNCHANGED <<phase, nRef, owner, swept>>
    BY <1>6 DEF SweepInvalidates, Held
  <2>2. PICK c \in Conns : c = swept  BY <1>2
  <2>3. c = Conn(Main) /\ Invalidates(Main, c, "idle")  BY <1>1, <2>1, <2>2
  <2> QED BY <1>1, <2>1, <2>3, InvalidatesStep
<1> QED BY <1>3, <1>4, <1>5, <1>6

(* A worker's step to another place, with the references as they are. *)
LEMMA WorkerGoes ==
  ASSUME HandleInv, NEW t \in Workers, NEW pc \in {"use", "posted", "run", "drop", "free"},
         Goes(t, pc), UNCHANGED <<phase, nRef, sock, owner, swept>>,
         \/ thr[t].pc \in {"run", "use", "posted"} /\ pc # "free"
         \/ thr[t].pc = "test" /\ pc = "free" /\ sock[t[1]] = INVALID_SOCKET,
         Harms
  PROVE  HandleInv'
<1>1. HandleTypes /\ t \in Threads /\ t # Main  BY WorkerIs DEF HandleInv
<1>2. pc \in PCs  BY DEF PCs, Holding, Ending
<1>3. thr' = [thr EXCEPT ![t] = At(pc)]  BY DEF Goes
<1>4. thr'[t].pc = pc  BY <1>1, <1>2, <1>3, AtIs DEF HandleTypes
<1>5. SameClass(t)  BY <1>4 DEF SameClass, Holding, Ending
<1>6. \A d \in Conns : RefOK(d)'  BY <1>1, <1>3, <1>5, RefMoves
<1>7. phase' \in [Conns -> {"free", "accept", "session"}] /\ nRef' \in [Conns -> Nat]
      /\ swept' \in Conns
  BY <1>1 DEF HandleTypes
<1>8. \A d \in Conns : phase'[d] = "free" => sock[d] = INVALID_SOCKET  BY DEF HandleInv
<1> QED BY <1>1, <1>2, <1>6, <1>7, <1>8, GoesStep

(* A worker reads its handle, to use it or to close it. *)
LEMMA WorkerReads ==
  ASSUME HandleInv, NEW t \in Workers, NEW pc, Reads(t, t[1], pc),
         \/ thr[t].pc = "run" /\ pc = "use"
         \/ thr[t].pc = "run" /\ pc = "damaged" /\ t[2] = "rx"
         \/ thr[t].pc = "test" /\ pc = "close",
         UNCHANGED <<phase, nRef, sock, owner, swept>>, Harms
  PROVE  HandleInv'
<1>1. HandleTypes /\ t \in Threads /\ t # Main  BY WorkerIs DEF HandleInv
<1>2. PICK c \in Conns : c = t[1] /\ c = Conn(t)  BY WorkerIs
<1>3. Reads(t, c, pc)  BY <1>2
<1>4. thr'[t].pc = pc  BY <1>1, <1>3 DEF Reads, HandleTypes
<1>5. SameClass(t)  BY <1>4 DEF SameClass, Holding, Ending
<1> QED BY <1>1, <1>2, <1>3, <1>5, ReadsStep

(* After its close a worker writes INVALID_SOCKET. *)
LEMMA WorkerInvalidates ==
  ASSUME HandleInv, NEW t \in Workers, NEW pc, Invalidates(t, t[1], pc),
         \/ thr[t].pc = "write" /\ pc = "free"
         \/ thr[t].pc = "mark" /\ pc = "run",
         UNCHANGED <<phase, nRef, owner, swept>>, Harms
  PROVE  HandleInv'
<1>1. t \in Threads /\ t # Main  BY WorkerIs
<1>2. PICK c \in Conns : c = t[1] /\ c = Conn(t)  BY WorkerIs
<1>3. Invalidates(t, c, pc)  BY <1>2
<1> QED BY <1>1, <1>2, <1>3, InvalidatesStep

-----------------------------------------------------------------------------
(* The accept completes, one way or the other: the receive chain has the one
   reference, or frees the RECV_SOCK at once. *)
LEMMA AcceptStep ==
  ASSUME HandleInv, NEW c \in Conns,
         AcceptCompletionSuccess(c) \/ AcceptCompletionFailed(c), Harms
  PROVE  HandleInv'
<1>1. HandleTypes /\ RefOK(c)  BY DEF HandleInv
<1>2. PICK t \in Workers : t = <<c, "rx">>  BY RolesAre
<1>3. t \in Threads /\ t # Main /\ t[1] = c  BY <1>2, WorkerIs
<1>4. PICK pc \in {"run", "test"} : Goes(t, pc)
  BY <1>2 DEF AcceptCompletionSuccess, AcceptCompletionFailed
<1>5. /\ phase[c] = "accept" /\ thr[t].pc = "idle"
      /\ phase' = [phase EXCEPT ![c] = "session"]
      /\ UNCHANGED <<sock, nRef, owner, swept>>
  BY <1>2 DEF AcceptCompletionSuccess, AcceptCompletionFailed
<1>6. pc \in PCs /\ thr' = [thr EXCEPT ![t] = At(pc)]  BY <1>4 DEF PCs, Holding, Ending, Goes
<1>7. thr'[t].pc = pc /\ phase'[c] = "session"
      /\ \A d \in Conns : d # c => phase'[d] = phase[d]
  BY <1>1, <1>3, <1>5, <1>6, AtIs DEF HandleTypes
<1>8. thr'[<<c, "tx">>] = thr[<<c, "tx">>]
  <2>1. <<c, "tx">> \in Threads /\ <<c, "tx">> # t  BY <1>2, RolesAre, WorkerIs
  <2> QED BY <1>1, <1>6, <2>1 DEF HandleTypes
<1>9. RefOK(c)'
  BY <1>1, <1>2, <1>5, <1>7, <1>8 DEF RefOK, Holding, Ending
<1>10. \A d \in Conns : RefOK(d)'
  BY <1>3, <1>5, <1>6, <1>7, <1>9, RefWorker
<1>11. phase' \in [Conns -> {"free", "accept", "session"}] /\ nRef' \in [Conns -> Nat]
       /\ swept' \in Conns
  BY <1>1, <1>5 DEF HandleTypes
<1>12. /\ \A d \in Conns : phase'[d] = "free" => sock[d] = INVALID_SOCKET
       /\ \A d \in Conns : phase[d] = "free" => phase'[d] = "free"
  BY <1>5, <1>7 DEF HandleInv
<1> QED BY <1>3, <1>4, <1>5, <1>6, <1>10, <1>11, <1>12, GoesStep

(* AddRef and the command that gets the reference. *)
LEMMA PostCommandStep ==
  ASSUME HandleInv, NEW c \in Conns, PostCommand(c), Harms
  PROVE  HandleInv'
<1>1. HandleTypes /\ RefOK(c)  BY DEF HandleInv
<1>2. PICK t \in Workers : t = <<c, "tx">>  BY RolesAre
<1>3. t \in Threads /\ t # Main /\ t[1] = c  BY <1>2, WorkerIs
<1>4. /\ thr[<<c, "rx">>].pc = "run" /\ thr[t].pc = "idle"
      /\ nRef' = [nRef EXCEPT ![c] = @ + 1] /\ Goes(t, "run")
      /\ UNCHANGED <<phase, sock, owner, swept>>
  BY <1>2 DEF PostCommand
<1>5. "run" \in PCs /\ thr' = [thr EXCEPT ![t] = At("run")]
  BY <1>4 DEF PCs, Holding, Goes
<1>6. thr'[t].pc = "run" /\ nRef'[c] = nRef[c] + 1
      /\ \A d \in Conns : d # c => nRef'[d] = nRef[d]
  BY <1>1, <1>3, <1>4, <1>5, AtIs DEF HandleTypes
<1>7. thr'[<<c, "rx">>] = thr[<<c, "rx">>]
  <2>1. <<c, "rx">> \in Threads /\ <<c, "rx">> # t  BY <1>2, RolesAre, WorkerIs
  <2> QED BY <1>1, <1>5, <2>1 DEF HandleTypes
<1>8. nRef[c] = 1 /\ phase[c] = "session"
  BY <1>1, <1>2, <1>4 DEF RefOK, Holding, Ending
<1>9. RefOK(c)'
  BY <1>2, <1>4, <1>6, <1>7, <1>8 DEF RefOK, Holding
<1>10. \A d \in Conns : RefOK(d)'
  BY <1>3, <1>4, <1>5, <1>6, <1>9, RefWorker
<1>11. phase' \in [Conns -> {"free", "accept", "session"}] /\ nRef' \in [Conns -> Nat]
       /\ swept' \in Conns
  BY <1>1, <1>4 DEF HandleTypes
<1>12. /\ \A d \in Conns : phase'[d] = "free" => sock[d] = INVALID_SOCKET
       /\ \A d \in Conns : phase[d] = "free" => phase'[d] = "free"
  BY <1>4 DEF HandleInv
<1> QED BY <1>3, <1>4, <1>5, <1>10, <1>11, <1>12, GoesStep

(* The two workers of a connection. *)
LEMMA OtherRole ==
  ASSUME HandleTypes, NEW t \in Workers, NEW c \in Conns, c = t[1], NEW v,
         thr' = [thr EXCEPT ![t] = v]
  PROVE  \/ t = <<c, "rx">> /\ thr'[<<c, "tx">>] = thr[<<c, "tx">>]
         \/ t = <<c, "tx">> /\ thr'[<<c, "rx">>] = thr[<<c, "rx">>]
<1>1. t = <<c, "rx">> \/ t = <<c, "tx">>  BY WorkerIs
<1>2. <<c, "rx">> \in Threads /\ <<c, "tx">> \in Threads  BY RolesAre, WorkerIs
<1>3. <<c, "rx">> # <<c, "tx">>  OBVIOUS
<1> QED BY <1>1, <1>2, <1>3 DEF HandleTypes

(* A reference is dropped; the last one closes and frees. *)
LEMMA DropRefStep ==
  ASSUME HandleInv, NEW t \in Workers, DropRef(t), Harms
  PROVE  HandleInv'
<1>1. HandleTypes /\ t \in Threads /\ t # Main  BY WorkerIs DEF HandleInv
<1>2. PICK c \in Conns : c = t[1]  BY WorkerIs
<1>3. RefOK(c)  BY DEF HandleInv
<1>4. PICK pc \in {"test", "idle"} : pc = IF nRef[c] = 1 THEN "test" ELSE "idle"
  OBVIOUS
<1>5. /\ thr[t].pc = "drop" /\ Goes(t, pc) /\ nRef' = [nRef EXCEPT ![c] = @ - 1]
      /\ UNCHANGED <<phase, sock, owner, swept>>
  BY <1>2, <1>4 DEF DropRef
<1>6. pc \in PCs /\ thr' = [thr EXCEPT ![t] = At(pc)]  BY <1>5 DEF PCs, Ending, Goes
<1>7. thr'[t].pc = pc /\ nRef'[c] = nRef[c] - 1
      /\ \A d \in Conns : d # c => nRef'[d] = nRef[d]
  BY <1>1, <1>5, <1>6, AtIs DEF HandleTypes
<1>8. \/ t = <<c, "rx">> /\ thr'[<<c, "tx">>] = thr[<<c, "tx">>]
      \/ t = <<c, "tx">> /\ thr'[<<c, "rx">>] = thr[<<c, "rx">>]
  BY <1>1, <1>2, <1>6, OtherRole
<1>9. phase[c] = "session" /\ nRef[c] \in {1, 2}
  BY <1>3, <1>5, <1>8 DEF RefOK, Holding, Ending
<1>10. RefOK(c)'
  <2>1. CASE nRef[c] = 1
    BY <1>3, <1>4, <1>5, <1>7, <1>8, <1>9, <2>1 DEF RefOK, Holding, Ending
  <2>2. CASE nRef[c] = 2
    <3>1. nRef'[c] = 1 /\ pc = "idle"  BY <1>4, <1>7, <2>2
    <3> QED BY <1>3, <1>5, <1>7, <1>8, <1>9, <2>2, <3>1 DEF RefOK, Holding, Ending
  <2> QED BY <1>9, <2>1, <2>2
<1>11. \A d \in Conns : RefOK(d)'
  BY <1>2, <1>5, <1>6, <1>7, <1>10, RefWorker
<1>12. nRef' \in [Conns -> Nat]
  <2>1. nRef[c] - 1 \in Nat  BY <1>9
  <2> QED BY <1>1, <1>5, <2>1 DEF HandleTypes
<1>13. phase' \in [Conns -> {"free", "accept", "session"}] /\ swept' \in Conns
  BY <1>1, <1>5 DEF HandleTypes
<1>14. \A d \in Conns : phase'[d] = "free" => sock[d] = INVALID_SOCKET  BY <1>5 DEF HandleInv
<1> QED BY <1>1, <1>5, <1>6, <1>11, <1>12, <1>13, <1>14, GoesStep

(* freeRSock: the RECV_SOCK has no handle and no worker. *)
LEMMA freeRSockStep ==
  ASSUME HandleInv, NEW t \in Workers, freeRSock(t), Harms
  PROVE  HandleInv'
<1>1. HandleTypes /\ t \in Threads /\ t # Main /\ CloseOK(t)  BY WorkerIs DEF HandleInv
<1>2. PICK c \in Conns : c = t[1]  BY WorkerIs
<1>3. RefOK(c)  BY DEF HandleInv
<1>4. /\ thr[t].pc = "free" /\ Goes(t, "idle") /\ phase' = [phase EXCEPT ![c] = "free"]
      /\ UNCHANGED <<nRef, sock, owner, swept>>
  BY <1>2 DEF freeRSock
<1>5. "idle" \in PCs /\ thr' = [thr EXCEPT ![t] = At("idle")]  BY <1>4 DEF PCs, Goes
<1>6. thr'[t].pc = "idle" /\ phase'[c] = "free"
      /\ \A d \in Conns : d # c => phase'[d] = phase[d]
  BY <1>1, <1>4, <1>5, AtIs DEF HandleTypes
<1>7. \/ t = <<c, "rx">> /\ thr'[<<c, "tx">>] = thr[<<c, "tx">>]
      \/ t = <<c, "tx">> /\ thr'[<<c, "rx">>] = thr[<<c, "rx">>]
  BY <1>1, <1>2, <1>5, OtherRole
<1>8. RefOK(c)'
  BY <1>3, <1>4, <1>6, <1>7 DEF RefOK, Holding, Ending
<1>9. \A d \in Conns : RefOK(d)'
  BY <1>2, <1>4, <1>5, <1>6, <1>8, RefWorker
<1>10. sock[c] = INVALID_SOCKET  BY <1>1, <1>2, <1>4 DEF CloseOK
<1>11. phase' \in [Conns -> {"free", "accept", "session"}] /\ nRef' \in [Conns -> Nat]
       /\ swept' \in Conns
  BY <1>1, <1>4 DEF HandleTypes
<1>12. /\ \A d \in Conns : phase'[d] = "free" => sock[d] = INVALID_SOCKET
       /\ \A d \in Conns : phase[d] = "free" => phase'[d] = "free"
  BY <1>6, <1>10 DEF HandleInv
<1> QED BY <1>1, <1>4, <1>5, <1>9, <1>11, <1>12, GoesStep

-----------------------------------------------------------------------------
(* The other steps of workers. *)
LEMMA WorkerStep ==
  ASSUME HandleInv, Harms, NEW t \in Workers,
         \/ PostReads(t) \/ Posts(t) \/ PostFails(t) \/ Completes(t)
         \/ DropRef(t) \/ CMTests(t) \/ CMCloses(t) \/ CMInvalidates(t)
         \/ freeRSock(t)
  PROVE  HandleInv'
<1> USE DEF Held
<1>1. t \in Threads  BY WorkerIs
<1>2. CASE PostReads(t)
  <2>1. thr[t].pc = "run" /\ Reads(t, t[1], "use") /\ UNCHANGED <<phase, nRef, sock, owner, swept>>
    BY <1>2 DEF PostReads
  <2> QED BY <2>1, WorkerReads
<1>3. CASE Posts(t)
  <2>1. thr[t].pc = "use" /\ Goes(t, "posted") /\ UNCHANGED <<phase, nRef, sock, owner, swept>>
    BY <1>3 DEF Posts
  <2> QED BY <2>1, WorkerGoes
<1>4. CASE PostFails(t)
  <2>1. thr[t].pc = "use" /\ Goes(t, "drop") /\ UNCHANGED <<phase, nRef, sock, owner, swept>>
    BY <1>4 DEF PostFails
  <2> QED BY <2>1, WorkerGoes
<1>5. CASE Completes(t)
  <2>1. thr[t].pc = "posted" /\ UNCHANGED <<phase, nRef, sock, owner, swept>>
    BY <1>5 DEF Completes
  <2>2. PICK pc \in {"run", "drop"} : Goes(t, pc)  BY <1>5 DEF Completes
  <2> QED BY <2>1, <2>2, WorkerGoes
<1>6. CASE DropRef(t)  BY <1>6, DropRefStep
<1>7. CASE CMTests(t)
  <2>1. thr[t].pc = "test" /\ UNCHANGED <<phase, nRef, sock, owner, swept>>
    BY <1>7 DEF CMTests
  <2>2. CASE sock[t[1]] = INVALID_SOCKET
    <3>1. Goes(t, "free")  BY <1>7, <2>2 DEF CMTests
    <3> QED BY <2>1, <2>2, <3>1, WorkerGoes
  <2>3. CASE sock[t[1]] # INVALID_SOCKET
    <3>1. Reads(t, t[1], "close")  BY <1>7, <2>3 DEF CMTests
    <3> QED BY <2>1, <3>1, WorkerReads
  <2> QED BY <2>2, <2>3
<1>8. CASE CMCloses(t)
  <2>1. thr[t].pc = "close" /\ Closes(t, "write") /\ UNCHANGED <<phase, nRef, sock, swept>>
    BY <1>8 DEF CMCloses
  <2> QED BY <1>1, <2>1, ClosesStep
<1>9. CASE CMInvalidates(t)
  <2>1. /\ thr[t].pc = "write" /\ Invalidates(t, t[1], "free")
        /\ UNCHANGED <<phase, nRef, owner, swept>>
    BY <1>9 DEF CMInvalidates
  <2> QED BY <2>1, WorkerInvalidates
<1>10. CASE freeRSock(t)  BY <1>10, freeRSockStep
<1> QED BY <1>2, <1>3, <1>4, <1>5, <1>6, <1>7, <1>8, <1>9, <1>10

(* The parser's early close. *)
LEMMA ParserStep ==
  ASSUME HandleInv, Harms, NEW c \in Conns,
         ParserReads(c) \/ ParserCloses(c) \/ ParserInvalidates(c)
  PROVE  HandleInv'
<1> USE DEF Held
<1>1. PICK t \in Workers : t = <<c, "rx">>  BY RolesAre
<1>2. t \in Threads /\ t[1] = c /\ t[2] = "rx"  BY <1>1, WorkerIs
<1>3. CASE ParserReads(c)
  <2>1. /\ thr[t].pc = "run" /\ Reads(t, t[1], "damaged")
        /\ UNCHANGED <<phase, nRef, sock, owner, swept>>
    BY <1>1, <1>2, <1>3 DEF ParserReads
  <2> QED BY <1>2, <2>1, WorkerReads
<1>4. CASE ParserCloses(c)
  <2>1. thr[t].pc = "damaged" /\ Closes(t, "mark") /\ UNCHANGED <<phase, nRef, sock, swept>>
    BY <1>1, <1>4 DEF ParserCloses
  <2> QED BY <1>2, <2>1, ClosesStep
<1>5. CASE ParserInvalidates(c)
  <2>1. /\ thr[t].pc = "mark" /\ Invalidates(t, t[1], "run")
        /\ UNCHANGED <<phase, nRef, owner, swept>>
    BY <1>1, <1>2, <1>5 DEF ParserInvalidates
  <2> QED BY <2>1, WorkerInvalidates
<1> QED BY <1>3, <1>4, <1>5

-----------------------------------------------------------------------------
(* The initial states: no connection, no socket. *)
LEMMA HandleInitInv == HandleInit => HandleInv
<1> SUFFICES ASSUME HandleInit PROVE HandleInv
  OBVIOUS
<1>1. INVALID_SOCKET \notin Handles /\ INVALID_SOCKET \notin Conns  BY HandleAssumption
<1>2. "idle" \in PCs  BY DEF PCs
<1>3. \A t \in Threads : thr[t].pc = "idle" /\ thr[t].h = INVALID_SOCKET
  BY <1>2, AtIs DEF HandleInit
<1>4. HandleTypes
  <2>1. thr \in [Threads -> [pc : PCs, h : Values]]  BY <1>2, AtIs DEF HandleInit
  <2> QED BY <2>1 DEF HandleInit, HandleTypes, Values
<1>5. \A c \in Conns : RefOK(c)
  <2> SUFFICES ASSUME NEW c \in Conns PROVE RefOK(c)  OBVIOUS
  <2>1. <<c, "rx">> \in Threads /\ <<c, "tx">> \in Threads  BY RolesAre, WorkerIs
  <2> QED BY <1>3, <2>1 DEF HandleInit, RefOK
<1>6. \A t \in Threads : PlaceOK(t) /\ CloseOK(t) /\ OursOK(t)
  <2> SUFFICES ASSUME NEW t \in Threads PROVE PlaceOK(t) /\ CloseOK(t) /\ OursOK(t)  OBVIOUS
  <2> QED BY <1>3 DEF PlaceOK, CloseOK, OursOK
<1>7. NoSocketLost  BY DEF HandleInit, NoSocketLost
<1>8. \A c \in Conns : OpenOK(c)  BY DEF HandleInit, OpenOK
<1>9. \A c \in Conns : ~OverlapAt(c)
  <2>1. \A c \in Conns : thr[<<c, "rx">>].pc = "idle"
    BY <1>3, RolesAre, WorkerIs
  <2> QED BY <1>3, <2>1, MainIs DEF OverlapAt
<1>10. \A c \in Conns : SoundOK(c)  BY <1>6, <1>8, <1>9 DEF SoundOK
<1> QED BY <1>4, <1>5, <1>6, <1>7, <1>10 DEF HandleInv, HandleInit

(* Every step of every thread preserves the invariant. *)
LEMMA HandleNextInv == HandleInv /\ [HandleNext]_hVars => HandleInv'
<1> SUFFICES ASSUME HandleInv, [HandleNext]_hVars PROVE HandleInv'
  OBVIOUS
<1>1. CASE UNCHANGED hVars
  <2>1. HandleTypes' /\ (\A c \in Conns : RefOK(c)')
    BY <1>1 DEF hVars, HandleInv, HandleTypes, RefOK
  <2>2. \A t : Conn(t)' = Conn(t)  BY <1>1 DEF hVars, Conn
  <2>3. \A t \in Threads : PlaceOK(t)' /\ CloseOK(t)'
    BY <1>1, <2>2 DEF hVars, HandleInv, PlaceOK, CloseOK
  <2>4. NoSocketLost'  BY <1>1 DEF hVars, HandleInv, NoSocketLost
  <2>5. ASSUME NEW c \in Conns, c \notin hurt' PROVE SoundOK(c)'
    <3>1. SoundOK(c)  BY <1>1, <2>5 DEF hVars, HandleInv
    <3>2. ~OverlapAt(c)'  BY <1>1, <3>1 DEF hVars, SoundOK, OverlapAt, Busy
    <3>3. \A t \in Threads : Conn(t)' = c => OursOK(t)'
      BY <1>1, <2>2, <3>1 DEF hVars, SoundOK, OursOK
    <3>4. OpenOK(c)'  BY <1>1, <2>2, <3>1 DEF hVars, SoundOK, OpenOK
    <3> QED BY <3>2, <3>3, <3>4 DEF SoundOK
  <2>8. \A c \in Conns : phase'[c] = "free" => sock'[c] = INVALID_SOCKET
    BY <1>1 DEF hVars, HandleInv
  <2> QED BY <2>1, <2>3, <2>4, <2>5, <2>8 DEF HandleInv
<1>2. CASE HandleNext
  <2>1. Step /\ Harms  BY <1>2 DEF HandleNext
  <2>2. \/ \E c \in Conns, h \in Handles : Client_PostAcceptEx(c, h)
        \/ \E h \in Handles : CloseByCount(h)
        \/ (\E c \in Conns : SweepFinds(c)) \/ SweepReads \/ SweepCloses \/ SweepInvalidates
        \/ \E c \in Conns : AcceptCompletionSuccess(c) \/ AcceptCompletionFailed(c)
        \/ \E c \in Conns : PostCommand(c)
        \/ \E c \in Conns : ParserReads(c) \/ ParserCloses(c) \/ ParserInvalidates(c)
        \/ \E t \in Workers :
             \/ PostReads(t) \/ Posts(t) \/ PostFails(t) \/ Completes(t)
             \/ DropRef(t) \/ CMTests(t) \/ CMCloses(t) \/ CMInvalidates(t)
             \/ freeRSock(t)
    BY <2>1 DEF Step
  <2>3. ASSUME NEW c \in Conns, NEW h \in Handles, Client_PostAcceptEx(c, h) PROVE HandleInv'
    BY <2>1, <2>3, PostAcceptExStep
  <2>4. CASE (\E c \in Conns : SweepFinds(c)) \/ SweepReads \/ SweepCloses \/ SweepInvalidates
    BY <2>1, <2>4, SweepStep
  <2>5. ASSUME NEW c \in Conns, AcceptCompletionSuccess(c) \/ AcceptCompletionFailed(c)
        PROVE  HandleInv'
    BY <2>1, <2>5, AcceptStep
  <2>6. ASSUME NEW c \in Conns, PostCommand(c) PROVE HandleInv'
    BY <2>1, <2>6, PostCommandStep
  <2>7. ASSUME NEW c \in Conns, ParserReads(c) \/ ParserCloses(c) \/ ParserInvalidates(c)
        PROVE  HandleInv'
    BY <2>1, <2>7, ParserStep
  <2>8. ASSUME NEW t \in Workers,
               \/ PostReads(t) \/ Posts(t) \/ PostFails(t) \/ Completes(t)
               \/ DropRef(t) \/ CMTests(t) \/ CMCloses(t) \/ CMInvalidates(t)
               \/ freeRSock(t)
        PROVE  HandleInv'
    BY <2>1, <2>8, WorkerStep
  <2>9. ASSUME NEW h \in Handles, CloseByCount(h) PROVE HandleInv'
    BY <2>1, <2>9, CloseByCountStep
  <2> QED BY <2>2, <2>3, <2>4, <2>5, <2>6, <2>7, <2>8, <2>9
<1> QED BY <1>1, <1>2

(* HandleInv holds always, whatever the threads' interleaving. *)
THEOREM HandleInvariant == HandleSpec => []HandleInv
<1> QED BY HandleInitInv, HandleNextInv, PTL DEF HandleSpec

(* Whatever overlaps, an open socket's connection is in use and still has its
   handle: CMCloseSocket or the sweep will close it. *)
THEOREM HandleNeverLost == HandleSpec => []NoSocketLost
<1>1. HandleInv => NoSocketLost  BY DEF HandleInv
<1> QED BY <1>1, HandleInvariant, PTL

(* What a thread of a sound connection has read and is about to use or close
   is not the socket of another connection: whoever hits a foreign socket had
   been harmed by an overlapping early close, by CheckNCData or by another
   harmed connection. *)
THEOREM HandleIsOurs == HandleSpec => []HandleStaysOurs
<1>1. HandleInv => HandleStaysOurs
  <2> SUFFICES ASSUME HandleInv, NEW t \in Threads, thr[t].h # INVALID_SOCKET,
                      Conn(t) \notin hurt
               PROVE  owner[thr[t].h] \in {Conn(t), INVALID_SOCKET}
    BY DEF HandleStaysOurs
  <2>1. Conn(t) \in Conns  BY ConnIs DEF HandleInv
  <2>2. OursOK(t)  BY <2>1 DEF HandleInv, SoundOK
  <2> QED BY <2>2 DEF OursOK
<1> QED BY <1>1, HandleInvariant, PTL

(* The handle of a sound connection stands for its own open socket until one
   of its own threads closes it: no thread of another sound connection, and no
   Init of a reused RECV_SOCK, takes it away. *)
THEOREM HandleSocketOpen == HandleSpec => []SocketStaysOpen
<1>1. HandleInv => SocketStaysOpen
  BY DEF HandleInv, SoundOK, SocketStaysOpen, OpenOK
<1> QED BY <1>1, HandleInvariant, PTL
=============================================================================
