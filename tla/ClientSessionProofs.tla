------------------------ MODULE ClientSessionProofs ------------------------
(***************************************************************************)
(* The reference count, the reclaiming of a RECV_SOCK and the send list,   *)
(* for any number of connections, buffers and workers, pools of any size   *)
(* and any mix of command handlers.                                        *)
(*                                                                         *)
(* A step of a handler changes one worker, at most one RECV_OBJ or         *)
(* BUFFER_OBJ, and at most one RECV_SOCK, and worker and object belong to  *)
(* that RECV_SOCK or to none.  So the invariant is stated for each of them *)
(* by itself (WorkerOK, ObjOK, SockOK); OtherWorkers, OtherObjects and     *)
(* OtherSocks show once that whatever a step does not touch stays as it    *)
(* should be, and Here leaves to the proof of an action the three things   *)
(* it changes.  That every step does one of a few things to the owners and *)
(* to the list of its RECV_SOCK (SessionStep) is proved along with it; the *)
(* refinements of SharedLife and SendQueue follow from that.               *)
(***************************************************************************)
EXTENDS SessionRefinement, FiniteSetTheorems, SequenceTheorems, TLAPS

WorkerStates == [pc : PCs, r : RSocks \cup {None}, x : Objs \cup {None},
                 y : BObjs \cup {None}, via : {"none", "accept", "recv"},
                 n : 0..MaxBatch]

(* Which objects can be where. *)
PlacesOK ==
  /\ \A r \in RSocks : at[r] \in {"heap", "pool", "used"}
  /\ \A o \in RObjs : at[o] \in {"heap", "pool", "held", "accept", "zero", "recv"}
  /\ \A b \in BObjs :
       at[b] \in {"heap", "pool", "held", "sending", "posted", "queued", "made", "dropped"}

Closing == {"close", "freeSock"}
Owning == RefPCs \cup Closing

(* What a handler has at each place: a RECV_SOCK from the packet to the last
   use, an object in hand that refers to it, and y between LoopFrame and
   PostCmd or between GetNextData and HandOver. *)
WorkerOK(w) ==
  /\ wk[w].r # None <=> wk[w].pc \in Owning
  /\ wk[w].x # None => at[wk[w].x] = "held"
  /\ wk[w].x # None /\ wk[w].pc # "freeObj" => rel[wk[w].x] = wk[w].r
  /\ wk[w].pc \in {"refuse", "loop", "post", "repost"} => wk[w].x \in RObjs
  /\ wk[w].pc \in {"cmd", "send", "next"} => wk[w].x \in BObjs
  /\ wk[w].pc = "freeObj" => wk[w].x # None
  /\ wk[w].pc \in {"idle", "hand"} => wk[w].x = None
  /\ wk[w].y # None <=> wk[w].pc \in {"post", "hand"}
  /\ wk[w].y # None => rel[wk[w].y] = wk[w].r
  /\ wk[w].pc = "post" => at[wk[w].y] = "made"
  /\ wk[w].pc = "hand" => at[wk[w].y] = "queued"

(* What is pending belongs to a connection, what is held to a worker. *)
ObjOK(x) ==
  /\ at[x] \in Pending => rel[x] \in RSocks
  /\ at[x] = "held" => \E w \in Workers : wk[w].x = x

(* No two workers have the same object. *)
Apart ==
  \A v, w \in Workers : v # w =>
    /\ wk[v].x # None => wk[v].x # wk[w].x
    /\ wk[v].y # None => wk[v].y # wk[w].y

(* The workers that have a pointer to r, with or without a reference. *)
Users(r) == { w \in Workers : wk[w].r = r }

CountOK(r) ==
  IF at[r] = "used" THEN nRef[r] = Cardinality(Holders(r))
                    ELSE Holders(r) = {} /\ Users(r) = {}

OwnerOK(r) ==
  at[r] = "used" /\ Holders(r) = {} => \E w \in Users(r) : wk[w].pc \in Closing

(* Who may give r back without asking the count: the worker that saw it
   reach 0, and the one whose accept failed; and a pending accept, which may
   become the latter, is the only owner. *)
AloneOK(r) ==
  /\ \A w \in Users(r) :
       /\ wk[w].pc \in Closing => Holders(r) = {} /\ Users(r) = {w}
       /\ wk[w].pc = "refuse" => Holders(r) = {w} /\ Users(r) = {w}
  /\ \A o \in RObjs : at[o] = "accept" /\ rel[o] = r => Holders(r) = {o} /\ Users(r) = {}

(* The reply a driver of a send list is busy with. *)
Carried(d) == IF d \in Workers THEN IF wk[d].pc = "hand" THEN wk[d].y ELSE wk[d].x ELSE d

(* A list has one driver, which is busy with its back; the others wait. *)
ListOK(r) ==
  /\ \A i, j \in 1..Len(lstSend[r]) : lstSend[r][i] = lstSend[r][j] => i = j
  /\ \A i \in 1..Len(lstSend[r]) : rel[lstSend[r][i]] = r
  /\ \A i \in 1..(Len(lstSend[r]) - 1) : at[lstSend[r][i]] = "queued"
  /\ Len(lstSend[r]) = 0 => Drivers(r) = {}
  /\ Len(lstSend[r]) > 0 => \E d \in Objs \cup Workers :
       Drivers(r) = {d} /\ Carried(d) = lstSend[r][Len(lstSend[r])]

SockOK(r) == CountOK(r) /\ OwnerOK(r) /\ AloneOK(r) /\ ListOK(r)

SessionInv ==
  /\ TypeOK /\ PlacesOK /\ Apart
  /\ \A w \in Workers : WorkerOK(w)
  /\ \A x \in Objs : ObjOK(x)
  /\ \A r \in RSocks : SockOK(r)

-----------------------------------------------------------------------------
(* What a step may do to the owners of r: nothing, give a new RECV_SOCK its
   first owner, add one while another is there, pass a reference on, let one
   go, or give the RECV_SOCK back when at most one is left. *)
OwnersChange(r) ==
  LET H == Holders(r) IN
  \/ Holders(r)' = H /\ at'[r] = at[r]
  \/ Holders(r)' = H /\ at[r] # "used" /\ at'[r] # "used"
  \/ at[r] # "used" /\ at'[r] = "used" /\ \E a \in Objs \cup Workers : Holders(r)' = {a}
  \/ /\ at'[r] = at[r] /\ H # {}
     /\ \E a \in Objs \cup Workers : a \notin H /\ Holders(r)' = H \cup {a}
  \/ /\ at'[r] = at[r]
     /\ \E a, b \in Objs \cup Workers : a \in H /\ b \notin H /\ Holders(r)' = (H \ {a}) \cup {b}
  \/ at'[r] = at[r] /\ \E a \in Objs \cup Workers : a \in H /\ Holders(r)' = H \ {a}
  \/ /\ at[r] = "used" /\ at'[r] # "used" /\ Holders(r)' = {}
     /\ H = {} \/ \E a \in Objs \cup Workers : H = {a}

(* The replies of r that the system is sending. *)
Sending(r) == { b \in BObjs : at[b] = "sending" /\ rel[b] = r }

(* What a step may do to its send list: nothing, put a reply in front, begin
   or end to send the back, or drop the back while it is not being sent. *)
ListChange(r) ==
  LET n == Len(lstSend[r]) IN
  \/ lstSend'[r] = lstSend[r] /\ Sending(r)' = Sending(r)
  \/ \E b \in BObjs : lstSend'[r] = <<b>> \o lstSend[r] /\ Sending(r)' = Sending(r)
  \/ n # 0 /\ lstSend'[r] = lstSend[r] /\ Sending(r) = {} /\ Sending(r)' = {lstSend[r][n]}
  \/ n # 0 /\ lstSend'[r] = lstSend[r] /\ Sending(r) = {lstSend[r][n]} /\ Sending(r)' = {}
  \/ /\ n # 0 /\ lstSend'[r] = SubSeq(lstSend[r], 1, n - 1)
     /\ Sending(r) = {} /\ Sending(r)' = {}

(* Every step does this to at most one RECV_SOCK. *)
SessionStep ==
  \E r \in RSocks \cup {None} :
    /\ \A s \in RSocks : s # r => /\ at'[s] = at[s] /\ Holders(s)' = Holders(s)
                                  /\ lstSend'[s] = lstSend[s] /\ Sending(s)' = Sending(s)
    /\ r # None => OwnersChange(r) /\ ListChange(r)

-----------------------------------------------------------------------------
(* The places from which an object is taken by whoever comes first. *)
Loose == {"heap", "pool", "accept", "zero", "recv", "posted", "sending"}

(* What every step has in common: at most one worker, one object and one
   RECV_SOCK change (None for a part the step leaves alone); the worker and,
   if it is pending, the object belong to that RECV_SOCK; and the object was in
   the worker's hands or in nobody's. *)
Touches(w0, x0, r0) ==
  /\ w0 \in Workers \cup {None}
  /\ x0 \in Objs \cup {None}
  /\ r0 \in RSocks \cup {None}
  /\ \A v \in Workers : v # w0 => wk'[v] = wk[v]
  /\ \A z \in Objs : z # x0 => at'[z] = at[z] /\ rel'[z] = rel[z]
  /\ \A s \in RSocks : s # r0 =>
       at'[s] = at[s] /\ nRef'[s] = nRef[s] /\ lstSend'[s] = lstSend[s]
  /\ w0 # None => wk[w0].r \in {r0, None} /\ wk'[w0].r \in {r0, None}
  /\ w0 # None /\ wk[w0].x # None => wk'[w0].x = wk[w0].x \/ x0 = wk[w0].x
  /\ x0 # None =>
       /\ at[x0] \in Pending => rel[x0] = r0
       /\ at'[x0] \in Pending => rel'[x0] = r0
       /\ at[x0] \in Loose \/ (w0 # None /\ (x0 = wk[w0].x \/ x0 = wk[w0].y))

(* A worker that goes on to pc p, with or without dropping y. *)
LEMMA GoesOn ==
  ASSUME TypeOK, NEW w \in Workers, NEW p \in PCs
  PROVE  LET k == [wk[w] EXCEPT !.pc = p]
             d == [wk[w] EXCEPT !.pc = p, !.y = None]
         IN  /\ k \in WorkerStates /\ k.pc = p /\ k.r = wk[w].r /\ k.x = wk[w].x /\ k.y = wk[w].y
             /\ d \in WorkerStates /\ d.pc = p /\ d.r = wk[w].r /\ d.x = wk[w].x /\ d.y = None
<1>1. wk[w] \in WorkerStates  BY DEF TypeOK, WorkerStates
<1>2. QED  BY <1>1 DEF WorkerStates

(* The kinds of addresses are distinct, and no worker or object is NULL. *)
LEMMA Kinds ==
  /\ \A w \in Workers : w # None /\ w \notin Objs /\ w \notin RSocks
  /\ \A x \in Objs : x # None /\ x \notin Workers /\ x \notin RSocks
  /\ \A r \in RSocks : r # None /\ r \notin Objs /\ r \notin Workers
  /\ \A o \in RObjs : o \notin BObjs /\ o \in Objs
  /\ \A b \in BObjs : b \notin RObjs /\ b \in Objs
  BY SessionAssumption DEF Objs

(* Type correctness, field by field. *)
LEMMA Fields ==
  ASSUME TypeOK
  PROVE  /\ \A w \in Workers :
              /\ wk[w].pc \in PCs
              /\ wk[w].r \in RSocks \cup {None}
              /\ wk[w].x \in Objs \cup {None}
              /\ wk[w].y \in BObjs \cup {None}
         /\ \A x \in Objs : at[x] \in Places /\ rel[x] \in RSocks \cup {None}
         /\ \A r \in RSocks :
              at[r] \in Places /\ nRef[r] \in Nat /\ lstSend[r] \in Seq(BObjs)
  BY DEF TypeOK

(* Drivers own a reference; so they go where the holders go. *)
LEMMA DriversHold ==
  ASSUME NEW r \in RSocks PROVE Drivers(r) \subseteq Holders(r)
  BY Kinds DEF Drivers, Holders, RefPCs, Pending

(* The object a step changes is not one that another worker has. *)
LEMMA NotTheirs ==
  ASSUME SessionInv, NEW w0, NEW x0, NEW r0, Touches(w0, x0, r0), x0 # None,
         NEW v \in Workers, v # w0
  PROVE  wk[v].x # x0 /\ wk[v].y # x0
<1>1. w0 # None => w0 \in Workers  BY DEF Touches
<1>2. WorkerOK(v) /\ (w0 # None => WorkerOK(w0))  BY <1>1 DEF SessionInv
<1>3. CASE at[x0] \in Loose
  <2>1. wk[v].x # x0  BY <1>2, <1>3 DEF WorkerOK, Loose
  <2>2. wk[v].y = x0 => wk[v].pc \in {"post", "hand"}  BY <1>2 DEF WorkerOK
  <2>3. wk[v].y # x0  BY <1>2, <1>3, <2>2 DEF WorkerOK, Loose
  <2>4. QED  BY <2>1, <2>3
<1>4. CASE w0 # None /\ x0 = wk[w0].x
  <2>1. at[x0] = "held"  BY <1>2, <1>4 DEF WorkerOK
  <2>2. wk[v].y # x0  BY <1>2, <2>1 DEF WorkerOK
  <2>3. wk[v].x # x0  BY <1>1, <1>4 DEF SessionInv, Apart
  <2>4. QED  BY <2>2, <2>3
<1>5. CASE w0 # None /\ x0 = wk[w0].y
  <2>1. at[x0] # "held"  BY <1>2, <1>5 DEF WorkerOK
  <2>2. wk[v].x # x0  BY <1>2, <2>1 DEF WorkerOK
  <2>3. wk[v].y # x0  BY <1>1, <1>5 DEF SessionInv, Apart
  <2>4. QED  BY <2>2, <2>3
<1>6. QED  BY <1>3, <1>4, <1>5 DEF Touches

(* A worker the step is not about keeps what it had. *)
LEMMA OtherWorkers ==
  ASSUME SessionInv, NEW w0, NEW x0, NEW r0, Touches(w0, x0, r0),
         NEW v \in Workers, v # w0
  PROVE  WorkerOK(v)'
<1>1. wk'[v] = wk[v] /\ WorkerOK(v)  BY DEF Touches, SessionInv
<1>2. wk[v].x \in Objs \cup {None} /\ wk[v].y \in Objs \cup {None}
  BY Fields, Kinds DEF SessionInv
<1> x0 # None => wk[v].x # x0 /\ wk[v].y # x0  BY NotTheirs
<1>3. wk[v].x # None => wk[v].x # x0  OBVIOUS
<1>4. wk[v].y # None => wk[v].y # x0  OBVIOUS
<1>5. wk[v].x # None => at'[wk[v].x] = at[wk[v].x] /\ rel'[wk[v].x] = rel[wk[v].x]
  BY <1>2, <1>3 DEF Touches
<1>6. wk[v].y # None => at'[wk[v].y] = at[wk[v].y] /\ rel'[wk[v].y] = rel[wk[v].y]
  BY <1>2, <1>4 DEF Touches
<1>7. wk[v].pc \in {"post", "hand"} => wk[v].y # None  BY <1>1 DEF WorkerOK
<1>8. QED  BY <1>1, <1>5, <1>6, <1>7 DEF WorkerOK

(* So does an object the step is not about. *)
LEMMA OtherObjects ==
  ASSUME SessionInv, NEW w0, NEW x0, NEW r0, Touches(w0, x0, r0),
         NEW z \in Objs, z # x0
  PROVE  ObjOK(z)'
<1>1. at'[z] = at[z] /\ rel'[z] = rel[z] /\ ObjOK(z)  BY DEF Touches, SessionInv
<1>2. ASSUME at[z] = "held" PROVE \E w \in Workers : wk'[w].x = z
  <2>1. PICK w \in Workers : wk[w].x = z  BY <1>1, <1>2 DEF ObjOK
  <2>2. wk'[w].x = z  BY <2>1, Kinds DEF Touches
  <2>3. QED  BY <2>2
<1>3. QED  BY <1>1, <1>2 DEF ObjOK

(* What the step makes of the owners and users of a RECV_SOCK. *)
LEMMA HoldersElsewhere ==
  ASSUME NEW w0, NEW x0, NEW r0, Touches(w0, x0, r0),
         NEW s \in RSocks, s # r0
  PROVE  /\ Holders(s)' = Holders(s) /\ Users(s)' = Users(s)
         /\ Drivers(s)' = Drivers(s) /\ Sending(s)' = Sending(s)
<1>1. \A v \in Workers : (wk'[v].r = s <=> wk[v].r = s)
                          /\ (wk[v].r = s => wk'[v] = wk[v])
  BY Kinds DEF Touches
<1>2. \A z \in Objs : (at'[z] \in Pending /\ rel'[z] = s) <=> (at[z] \in Pending /\ rel[z] = s)
  BY Kinds DEF Touches
<1>3. \A z \in Objs : (at'[z] = "sending" /\ rel'[z] = s) <=> (at[z] = "sending" /\ rel[z] = s)
  BY Kinds DEF Touches, Pending
<1>4. Holders(s)' = Holders(s)  BY <1>1, <1>2 DEF Holders
<1>5. Users(s)' = Users(s)  BY <1>1 DEF Users
<1>6. Drivers(s)' = Drivers(s)  BY <1>1, <1>3, Kinds DEF Drivers
<1>7. Sending(s)' = Sending(s)  BY <1>3, Kinds DEF Sending
<1>8. QED  BY <1>4, <1>5, <1>6, <1>7

(* A listed reply that is not the driver's waits; the driver's is being sent,
   in its worker's hands, or about to be.  Either way it is not an object that
   a step on another connection, or one that is not about sending, changes. *)
LEMMA ListedNotTouched ==
  ASSUME SessionInv, NEW w0, NEW x0, NEW r0, Touches(w0, x0, r0),
         NEW s \in RSocks,
         \/ s # r0
         \/ /\ w0 # None => wk[w0].pc \notin {"send", "next", "hand"}
            /\ x0 # None => at[x0] \notin {"queued", "sending"},
         NEW i \in 1..Len(lstSend[s])
  PROVE  lstSend[s][i] \in BObjs /\ lstSend[s][i] # x0
<1> DEFINE e == lstSend[s][i]
<1>1. lstSend[s] \in Seq(BObjs) /\ Len(lstSend[s]) \in Nat
  BY Fields DEF SessionInv
<1>2. e \in BObjs /\ e \in Objs /\ e # None  BY <1>1, Kinds
<1>3. ListOK(s) /\ rel[e] = s  BY DEF SessionInv, SockOK, ListOK
<1>4. ASSUME e = x0 PROVE FALSE
  <2>1. CASE at[e] \in {"queued", "sending"}
    BY <2>1, <1>2, <1>3, <1>4 DEF Touches, Pending
  <2>2. CASE at[e] \notin {"queued", "sending"}
    <3>1. i = Len(lstSend[s])  BY <2>2, <1>1, <1>3 DEF ListOK
    <3>2. PICK d \in Objs \cup Workers : Drivers(s) = {d} /\ Carried(d) = e
      BY <3>1, <1>1, <1>3 DEF ListOK
    <3>3. d \in Workers
      <4>1. d \notin Workers => at[d] = "sending" /\ Carried(d) = d
        BY <3>2 DEF Drivers, Carried
      <4>2. QED  BY <4>1, <3>2, <2>2
    <3>4. wk[d].pc \in {"send", "next", "hand"} /\ wk[d].r = s /\ WorkerOK(d)
      BY <3>2, <3>3, Kinds DEF Drivers, SessionInv
    <3>5. wk[d].x = e
      BY <3>2, <3>3, <3>4, <2>2, <1>2 DEF Carried, WorkerOK
    <3>6. d = w0  BY <3>3, <3>5, <1>2, <1>4, NotTheirs
    <3>7. QED  BY <3>3, <3>4, <3>6, Kinds DEF Touches
  <2>3. QED  BY <2>1, <2>2
<1>5. QED  BY <1>2, <1>4

(* A RECV_SOCK the step is not about stays as it was. *)
LEMMA OtherSocks ==
  ASSUME SessionInv, NEW w0, NEW x0, NEW r0, Touches(w0, x0, r0),
         NEW s \in RSocks, s # r0
  PROVE  SockOK(s)'
<1>1. /\ at'[s] = at[s] /\ nRef'[s] = nRef[s] /\ lstSend'[s] = lstSend[s]
      /\ SockOK(s)
  BY DEF Touches, SessionInv
<1>2. Holders(s)' = Holders(s) /\ Users(s)' = Users(s) /\ Drivers(s)' = Drivers(s)
  BY HoldersElsewhere
<1>3. \A v \in Users(s) : v \in Workers /\ wk'[v] = wk[v]
  BY Kinds DEF Users, Touches
<1>4. CountOK(s)'  BY <1>1, <1>2 DEF SockOK, CountOK
<1>5. OwnerOK(s)'  BY <1>1, <1>2, <1>3 DEF SockOK, OwnerOK
<1>6. AloneOK(s)'
  <2>1. \A o \in RObjs : at'[o] = "accept" /\ rel'[o] = s => at[o] = "accept" /\ rel[o] = s
    BY Kinds DEF Touches, Pending
  <2>2. AloneOK(s)  BY <1>1 DEF SockOK
  <2>3. \A v \in Users(s)' :
          /\ wk'[v].pc \in Closing => Holders(s)' = {} /\ Users(s)' = {v}
          /\ wk'[v].pc = "refuse" => Holders(s)' = {v} /\ Users(s)' = {v}
    BY <1>2, <1>3, <2>2 DEF AloneOK
  <2>4. \A o \in RObjs : at'[o] = "accept" /\ rel'[o] = s =>
                           Holders(s)' = {o} /\ Users(s)' = {}
    BY <1>2, <2>1, <2>2 DEF AloneOK
  <2>5. QED  BY <2>3, <2>4 DEF AloneOK
<1>7. ListOK(s)'
  <2>1. ListOK(s)  BY <1>1 DEF SockOK
  <2>2. \A i \in 1..Len(lstSend[s]) : lstSend[s][i] \in Objs /\ lstSend[s][i] # x0
    BY ListedNotTouched, Kinds
  <2>3. \A i \in 1..Len(lstSend[s]) : /\ at'[lstSend[s][i]] = at[lstSend[s][i]]
                                      /\ rel'[lstSend[s][i]] = rel[lstSend[s][i]]
    BY <2>2 DEF Touches
  <2>4. \A d \in Drivers(s) : d \in Workers => wk'[d] = wk[d]
    BY Kinds DEF Drivers, Touches
  <2>5. \A d \in Drivers(s) : Carried(d)' = Carried(d)  BY <2>4 DEF Carried
  <2>6. Len(lstSend[s]) \in Nat  BY Fields DEF SessionInv
  <2>7. \A d : Drivers(s) = {d} => Carried(d)' = Carried(d)  BY <2>5
  <2>8. \A i \in 1..Len(lstSend[s]) - 1 : i \in 1..Len(lstSend[s])  BY <2>6
  <2>9. QED  BY <1>1, <1>2, <2>1, <2>3, <2>7, <2>8 DEF ListOK
<1>8. QED  BY <1>1, <1>4, <1>5, <1>6, <1>7 DEF SockOK

(* What remains to be shown of a step, once it is known what it touches. *)
LEMMA Here ==
  ASSUME SessionInv, NEW w0, NEW x0, NEW r0, Touches(w0, x0, r0),
         TypeOK', PlacesOK', Apart',
         w0 # None => WorkerOK(w0)',
         x0 # None => ObjOK(x0)',
         r0 # None => SockOK(r0)' /\ OwnersChange(r0) /\ ListChange(r0)
  PROVE  SessionInv' /\ SessionStep
<1>1. \A w \in Workers : WorkerOK(w)'  BY OtherWorkers, Kinds
<1>2. \A x \in Objs : ObjOK(x)'  BY OtherObjects, Kinds
<1>3. \A r \in RSocks : SockOK(r)'  BY OtherSocks, Kinds
<1>4. \A s \in RSocks : s # r0 => /\ at'[s] = at[s] /\ Holders(s)' = Holders(s)
                                 /\ lstSend'[s] = lstSend[s] /\ Sending(s)' = Sending(s)
  <2>1. \A s \in RSocks : s # r0 => Holders(s)' = Holders(s) /\ Sending(s)' = Sending(s)
    BY HoldersElsewhere
  <2>2. QED  BY <2>1 DEF Touches
<1>5. SessionStep  BY <1>4 DEF SessionStep, Touches
<1>6. QED  BY <1>1, <1>2, <1>3, <1>5 DEF SessionInv

(* The workers stay apart when the one that moves takes nothing that another
   one has. *)
LEMMA StayApart ==
  ASSUME SessionInv, NEW w0, NEW x0, NEW r0, Touches(w0, x0, r0),
         w0 # None => /\ wk'[w0].x \in {wk[w0].x, x0, None}
                      /\ wk'[w0].y \in {wk[w0].y, x0, None}
  PROVE  Apart'
<1>1. \A v \in Workers : v # w0 /\ x0 # None => wk[v].x # x0 /\ wk[v].y # x0
  BY NotTheirs
<1>2. \A v \in Workers : v # w0 => wk'[v] = wk[v]  BY DEF Touches
<1>3. Apart  BY DEF SessionInv
<1>4. ASSUME NEW v \in Workers, v # w0, w0 \in Workers
      PROVE  /\ wk'[v].x # None => wk'[v].x # wk'[w0].x
             /\ wk'[v].y # None => wk'[v].y # wk'[w0].y
  <2>1. wk'[v] = wk[v] /\ w0 # None  BY <1>2, <1>4, Kinds
  <2>2. (wk[v].x # None => wk[v].x # wk[w0].x) /\ (wk[v].y # None => wk[v].y # wk[w0].y)
    BY <1>3, <1>4 DEF Apart
  <2>3. QED  BY <1>1, <1>4, <2>1, <2>2
<1>5. ASSUME NEW v \in Workers, NEW w \in Workers, v # w, v # w0, w # w0
      PROVE  /\ wk'[v].x # None => wk'[v].x # wk'[w].x
             /\ wk'[v].y # None => wk'[v].y # wk'[w].y
  BY <1>2, <1>3, <1>5 DEF Apart
<1>6. QED  BY <1>4, <1>5 DEF Apart

-----------------------------------------------------------------------------
(* The owners of a RECV_SOCK are finitely many. *)
LEMMA HoldersFinite ==
  ASSUME NEW r \in RSocks
  PROVE  IsFiniteSet(Holders(r)) /\ Cardinality(Holders(r)) \in Nat
<1>1. IsFiniteSet(Objs \cup Workers)
  BY SessionAssumption, FS_Union DEF Objs
<1>2. Holders(r) \subseteq Objs \cup Workers  BY DEF Holders
<1>3. QED  BY <1>1, <1>2, FS_Subset, FS_CardinalityType

(* An owner comes ... *)
LEMMA CountAdd ==
  ASSUME NEW S, IsFiniteSet(S), NEW a, a \notin S
  PROVE  Cardinality(S \cup {a}) = Cardinality(S) + 1
  BY FS_AddElement

(* ... or goes ... *)
LEMMA CountDrop ==
  ASSUME NEW S, IsFiniteSet(S), NEW a \in S
  PROVE  /\ Cardinality(S \ {a}) = Cardinality(S) - 1
         /\ Cardinality(S) >= 1
         /\ Cardinality(S) = 1 => S = {a}
<1>1. IsFiniteSet(S \ {a}) /\ Cardinality(S \ {a}) = Cardinality(S) - 1
  BY FS_RemoveElement
<1>2. Cardinality(S \ {a}) \in Nat /\ Cardinality(S) \in Nat  BY <1>1, FS_CardinalityType
<1>3. Cardinality(S \ {a}) = 0 => S \ {a} = {}  BY <1>1, FS_EmptySet
<1>4. QED  BY <1>1, <1>2, <1>3

(* ... or passes its reference on. *)
LEMMA CountPass ==
  ASSUME NEW S, IsFiniteSet(S), NEW a \in S, NEW b, b \notin S
  PROVE  Cardinality((S \ {a}) \cup {b}) = Cardinality(S)
<1>1. IsFiniteSet(S \ {a}) /\ Cardinality(S \ {a}) = Cardinality(S) - 1
  BY FS_RemoveElement
<1>2. Cardinality((S \ {a}) \cup {b}) = Cardinality(S \ {a}) + 1
  BY <1>1, FS_AddElement
<1>3. Cardinality(S) \in Nat  BY FS_CardinalityType
<1>4. QED  BY <1>1, <1>2, <1>3

(* Whether the touched worker and object own the touched RECV_SOCK can be read
   off their places; nobody else's ownership changes. *)
LEMMA HoldersHere ==
  ASSUME NEW w0, NEW x0, NEW r0 \in RSocks, Touches(w0, x0, r0)
  PROVE  /\ \A a : a # w0 /\ a # x0 => (a \in Holders(r0)' <=> a \in Holders(r0))
         /\ \A a : a # w0 => (a \in Users(r0)' <=> a \in Users(r0))
         /\ \A a : a # w0 /\ a # x0 => (a \in Drivers(r0)' <=> a \in Drivers(r0))
         /\ None \notin Holders(r0) /\ None \notin Holders(r0)'
         /\ x0 # None => (x0 \in Holders(r0) <=> at[x0] \in Pending)
         /\ x0 # None => (x0 \in Holders(r0)' <=> at'[x0] \in Pending)
         /\ w0 # None => (w0 \in Holders(r0) <=> wk[w0].pc \in RefPCs /\ wk[w0].r = r0)
         /\ w0 # None => (w0 \in Holders(r0)' <=> wk'[w0].pc \in RefPCs /\ wk'[w0].r = r0)
<1>1. /\ \A a \in Objs : a # x0 => at'[a] = at[a] /\ rel'[a] = rel[a]
      /\ \A a \in Workers : a # w0 => wk'[a] = wk[a]
  BY DEF Touches
<1>2. \A a : a # w0 /\ a # x0 => (a \in Holders(r0)' <=> a \in Holders(r0))
  BY <1>1 DEF Holders
<1>3. \A a : a # w0 => (a \in Users(r0)' <=> a \in Users(r0))
  BY <1>1 DEF Users
<1>4. \A a : a # w0 /\ a # x0 => (a \in Drivers(r0)' <=> a \in Drivers(r0))
  BY <1>1, Kinds DEF Drivers
<1>5. None \notin Holders(r0) /\ None \notin Holders(r0)'
  BY Kinds DEF Holders
<1>6. x0 # None => x0 \in Objs /\ x0 \notin Workers  BY Kinds DEF Touches
<1>7. w0 # None => w0 \in Workers /\ w0 \notin Objs  BY Kinds DEF Touches
<1>8. x0 # None => (x0 \in Holders(r0) <=> at[x0] \in Pending)
  BY <1>6 DEF Holders, Touches
<1>9. x0 # None => (x0 \in Holders(r0)' <=> at'[x0] \in Pending)
  BY <1>6 DEF Holders, Touches
<1>10. w0 # None => (w0 \in Holders(r0) <=> wk[w0].pc \in RefPCs /\ wk[w0].r = r0)
  BY <1>7 DEF Holders
<1>11. w0 # None => (w0 \in Holders(r0)' <=> wk'[w0].pc \in RefPCs /\ wk'[w0].r = r0)
  BY <1>7 DEF Holders
<1>12. QED  BY <1>2, <1>3, <1>4, <1>5, <1>8, <1>9, <1>10, <1>11

(* Most steps: some owner moves that is neither a pending nor a refused
   accept, so nobody is alone with the RECV_SOCK before the step; if an owner
   is left and counted after it, and the step makes none of those, all is well. *)
LEMMA OrdinaryStep ==
  ASSUME SessionInv, NEW w0, NEW x0, NEW r0 \in RSocks, Touches(w0, x0, r0),
         at'[r0] = at[r0],
         NEW a \in Holders(r0),
         \/ w0 # None /\ a = w0 /\ wk[w0].pc # "refuse"
         \/ x0 # None /\ a = x0 /\ at[x0] # "accept",
         w0 # None => wk'[w0].pc \notin {"refuse", "close", "freeSock"},
         x0 # None => at'[x0] # "accept",
         Holders(r0)' # {},
         nRef'[r0] = Cardinality(Holders(r0)')
  PROVE  CountOK(r0)' /\ OwnerOK(r0)' /\ AloneOK(r0)'
<1>1. SockOK(r0)  BY DEF SessionInv
<1>2. at[r0] = "used"  BY <1>1 DEF SockOK, CountOK
<1>3. CountOK(r0)' /\ OwnerOK(r0)'  BY <1>2 DEF CountOK, OwnerOK
<1>4. AloneOK(r0)'
  <2>1. ASSUME NEW v \in Users(r0)'
        PROVE  wk'[v].pc \notin {"refuse", "close", "freeSock"}
    <3>1. CASE v = w0  BY <3>1, <2>1, Kinds DEF Users
    <3>2. CASE v # w0
      <4>1. v \in Users(r0) /\ v \in Workers /\ wk'[v] = wk[v]
        BY <2>1, <3>2 DEF Users, Touches
      <4>2. wk[v].pc \notin Closing  BY <4>1, <1>1 DEF SockOK, AloneOK
      <4>3. wk[v].pc = "refuse" => a = v  BY <4>1, <1>1 DEF SockOK, AloneOK
      <4>4. x0 # None => v # x0  BY <4>1, Kinds DEF Touches
      <4>5. QED  BY <3>2, <4>1, <4>2, <4>3, <4>4 DEF Closing
    <3>3. QED  BY <3>1, <3>2
  <2>2. ASSUME NEW o \in RObjs, at'[o] = "accept", rel'[o] = r0 PROVE FALSE
    <3>1. o # x0 /\ o # w0 /\ o \in Objs  BY <2>2, Kinds DEF Touches
    <3>2. at[o] = "accept" /\ rel[o] = r0  BY <2>2, <3>1 DEF Touches
    <3>3. a = o  BY <3>2, <1>1 DEF SockOK, AloneOK
    <3>4. QED  BY <3>1, <3>3
  <2>3. QED  BY <2>1, <2>2 DEF AloneOK, Closing
<1>5. QED  BY <1>3, <1>4

(* Nothing starts or stops being sent unless the touched object does. *)
LEMMA SendingHere ==
  ASSUME NEW w0, NEW x0, NEW r0 \in RSocks, Touches(w0, x0, r0),
         x0 # None => at[x0] # "sending" /\ at'[x0] # "sending"
  PROVE  Sending(r0)' = Sending(r0)
<1>1. \A b \in BObjs : (at'[b] = "sending" /\ rel'[b] = r0)
                         <=> (at[b] = "sending" /\ rel[b] = r0)
  BY Kinds DEF Touches
<1>2. QED  BY <1>1 DEF Sending

(* A step that is not about sending leaves the list and its driver alone. *)
LEMMA ListKept ==
  ASSUME SessionInv, NEW w0, NEW x0, NEW r0 \in RSocks, Touches(w0, x0, r0),
         lstSend'[r0] = lstSend[r0],
         w0 # None => /\ wk[w0].pc \notin {"send", "next", "hand"}
                      /\ wk'[w0].pc \notin {"send", "next", "hand"},
         x0 # None => at[x0] \notin {"queued", "sending"} /\ at'[x0] # "sending"
  PROVE  ListOK(r0)' /\ ListChange(r0)
<1>1. ListOK(r0)  BY DEF SessionInv, SockOK
<1>2. \A i \in 1..Len(lstSend[r0]) : lstSend[r0][i] \in Objs /\ lstSend[r0][i] # x0
  BY ListedNotTouched, Kinds
<1>3. \A i \in 1..Len(lstSend[r0]) : /\ at'[lstSend[r0][i]] = at[lstSend[r0][i]]
                                     /\ rel'[lstSend[r0][i]] = rel[lstSend[r0][i]]
  BY <1>2 DEF Touches
<1>4. Drivers(r0)' = Drivers(r0)
  <2>1. w0 \notin Drivers(r0) /\ w0 \notin Drivers(r0)'
    BY Kinds DEF Drivers, Touches
  <2>2. x0 \notin Drivers(r0) /\ x0 \notin Drivers(r0)'
    BY Kinds DEF Drivers, Touches
  <2>3. \A d : d # w0 /\ d # x0 => (d \in Drivers(r0)' <=> d \in Drivers(r0))
    BY HoldersHere
  <2>4. \A d : d \in Drivers(r0)' <=> d \in Drivers(r0)  BY <2>1, <2>2, <2>3
  <2>5. QED  BY <2>4
<1>5. \A d \in Drivers(r0) : d \in Workers => wk'[d] = wk[d]
  BY Kinds DEF Drivers, Touches
<1>6. \A d : Drivers(r0) = {d} => Carried(d)' = Carried(d)  BY <1>5 DEF Carried
<1>7. Len(lstSend[r0]) \in Nat  BY Fields DEF SessionInv
<1>8. \A i \in 1..Len(lstSend[r0]) - 1 : i \in 1..Len(lstSend[r0])  BY <1>7
<1>9. ListOK(r0)'  BY <1>1, <1>3, <1>4, <1>6, <1>8 DEF ListOK
<1>10. ListChange(r0)  BY SendingHere DEF ListChange
<1>11. QED  BY <1>9, <1>10

-----------------------------------------------------------------------------
(* Where a freed object goes ... *)
LEMMA FreedPlace ==
  ASSUME NEW x PROVE PlaceIfFreed(x) \in {"pool", "heap"}
  BY DEF PlaceIfFreed

(* ... and where a new one comes from. *)
LEMMA AvailableIsFree ==
  ASSUME NEW S, NEW x \in Available(S) PROVE x \in S /\ at[x] \in {"pool", "heap"}
  BY DEF Available, InPool

(* What the invariant says of a worker that owns a RECV_SOCK. *)
LEMMA Owner ==
  ASSUME SessionInv, NEW w \in Workers, wk[w].pc \in Owning
  PROVE  /\ wk[w].r \in RSocks /\ at[wk[w].r] = "used" /\ SockOK(wk[w].r)
         /\ WorkerOK(w) /\ w \in Users(wk[w].r)
         /\ wk[w].pc \in RefPCs => w \in Holders(wk[w].r)
         /\ nRef[wk[w].r] = Cardinality(Holders(wk[w].r))
<1>1. WorkerOK(w) /\ wk[w].r \in RSocks  BY Fields DEF SessionInv, WorkerOK
<1>2. SockOK(wk[w].r) /\ w \in Users(wk[w].r)  BY <1>1 DEF SessionInv, Users
<1>3. wk[w].pc \in RefPCs => w \in Holders(wk[w].r)  BY DEF Holders
<1>4. at[wk[w].r] = "used" /\ nRef[wk[w].r] = Cardinality(Holders(wk[w].r))
  BY <1>2 DEF SockOK, CountOK
<1>5. QED  BY <1>1, <1>2, <1>3, <1>4

(* Client_PostZeroRecv fails, Client_CmdCompletionFailed, LoopDone: the worker
   moves on and keeps what it has. *)
LEMMA WorkerMoves ==
  ASSUME SessionInv, NEW w \in Workers,
         wk[w].pc \in {"loop", "repost", "cmd"},
         wk' = [wk EXCEPT ![w] = wk'[w]], wk'[w] \in WorkerStates,
         \/ wk[w].pc = "loop" /\ wk'[w].pc = "repost"
         \/ wk[w].pc \in {"repost", "cmd"} /\ wk'[w].pc = "drop",
         wk'[w].r = wk[w].r, wk'[w].x = wk[w].x, wk'[w].y = wk[w].y,
         sock' \in [RSocks -> {"open", "invalid"}],
         UNCHANGED <<at, rel, nRef, lstSend, left, pendingMap, sweep>>
  PROVE  SessionInv' /\ SessionStep
<1> DEFINE r == wk[w].r
<1>1. r \in RSocks /\ at[r] = "used" /\ SockOK(r) /\ WorkerOK(w) /\ w \in Holders(r)
      /\ nRef[r] = Cardinality(Holders(r))
  BY Owner DEF Owning, RefPCs
<1>2. TypeOK'
  <2>1. wk \in [Workers -> WorkerStates]  BY DEF SessionInv, TypeOK, WorkerStates
  <2>2. wk' \in [Workers -> WorkerStates]  BY <2>1
  <2>3. QED  BY <2>2 DEF SessionInv, TypeOK, WorkerStates
<1>3. PlacesOK'  BY DEF SessionInv, PlacesOK
<1>4. Touches(w, None, r)
  BY <1>1, Kinds DEF Touches, SessionInv, TypeOK
<1>5. Apart'  BY <1>4, StayApart
<1>6. WorkerOK(w)'  BY <1>1 DEF WorkerOK, Owning, RefPCs
<1>7. SockOK(r)' /\ OwnersChange(r) /\ ListChange(r)
  <2>1. Holders(r)' = Holders(r)
    <3>1. w \in Holders(r)'  BY <1>1, <1>4, HoldersHere, Kinds DEF RefPCs
    <3>2. \A a : a # w /\ a # None => (a \in Holders(r)' <=> a \in Holders(r))
      BY <1>1, <1>4, HoldersHere
    <3>3. None \notin Holders(r) /\ None \notin Holders(r)'
      BY <1>1, <1>4, HoldersHere
    <3>4. QED  BY <1>1, <3>1, <3>2, <3>3
  <2>2. nRef'[r] = Cardinality(Holders(r)') /\ Holders(r)' # {}  BY <1>1, <2>1
  <2>3. CountOK(r)' /\ OwnerOK(r)' /\ AloneOK(r)'
    BY <1>1, <1>4, <2>2, OrdinaryStep, Kinds
  <2>4. ListOK(r)' /\ ListChange(r)  BY <1>1, <1>4, ListKept, Kinds
  <2>5. OwnersChange(r)  BY <1>1, <2>1 DEF OwnersChange
  <2>6. QED  BY <2>3, <2>4, <2>5 DEF SockOK
<1>8. QED  BY <1>2, <1>3, <1>4, <1>5, <1>6, <1>7, Here

(* LoopDone: GetCmdDataLength found no further frame. *)
LEMMA LoopDoneOK ==
  ASSUME SessionInv, NEW w \in Workers, LoopDone(w) PROVE SessionInv' /\ SessionStep
<1>1. wk[w] \in WorkerStates /\ wk[w].pc = "loop" /\ 0 \in 0..MaxBatch
  BY SessionAssumption DEF SessionInv, TypeOK, WorkerStates, LoopDone
<1>2. wk' = [wk EXCEPT ![w] = [wk[w] EXCEPT !.pc = "repost", !.via = "none", !.n = 0]]
  BY DEF LoopDone, SessionInv, TypeOK
<1>3. wk'[w] = [wk[w] EXCEPT !.pc = "repost", !.via = "none", !.n = 0]
  BY <1>2 DEF SessionInv, TypeOK
<1>4. wk'[w] \in WorkerStates /\ wk'[w].pc = "repost" /\ wk'[w].r = wk[w].r
      /\ wk'[w].x = wk[w].x /\ wk'[w].y = wk[w].y
  BY <1>1, <1>3 DEF WorkerStates, PCs
<1>5. sock' \in [RSocks -> {"open", "invalid"}]
  BY DEF LoopDone, SessionInv, TypeOK
<1>6. UNCHANGED <<at, rel, nRef, lstSend, left, pendingMap, sweep>>
  BY DEF LoopDone
<1>7. QED  BY <1>1, <1>2, <1>3, <1>4, <1>5, <1>6, WorkerMoves

(* Client_PostZeroRecv fails, or a command is given up. *)
LEMMA GivesUpOK ==
  ASSUME SessionInv, NEW w \in Workers,
         PostZeroRecvFails(w) \/ Client_CmdCompletionFailed(w)
  PROVE  SessionInv' /\ SessionStep
<1>1. wk[w] \in WorkerStates /\ wk[w].pc \in {"repost", "cmd"}
  BY DEF SessionInv, TypeOK, WorkerStates, PostZeroRecvFails, Client_CmdCompletionFailed
<1>2. wk' = [wk EXCEPT ![w] = [wk[w] EXCEPT !.pc = "drop"]]
  BY DEF SessionInv, TypeOK, PostZeroRecvFails, Client_CmdCompletionFailed, GoTo
<1>3. wk'[w] = [wk[w] EXCEPT !.pc = "drop"]  BY <1>2 DEF SessionInv, TypeOK
<1>4. wk'[w] \in WorkerStates /\ wk'[w].pc = "drop" /\ wk'[w].r = wk[w].r
      /\ wk'[w].x = wk[w].x /\ wk'[w].y = wk[w].y
  BY <1>1, <1>3 DEF WorkerStates, PCs
<1>5. UNCHANGED <<at, rel, nRef, sock, lstSend, left, pendingMap, sweep>>
  BY DEF PostZeroRecvFails, Client_CmdCompletionFailed
<1>6. sock' \in [RSocks -> {"open", "invalid"}]  BY <1>5 DEF SessionInv, TypeOK
<1>7. QED  BY <1>1, <1>2, <1>3, <1>4, <1>5, <1>6, WorkerMoves

(* A worker that moves stays a worker; the others stay where they are. *)
LEMMA SetWorker ==
  ASSUME TypeOK, NEW w \in Workers, NEW k \in WorkerStates, wk' = [wk EXCEPT ![w] = k]
  PROVE  /\ wk'[w] = k
         /\ \A v \in Workers : v # w => wk'[v] = wk[v]
         /\ wk' \in [Workers -> WorkerStates]
  BY DEF TypeOK, WorkerStates

(* A worker between two packets has nothing. *)
LEMMA IdleState ==
  Idle \in WorkerStates /\ Idle.pc = "idle" /\ Idle.r = None /\ Idle.x = None /\ Idle.y = None
<1>1. 0 \in 0..MaxBatch  BY SessionAssumption
<1>2. QED  BY <1>1 DEF Idle, WorkerStates, PCs

(* A packet other than an accept is taken: its reference passes from the
   object to the worker. *)
LEMMA Taken ==
  ASSUME SessionInv, NEW w \in Workers, NEW x \in Objs,
         wk[w] = Idle,
         at[x] \in {"zero", "recv", "posted"},
         at' = [at EXCEPT ![x] = "held"],
         wk' = [wk EXCEPT ![w] = wk'[w]], wk'[w] \in WorkerStates,
         wk'[w].r = rel[x], wk'[w].x = x, wk'[w].y = None,
         \/ x \in RObjs /\ wk'[w].pc \in {"loop", "drop"}
         \/ x \in BObjs /\ wk'[w].pc = "cmd",
         UNCHANGED <<rel, nRef, sock, lstSend, left, pendingMap, sweep>>
  PROVE  SessionInv' /\ SessionStep
<1> DEFINE r == rel[x]
<1>1. r \in RSocks  BY DEF SessionInv, ObjOK, Pending
<1>2. wk[w].r = None /\ wk[w].x = None /\ wk[w].y = None /\ wk[w].pc = "idle"
  BY IdleState
<1>3. /\ \A v \in Workers : v # w => wk'[v] = wk[v]
      /\ wk' \in [Workers -> WorkerStates]
  BY SetWorker DEF SessionInv
<1>4. at' \in [RSocks \cup Objs -> Places] /\ at'[x] = "held" /\ at'[r] = at[r]
      /\ \A z \in Objs \cup RSocks : z # x => at'[z] = at[z]
  BY <1>1, Kinds DEF SessionInv, TypeOK, Places
<1>5. TypeOK'  BY <1>3, <1>4 DEF SessionInv, TypeOK, WorkerStates
<1>6. PlacesOK'  BY <1>4, Kinds DEF SessionInv, PlacesOK
<1>7. Touches(w, x, r)
  BY <1>1, <1>2, <1>3, <1>4, Kinds DEF Touches, Loose, Pending
<1>8. Apart'  BY <1>7, StayApart
<1>9. WorkerOK(w)'  BY <1>1, <1>4, Kinds DEF WorkerOK, Owning, RefPCs
<1>10. ObjOK(x)'  BY <1>4 DEF ObjOK, Pending
<1>11. SockOK(r)' /\ OwnersChange(r) /\ ListChange(r)
  <2>1. x \in Holders(r) /\ x \notin Holders(r)' /\ w \notin Holders(r) /\ w \in Holders(r)'
    BY <1>1, <1>2, <1>4, <1>7, HoldersHere, Kinds DEF Pending, RefPCs
  <2>2. \A a : a # w /\ a # x => (a \in Holders(r)' <=> a \in Holders(r))
    BY <1>1, <1>7, HoldersHere
  <2>3. Holders(r)' = (Holders(r) \ {x}) \cup {w}  BY <2>1, <2>2
  <2>4. Cardinality(Holders(r)') = Cardinality(Holders(r))
    BY <1>1, <2>1, <2>3, CountPass, HoldersFinite
  <2>5. at[r] = "used" /\ nRef[r] = Cardinality(Holders(r))
    BY <1>1, <2>1 DEF SessionInv, SockOK, CountOK
  <2>6. CountOK(r)' /\ OwnerOK(r)' /\ AloneOK(r)'
    BY <1>1, <1>4, <1>7, <2>1, <2>4, <2>5, OrdinaryStep, Kinds
  <2>7. ListOK(r)' /\ ListChange(r)  BY <1>1, <1>2, <1>4, <1>7, <2>5, ListKept, Kinds
  <2>8. OwnersChange(r)  BY <1>1, <1>4, <2>1, <2>3 DEF OwnersChange
  <2>9. QED  BY <2>6, <2>7, <2>8 DEF SockOK
<1>12. QED  BY <1>5, <1>6, <1>7, <1>8, <1>9, <1>10, <1>11, Here

(* Client_RecvCompletionFailed goes on to give the reference up, ... *)
LEMMA RecvFailedOK ==
  ASSUME SessionInv, NEW w \in Workers, NEW o \in RObjs, Client_RecvCompletionFailed(w, o)
  PROVE  SessionInv' /\ SessionStep
<1> DEFINE k == [Idle EXCEPT !.pc = "drop", !.r = rel[o], !.x = o]
<1>1. k \in WorkerStates /\ k.pc = "drop" /\ k.r = rel[o] /\ k.x = o /\ k.y = None
  BY IdleState, Fields, Kinds DEF Idle, WorkerStates, PCs, SessionInv
<1> HIDE DEF k
<1>2. wk' = [wk EXCEPT ![w] = k]  BY DEF Client_RecvCompletionFailed, k
<1>3. wk'[w] = k  BY <1>1, <1>2, SetWorker DEF SessionInv
<1>4. QED  BY <1>1, <1>2, <1>3, Taken, Kinds DEF Client_RecvCompletionFailed

(* ... Client_RecvCompletionSuccess to the frame loop, ... *)
LEMMA RecvSuccessOK ==
  ASSUME SessionInv, NEW w \in Workers, NEW o \in RObjs, Client_RecvCompletionSuccess(w, o)
  PROVE  SessionInv' /\ SessionStep
<1> DEFINE k == [Idle EXCEPT !.pc = "loop", !.r = rel[o], !.x = o, !.via = "recv"]
<1>1. k \in WorkerStates /\ k.pc = "loop" /\ k.r = rel[o] /\ k.x = o /\ k.y = None
  BY IdleState, Fields, Kinds DEF Idle, WorkerStates, PCs, SessionInv
<1> HIDE DEF k
<1>2. wk' = [wk EXCEPT ![w] = k]  BY DEF Client_RecvCompletionSuccess, k
<1>3. wk'[w] = k  BY <1>1, <1>2, SetWorker DEF SessionInv
<1>4. QED  BY <1>1, <1>2, <1>3, Taken, Kinds DEF Client_RecvCompletionSuccess

(* ... and a command to its handler. *)
LEMMA CmdStartsOK ==
  ASSUME SessionInv, NEW w \in Workers, NEW b \in BObjs, CmdStarts(w, b)
  PROVE  SessionInv' /\ SessionStep
<1> DEFINE k == [Idle EXCEPT !.pc = "cmd", !.r = rel[b], !.x = b]
<1>1. k \in WorkerStates /\ k.pc = "cmd" /\ k.r = rel[b] /\ k.x = b /\ k.y = None
  BY IdleState, Fields, Kinds DEF Idle, WorkerStates, PCs, SessionInv
<1> HIDE DEF k
<1>2. wk' = [wk EXCEPT ![w] = k]  BY DEF CmdStarts, k
<1>3. wk'[w] = k  BY <1>1, <1>2, SetWorker DEF SessionInv
<1>4. QED  BY <1>1, <1>2, <1>3, Taken, Kinds DEF CmdStarts

(* A packet is taken and the object is pending again at once: it keeps its
   reference and the worker keeps nothing. *)
LEMMA StaysPending ==
  ASSUME SessionInv, NEW x \in Objs, NEW p,
         \/ x \in RObjs /\ at[x] = "zero" /\ p = "recv"
         \/ x \in BObjs /\ at[x] = "posted" /\ p = "dropped",
         at' = [at EXCEPT ![x] = p],
         UNCHANGED <<rel, nRef, sock, lstSend, left, pendingMap, sweep, wk>>
  PROVE  SessionInv' /\ SessionStep
<1> DEFINE r == rel[x]
<1>1. r \in RSocks  BY DEF SessionInv, ObjOK, Pending
<1>2. at' \in [RSocks \cup Objs -> Places] /\ at'[x] = p /\ at'[r] = at[r]
      /\ \A z \in Objs \cup RSocks : z # x => at'[z] = at[z]
  BY <1>1, Kinds DEF SessionInv, TypeOK, Places, Pending
<1>3. TypeOK'  BY <1>2 DEF SessionInv, TypeOK
<1>4. PlacesOK'  BY <1>2, Kinds DEF SessionInv, PlacesOK
<1>5. Touches(None, x, r)
  BY <1>1, <1>2, Kinds DEF Touches, Loose, Pending
<1>6. Apart'  BY <1>5, StayApart
<1>7. ObjOK(x)'  BY <1>1, <1>2 DEF ObjOK, Pending
<1>8. SockOK(r)' /\ OwnersChange(r) /\ ListChange(r)
  <2>1. x \in Holders(r) /\ x \in Holders(r)'
    BY <1>1, <1>2, <1>5, HoldersHere, Kinds DEF Pending
  <2>2. \A a : a # None /\ a # x => (a \in Holders(r)' <=> a \in Holders(r))
    BY <1>1, <1>5, HoldersHere
  <2>3. None \notin Holders(r) /\ None \notin Holders(r)'  BY <1>1, <1>5, HoldersHere
  <2>4. Holders(r)' = Holders(r)  BY <2>1, <2>2, <2>3
  <2>5. at[r] = "used" /\ nRef[r] = Cardinality(Holders(r))
    BY <1>1, <2>1 DEF SessionInv, SockOK, CountOK
  <2>6. CountOK(r)' /\ OwnerOK(r)' /\ AloneOK(r)'
    BY <1>1, <1>2, <1>5, <2>1, <2>4, <2>5, OrdinaryStep, Kinds
  <2>7. ListOK(r)' /\ ListChange(r)  BY <1>1, <1>2, <1>5, <2>5, ListKept, Kinds
  <2>8. OwnersChange(r)  BY <1>1, <1>2, <2>4 DEF OwnersChange
  <2>9. QED  BY <2>6, <2>7, <2>8 DEF SockOK
<1>9. QED  BY <1>3, <1>4, <1>5, <1>6, <1>7, <1>8, Here, Kinds

(* Client_ZeroRecvCompletionSuccess posts the real receive. *)
LEMMA ZeroRecvOK ==
  ASSUME SessionInv, NEW w \in Workers, NEW o \in RObjs, Client_ZeroRecvCompletionSuccess(w, o)
  PROVE  SessionInv' /\ SessionStep
  BY StaysPending, Kinds DEF Client_ZeroRecvCompletionSuccess

(* Client_CmdCompletionSuccess, with its body commented out. *)
LEMMA CmdSuccessOK ==
  ASSUME SessionInv, NEW w \in Workers, NEW b \in BObjs, Client_CmdCompletionSuccess(w, b)
  PROVE  SessionInv' /\ SessionStep
  BY StaysPending, Kinds DEF Client_CmdCompletionSuccess

-----------------------------------------------------------------------------
(* The frame loop: AddRef for a new command ... *)
LEMMA LoopFrameOK ==
  ASSUME SessionInv, NEW w \in Workers, NEW b \in BObjs, LoopFrame(w, b)
  PROVE  SessionInv' /\ SessionStep
<1> DEFINE k == [wk[w] EXCEPT !.pc = "post", !.y = b, !.n = wk[w].n + 1]
<1> wk[w].pc \in RefPCs  BY DEF RefPCs, LoopFrame
<1>r. PICK r \in RSocks : r = wk[w].r  BY Owner DEF Owning
<1>1. at[r] = "used" /\ SockOK(r) /\ WorkerOK(w) /\ w \in Holders(r)
      /\ nRef[r] = Cardinality(Holders(r)) /\ wk[w].r = r
  BY <1>r, Owner DEF Owning
<1>2. wk[w].pc = "loop" /\ wk[w].y = None /\ wk[w].x \in RObjs /\ at[b] \in {"pool", "heap"}
  BY <1>1, AvailableIsFree DEF LoopFrame, WorkerOK
<1>3. k \in WorkerStates /\ k.pc = "post" /\ k.r = r /\ k.x = wk[w].x /\ k.y = b
  <2>1. wk[w] \in WorkerStates /\ wk[w].n < MaxBatch
    BY DEF SessionInv, TypeOK, WorkerStates, LoopFrame
  <2>2. wk[w].n + 1 \in 0..MaxBatch  BY <2>1, SessionAssumption DEF WorkerStates
  <2>3. QED  BY <1>1, <2>1, <2>2 DEF WorkerStates, PCs
<1> HIDE DEF k
<1>4. wk' = [wk EXCEPT ![w] = k]  BY DEF LoopFrame, k, SessionInv, TypeOK
<1>5. /\ wk'[w] = k
      /\ \A v \in Workers : v # w => wk'[v] = wk[v]
      /\ wk' \in [Workers -> WorkerStates]
  BY <1>3, <1>4, SetWorker DEF SessionInv
<1>6. at' \in [RSocks \cup Objs -> Places] /\ at'[b] = "made" /\ at'[r] = at[r]
      /\ \A z \in Objs \cup RSocks : z # b => at'[z] = at[z]
  BY <1>1, Kinds DEF SessionInv, TypeOK, Places, Pending, LoopFrame
<1>7. rel' \in [Objs -> RSocks \cup {None}] /\ rel'[b] = r
      /\ \A z \in Objs : z # b => rel'[z] = rel[z]
  BY <1>1, Kinds DEF SessionInv, TypeOK, LoopFrame
<1>8. nRef' \in [RSocks -> Nat] /\ nRef'[r] = nRef[r] + 1
      /\ \A s \in RSocks : s # r => nRef'[s] = nRef[s]
  BY <1>1 DEF SessionInv, TypeOK, LoopFrame
<1>9. TypeOK'
  <2>1. left' \in [BObjs -> 0..ReplySize]
    BY SessionAssumption DEF SessionInv, TypeOK, LoopFrame
  <2>2. QED  BY <1>5, <1>6, <1>7, <1>8, <2>1 DEF SessionInv, TypeOK, WorkerStates, LoopFrame
<1>10. PlacesOK'  BY <1>6, Kinds DEF SessionInv, PlacesOK
<1>11. Touches(w, b, r)
  BY <1>1, <1>2, <1>3, <1>5, <1>6, <1>7, <1>8, Kinds DEF Touches, Loose, Pending, LoopFrame
<1>12. Apart'  BY <1>3, <1>5, <1>11, StayApart
<1>13. WorkerOK(w)'
  <2>1. wk[w].x \in Objs /\ wk[w].x # b  BY <1>2, Kinds
  <2>2. QED  BY <1>1, <1>2, <1>3, <1>5, <1>6, <1>7, <2>1, Kinds DEF WorkerOK, Owning, RefPCs
<1>14. ObjOK(b)'  BY <1>1, <1>6, <1>7 DEF ObjOK, Pending
<1>15. SockOK(r)' /\ OwnersChange(r) /\ ListChange(r)
  <2>1. b \notin Holders(r) /\ b \in Holders(r)' /\ w \in Holders(r)'
    BY <1>1, <1>2, <1>3, <1>5, <1>6, <1>11, HoldersHere, Kinds DEF Pending, RefPCs
  <2>2. \A a : a # w /\ a # b => (a \in Holders(r)' <=> a \in Holders(r))
    BY <1>1, <1>11, HoldersHere
  <2>3. Holders(r)' = Holders(r) \cup {b}  BY <1>1, <2>1, <2>2
  <2>4. Cardinality(Holders(r)') = Cardinality(Holders(r)) + 1
    BY <1>1, <2>1, <2>3, CountAdd, HoldersFinite
  <2>5. CountOK(r)' /\ OwnerOK(r)' /\ AloneOK(r)'
    BY <1>1, <1>2, <1>3, <1>5, <1>6, <1>8, <1>11, <2>1, <2>4, OrdinaryStep, Kinds
  <2>6. lstSend' = lstSend  BY DEF LoopFrame
  <2>7. ListOK(r)' /\ ListChange(r)  BY <1>1, <1>2, <1>3, <1>5, <1>6, <1>11, <2>6, ListKept, Kinds
  <2>8. OwnersChange(r)  BY <1>1, <1>6, <2>1, <2>3, Kinds DEF OwnersChange
  <2>9. QED  BY <2>5, <2>7, <2>8 DEF SockOK
<1>16. QED  BY <1>9, <1>10, <1>11, <1>12, <1>13, <1>14, <1>15, Here

(* ... whose packet is posted, ... *)
LEMMA PostCmdOK ==
  ASSUME SessionInv, NEW w \in Workers, PostCmd(w)
  PROVE  SessionInv' /\ SessionStep
<1> DEFINE k == [wk[w] EXCEPT !.pc = "loop", !.y = None]
<1> wk[w].pc \in RefPCs  BY DEF RefPCs, PostCmd
<1>r. PICK r \in RSocks : r = wk[w].r  BY Owner DEF Owning
<1>b. PICK b \in BObjs : b = wk[w].y
  BY Fields DEF SessionInv, WorkerOK, PostCmd
<1>1. at[r] = "used" /\ SockOK(r) /\ WorkerOK(w) /\ w \in Holders(r)
      /\ nRef[r] = Cardinality(Holders(r)) /\ wk[w].r = r /\ wk[w].y = b
  BY <1>r, <1>b, Owner DEF Owning
<1>2. wk[w].pc = "post" /\ wk[w].x \in RObjs /\ at[b] = "made" /\ rel[b] = r
  BY <1>1, Kinds DEF PostCmd, WorkerOK, SessionInv
<1>3. k \in WorkerStates /\ k.pc = "loop" /\ k.r = r /\ k.x = wk[w].x /\ k.y = None
  <2>1. TypeOK /\ "loop" \in PCs  BY DEF SessionInv, PCs
  <2>2. QED  BY <2>1, <1>1, GoesOn
<1> HIDE DEF k
<1>4. wk' = [wk EXCEPT ![w] = k]  BY DEF PostCmd, k, SessionInv, TypeOK
<1>5. /\ wk'[w] = k
      /\ \A v \in Workers : v # w => wk'[v] = wk[v]
      /\ wk' \in [Workers -> WorkerStates]
  BY <1>3, <1>4, SetWorker DEF SessionInv
<1>6. at' \in [RSocks \cup Objs -> Places] /\ at'[b] = "posted" /\ at'[r] = at[r]
      /\ \A z \in Objs \cup RSocks : z # b => at'[z] = at[z]
  BY <1>1, <1>2, Kinds DEF SessionInv, TypeOK, Places, Pending, PostCmd
<1>7. UNCHANGED <<rel, nRef, sock, lstSend, left, pendingMap, sweep>>
  BY DEF PostCmd
<1>8. TypeOK'  BY <1>5, <1>6, <1>7 DEF SessionInv, TypeOK, WorkerStates
<1>9. PlacesOK'  BY <1>2, <1>6, Kinds DEF SessionInv, PlacesOK
<1>10. Touches(w, b, r)
  BY <1>1, <1>2, <1>3, <1>5, <1>6, <1>7, Kinds DEF Touches, Loose, Pending
<1>11. Apart'  BY <1>3, <1>5, <1>10, StayApart
<1>12. WorkerOK(w)'
  <2>1. wk[w].x \in Objs /\ wk[w].x # b  BY <1>2, Kinds
  <2>2. QED  BY <1>1, <1>2, <1>3, <1>5, <1>6, <1>7, <2>1, Kinds DEF WorkerOK, Owning, RefPCs
<1>13. ObjOK(b)'  BY <1>1, <1>2, <1>6, <1>7 DEF ObjOK, Pending
<1>14. SockOK(r)' /\ OwnersChange(r) /\ ListChange(r)
  <2>1. b \in Holders(r) /\ b \in Holders(r)' /\ w \in Holders(r)'
    BY <1>1, <1>2, <1>3, <1>5, <1>6, <1>10, HoldersHere, Kinds DEF Pending, RefPCs
  <2>2. \A a : a # w /\ a # b => (a \in Holders(r)' <=> a \in Holders(r))
    BY <1>1, <1>10, HoldersHere
  <2>3. Holders(r)' = Holders(r)  BY <1>1, <2>1, <2>2
  <2>4. CountOK(r)' /\ OwnerOK(r)' /\ AloneOK(r)'
    BY <1>1, <1>2, <1>3, <1>5, <1>6, <1>7, <1>10, <2>1, <2>3, OrdinaryStep, Kinds
  <2>5. ListOK(r)' /\ ListChange(r)  BY <1>1, <1>2, <1>3, <1>5, <1>6, <1>7, <1>10, ListKept, Kinds
  <2>6. OwnersChange(r)  BY <1>6, <2>3 DEF OwnersChange
  <2>7. QED  BY <2>4, <2>5, <2>6 DEF SockOK
<1>15. QED  BY <1>8, <1>9, <1>10, <1>11, <1>12, <1>13, <1>14, Here, Kinds

(* ... or, if the port refuses it, taken back: the receive handler's check
   for 0 is never true here, since its own reference is still counted. *)
LEMMA PostCmdFailsOK ==
  ASSUME SessionInv, NEW w \in Workers, PostCmdFails(w)
  PROVE  SessionInv' /\ SessionStep
<1> DEFINE k == [wk[w] EXCEPT !.pc = "loop", !.y = None]
<1> wk[w].pc \in RefPCs  BY DEF RefPCs, PostCmdFails
<1>r. PICK r \in RSocks : r = wk[w].r  BY Owner DEF Owning
<1>b. PICK b \in BObjs : b = wk[w].y
  BY Fields DEF SessionInv, WorkerOK, PostCmdFails
<1>1. at[r] = "used" /\ SockOK(r) /\ WorkerOK(w) /\ w \in Holders(r)
      /\ nRef[r] = Cardinality(Holders(r)) /\ wk[w].r = r /\ wk[w].y = b
  BY <1>r, <1>b, Owner DEF Owning
<1>2. wk[w].pc = "post" /\ wk[w].x \in RObjs /\ at[b] = "made" /\ rel[b] = r
  BY <1>1, Kinds DEF PostCmdFails, WorkerOK, SessionInv
<1>3. k \in WorkerStates /\ k.pc = "loop" /\ k.r = r /\ k.x = wk[w].x /\ k.y = None
  <2>1. TypeOK /\ "loop" \in PCs  BY DEF SessionInv, PCs
  <2>2. QED  BY <2>1, <1>1, GoesOn
<1> HIDE DEF k
<1>4. b \in Holders(r)  BY <1>2, Kinds DEF Holders, Pending
<1>5. nRef[r] >= 2 /\ nRef[r] \in Nat /\ Cardinality(Holders(r) \ {b}) = nRef[r] - 1
  <2>1. IsFiniteSet(Holders(r)) /\ Cardinality(Holders(r)) \in Nat
    BY <1>1, HoldersFinite
  <2>2. Cardinality(Holders(r) \ {b}) = Cardinality(Holders(r)) - 1
        /\ Cardinality(Holders(r)) >= 1
        /\ (Cardinality(Holders(r)) = 1 => Holders(r) = {b})
    BY <1>4, <2>1, CountDrop
  <2>3. Holders(r) # {b}  BY <1>1, <1>2, Kinds
  <2>4. QED  BY <1>1, <2>1, <2>2, <2>3
<1>6. nRef' \in [RSocks -> Nat] /\ nRef'[r] = nRef[r] - 1 /\ nRef'[r] # 0
      /\ \A s \in RSocks : s # r => nRef'[s] = nRef[s]
  BY <1>1, <1>5 DEF SessionInv, TypeOK, PostCmdFails
<1>7. wk' = [wk EXCEPT ![w] = k]
  <2>1. wk' = [wk EXCEPT ![w].pc = "loop", ![w].y = None]  BY <1>6 DEF PostCmdFails
  <2>2. QED  BY <2>1 DEF k, SessionInv, TypeOK
<1>8. /\ wk'[w] = k
      /\ \A v \in Workers : v # w => wk'[v] = wk[v]
      /\ wk' \in [Workers -> WorkerStates]
  BY <1>3, <1>7, SetWorker DEF SessionInv
<1>9. at' \in [RSocks \cup Objs -> Places] /\ at'[b] \in {"pool", "heap"} /\ at'[r] = at[r]
      /\ \A z \in Objs \cup RSocks : z # b => at'[z] = at[z]
  BY <1>1, <1>2, FreedPlace, Kinds DEF SessionInv, TypeOK, Places, PostCmdFails
<1>10. rel' \in [Objs -> RSocks \cup {None}]
       /\ \A z \in Objs : z # b => rel'[z] = rel[z]
  BY <1>1, <1>2, Kinds DEF SessionInv, TypeOK, PostCmdFails
<1>11. UNCHANGED <<sock, lstSend, left, pendingMap, sweep>>  BY DEF PostCmdFails
<1>12. TypeOK'
  BY <1>6, <1>8, <1>9, <1>10, <1>11 DEF SessionInv, TypeOK, WorkerStates
<1>13. PlacesOK'  BY <1>2, <1>9, Kinds DEF SessionInv, PlacesOK
<1>14. Touches(w, b, r)
  BY <1>1, <1>2, <1>3, <1>6, <1>8, <1>9, <1>10, <1>11, Kinds DEF Touches, Loose, Pending
<1>15. Apart'  BY <1>3, <1>8, <1>14, StayApart
<1>16. WorkerOK(w)'
  <2>1. wk[w].x \in Objs /\ wk[w].x # b  BY <1>2, Kinds
  <2>2. QED  BY <1>1, <1>2, <1>3, <1>8, <1>9, <1>10, <2>1, Kinds DEF WorkerOK, Owning, RefPCs
<1>17. ObjOK(b)'  BY <1>9 DEF ObjOK, Pending
<1>18. SockOK(r)' /\ OwnersChange(r) /\ ListChange(r)
  <2>1. b \notin Holders(r)' /\ w \in Holders(r)'
    BY <1>1, <1>2, <1>3, <1>8, <1>9, <1>14, HoldersHere, Kinds DEF Pending, RefPCs
  <2>2. \A a : a # w /\ a # b => (a \in Holders(r)' <=> a \in Holders(r))
    BY <1>1, <1>14, HoldersHere
  <2>3. Holders(r)' = Holders(r) \ {b}  BY <1>1, <2>1, <2>2
  <2>4. CountOK(r)' /\ OwnerOK(r)' /\ AloneOK(r)'
    BY <1>1, <1>2, <1>3, <1>5, <1>6, <1>8, <1>9, <1>14, <2>1, <2>3, OrdinaryStep, Kinds
  <2>5. ListOK(r)' /\ ListChange(r)  BY <1>1, <1>2, <1>3, <1>8, <1>9, <1>11, <1>14, ListKept, Kinds
  <2>6. OwnersChange(r)  BY <1>4, <1>9, <2>3, Kinds DEF OwnersChange
  <2>7. QED  BY <2>4, <2>5, <2>6 DEF SockOK
<1>19. QED  BY <1>12, <1>13, <1>14, <1>15, <1>16, <1>17, <1>18, Here, Kinds

(* Client_PostZeroRecv: the worker's reference passes to the operation. *)
LEMMA PostZeroRecvOK ==
  ASSUME SessionInv, NEW w \in Workers, Client_PostZeroRecv(w)
  PROVE  SessionInv' /\ SessionStep
<1> wk[w].pc \in RefPCs  BY DEF RefPCs, Client_PostZeroRecv
<1>r. PICK r \in RSocks : r = wk[w].r  BY Owner DEF Owning
<1>x. PICK x \in RObjs : x = wk[w].x
  BY DEF SessionInv, WorkerOK, Client_PostZeroRecv
<1>1. at[r] = "used" /\ SockOK(r) /\ WorkerOK(w) /\ w \in Holders(r)
      /\ nRef[r] = Cardinality(Holders(r)) /\ wk[w].r = r /\ wk[w].x = x
  BY <1>r, <1>x, Owner DEF Owning
<1>2. wk[w].pc = "repost" /\ at[x] = "held" /\ rel[x] = r /\ x \in Objs /\ wk[w].y = None
  BY <1>1, Kinds DEF Client_PostZeroRecv, WorkerOK
<1>3. /\ wk'[w] = Idle
      /\ \A v \in Workers : v # w => wk'[v] = wk[v]
      /\ wk' \in [Workers -> WorkerStates]
  BY IdleState, SetWorker DEF SessionInv, Client_PostZeroRecv, Return
<1>4. at' \in [RSocks \cup Objs -> Places] /\ at'[x] = "zero" /\ at'[r] = at[r]
      /\ \A z \in Objs \cup RSocks : z # x => at'[z] = at[z]
  BY <1>1, <1>2, Kinds DEF SessionInv, TypeOK, Places, Pending, Client_PostZeroRecv
<1>5. UNCHANGED <<rel, nRef, sock, lstSend, left, pendingMap, sweep>>
  BY DEF Client_PostZeroRecv
<1>6. TypeOK'  BY <1>3, <1>4, <1>5 DEF SessionInv, TypeOK, WorkerStates
<1>7. PlacesOK'  BY <1>2, <1>4, Kinds DEF SessionInv, PlacesOK
<1>8. Touches(w, x, r)
  BY <1>1, <1>2, <1>3, <1>4, <1>5, IdleState, Kinds DEF Touches, Pending
<1>9. Apart'  BY <1>3, <1>8, IdleState, StayApart
<1>10. WorkerOK(w)'
  BY <1>3, IdleState DEF WorkerOK, Owning, RefPCs, Closing
<1>11. ObjOK(x)'  BY <1>2, <1>4, <1>5 DEF ObjOK, Pending
<1>12. SockOK(r)' /\ OwnersChange(r) /\ ListChange(r)
  <2>1. x \notin Holders(r) /\ x \in Holders(r)' /\ w \notin Holders(r)'
    BY <1>1, <1>2, <1>3, <1>4, <1>8, IdleState, HoldersHere, Kinds DEF Pending, RefPCs
  <2>2. \A a : a # w /\ a # x => (a \in Holders(r)' <=> a \in Holders(r))
    BY <1>8, HoldersHere
  <2>3. Holders(r)' = (Holders(r) \ {w}) \cup {x}  BY <1>1, <2>1, <2>2
  <2>4. Cardinality(Holders(r)') = Cardinality(Holders(r))
    BY <1>1, <2>1, <2>3, CountPass, HoldersFinite
  <2>5. CountOK(r)' /\ OwnerOK(r)' /\ AloneOK(r)'
    BY <1>1, <1>2, <1>3, <1>4, <1>5, <1>8, <2>1, <2>4, IdleState, OrdinaryStep, Kinds
  <2>6. ListOK(r)' /\ ListChange(r)
    BY <1>1, <1>2, <1>3, <1>4, <1>5, <1>8, IdleState, ListKept, Kinds
  <2>7. OwnersChange(r)  BY <1>1, <1>2, <1>4, <2>1, <2>3 DEF OwnersChange
  <2>8. QED  BY <2>5, <2>6, <2>7 DEF SockOK
<1>13. QED  BY <1>6, <1>7, <1>8, <1>9, <1>10, <1>11, <1>12, Here

-----------------------------------------------------------------------------
(* A worker that is done with its RECV_SOCK, but may still have an object. *)
Done(w) == IF wk[w].x = None THEN Idle ELSE [wk[w] EXCEPT !.pc = "freeObj", !.r = None]

(* It is a state of a worker, with no RECV_SOCK. *)
LEMMA DoneState ==
  ASSUME TypeOK, NEW w \in Workers
  PROVE  /\ Done(w) \in WorkerStates
         /\ Done(w).pc = IF wk[w].x = None THEN "idle" ELSE "freeObj"
         /\ Done(w).r = None /\ Done(w).x = wk[w].x
         /\ wk[w].y = None => Done(w).y = None
<1>1. wk[w] \in WorkerStates  BY DEF TypeOK, WorkerStates
<1>2. CASE wk[w].x = None  BY <1>2, IdleState DEF Done
<1>3. CASE wk[w].x # None
  <2>1. Done(w) = [wk[w] EXCEPT !.pc = "freeObj", !.r = None]  BY <1>3 DEF Done
  <2>2. QED  BY <1>1, <1>3, <2>1 DEF WorkerStates, PCs
<1>4. QED  BY <1>2, <1>3

(* InterlockedDecrement: one of several owners goes, or the last one does and
   is alone with the RECV_SOCK from now on. *)
LEMMA DropRefOK ==
  ASSUME SessionInv, NEW w \in Workers, DropRef(w)
  PROVE  SessionInv' /\ SessionStep
<1> wk[w].pc \in RefPCs  BY DEF RefPCs, DropRef
<1>r. PICK r \in RSocks : r = wk[w].r  BY Owner DEF Owning
<1>1. at[r] = "used" /\ SockOK(r) /\ WorkerOK(w) /\ w \in Holders(r)
      /\ nRef[r] = Cardinality(Holders(r)) /\ wk[w].r = r /\ w \in Users(r)
  BY <1>r, Owner DEF Owning
<1>2. wk[w].pc = "drop" /\ wk[w].y = None  BY <1>1 DEF DropRef, WorkerOK
<1>3. nRef[r] >= 1 /\ nRef[r] \in Nat /\ Cardinality(Holders(r) \ {w}) = nRef[r] - 1
      /\ (nRef[r] = 1 => Holders(r) = {w})
  BY <1>1, HoldersFinite, CountDrop
<1>4. nRef' \in [RSocks -> Nat] /\ nRef'[r] = nRef[r] - 1
      /\ \A s \in RSocks : s # r => nRef'[s] = nRef[s]
  BY <1>1, <1>3 DEF SessionInv, TypeOK, DropRef
<1> DEFINE last == [wk[w] EXCEPT !.pc = "close"]
           k == IF nRef[r] = 1 THEN last ELSE Done(w)
<1>5. last \in WorkerStates /\ last.pc = "close" /\ last.r = r /\ last.x = wk[w].x
      /\ last.y = None
  <2>1. TypeOK /\ "close" \in PCs  BY DEF SessionInv, PCs
  <2>2. QED  BY <2>1, <1>1, <1>2, GoesOn
<1>6. wk' = [wk EXCEPT ![w] = k]
  <2>1. nRef'[wk[w].r] = 0 <=> nRef[r] = 1  BY <1>1, <1>3, <1>4
  <2>2. QED  BY <2>1 DEF DropRef, SessionInv, TypeOK, Done
<1>7. k \in WorkerStates /\ k.x = wk[w].x /\ k.y = None
      /\ (nRef[r] = 1 => k.pc = "close" /\ k.r = r)
      /\ (nRef[r] # 1 => k.r = None
                         /\ k.pc = IF wk[w].x = None THEN "idle" ELSE "freeObj")
  BY <1>2, <1>5, DoneState DEF SessionInv
<1> HIDE DEF k, last
<1>8. /\ wk'[w] = k
      /\ \A v \in Workers : v # w => wk'[v] = wk[v]
      /\ wk' \in [Workers -> WorkerStates]
  BY <1>6, <1>7, SetWorker DEF SessionInv
<1>9. UNCHANGED <<at, rel, sock, lstSend, left, pendingMap, sweep>>  BY DEF DropRef
<1>10. TypeOK'  BY <1>4, <1>8, <1>9 DEF SessionInv, TypeOK, WorkerStates
<1>11. PlacesOK'  BY <1>9 DEF SessionInv, PlacesOK
<1>12. Touches(w, None, r)
  BY <1>1, <1>4, <1>7, <1>8, <1>9, Kinds DEF Touches
<1>13. Apart'  BY <1>7, <1>8, <1>12, StayApart
<1>14. WorkerOK(w)'
  <2>1. CASE nRef[r] = 1
    BY <2>1, <1>1, <1>2, <1>7, <1>8, <1>9, Kinds DEF WorkerOK, Owning, Closing
  <2>2. CASE nRef[r] # 1
    BY <2>2, <1>1, <1>2, <1>7, <1>8, <1>9, Kinds DEF WorkerOK, Owning, Closing, RefPCs
  <2>3. QED  BY <2>1, <2>2
<1>15. SockOK(r)' /\ OwnersChange(r) /\ ListChange(r)
  <2>1. w \notin Holders(r)'
    BY <1>7, <1>8, <1>12, HoldersHere, Kinds DEF RefPCs
  <2>2. \A a : a # w /\ a # None => (a \in Holders(r)' <=> a \in Holders(r))
    BY <1>12, HoldersHere
  <2>3. None \notin Holders(r) /\ None \notin Holders(r)'  BY <1>12, HoldersHere
  <2>4. Holders(r)' = Holders(r) \ {w}  BY <1>1, <2>1, <2>2, <2>3
  <2>5. CountOK(r)' /\ OwnerOK(r)' /\ AloneOK(r)'
    <3>1. CASE nRef[r] # 1
      <4>1. Holders(r)' # {}
        <5>1. Cardinality(Holders(r) \ {w}) # 0  BY <3>1, <1>3
        <5>2. QED  BY <5>1, <2>4, FS_EmptySet
      <4>2. wk'[w].pc \notin {"refuse", "close", "freeSock"}  BY <3>1, <1>7, <1>8
      <4>3. nRef'[r] = Cardinality(Holders(r)')  BY <1>3, <1>4, <2>4
      <4>4. at'[r] = at[r]  BY <1>9
      <4>5. QED  BY <4>1, <4>2, <4>3, <4>4, <1>1, <1>2, <1>12, OrdinaryStep, Kinds
    <3>2. CASE nRef[r] = 1
      <4>1. Holders(r) = {w} /\ Holders(r)' = {}  BY <3>2, <1>3, <2>4
      <4>2. Users(r) = {w}
        <5>1. ASSUME NEW v \in Users(r), v # w PROVE FALSE
          <6>1. v \in Workers /\ wk[v].r = r /\ WorkerOK(v)
            BY <5>1 DEF Users, SessionInv
          <6>2. wk[v].pc \in Owning  BY <6>1, Kinds DEF WorkerOK
          <6>3. wk[v].pc \in Closing
            BY <4>1, <5>1, <6>1, <6>2 DEF Owning, Holders
          <6>4. QED  BY <5>1, <6>3, <4>1, <1>1 DEF SockOK, AloneOK
        <5>2. QED  BY <5>1, <1>1
      <4>3. w \in Users(r)'  BY <3>2, <1>7, <1>8 DEF Users
      <4>4. Users(r)' = {w}
        <5>1. \A a : a # w => (a \in Users(r)' <=> a \in Users(r))  BY <1>12, HoldersHere
        <5>2. QED  BY <5>1, <4>2, <4>3
      <4>5. CountOK(r)'
        <5>1. Cardinality({}) = 0  BY FS_EmptySet
        <5>2. nRef'[r] = Cardinality(Holders(r)')  BY <3>2, <1>4, <4>1, <5>1
        <5>3. QED  BY <5>2, <1>1, <1>9 DEF CountOK
      <4>6. wk'[w].pc = "close"  BY <3>2, <1>7, <1>8
      <4>7. OwnerOK(r)'  BY <4>3, <4>6 DEF OwnerOK, Closing
      <4>8. \A o \in RObjs : ~(at'[o] = "accept" /\ rel'[o] = r)
        BY <4>1, Kinds DEF Holders, Pending
      <4>9. AloneOK(r)'  BY <4>1, <4>4, <4>6, <4>8 DEF AloneOK
      <4>10. QED  BY <4>5, <4>7, <4>9
    <3>3. QED  BY <3>1, <3>2
  <2>6. ListOK(r)' /\ ListChange(r)  BY <1>1, <1>2, <1>7, <1>8, <1>9, <1>12, ListKept, Kinds
  <2>7. OwnersChange(r)  BY <1>1, <1>9, <2>4 DEF OwnersChange
  <2>8. QED  BY <2>5, <2>6, <2>7 DEF SockOK
<1>16. QED  BY <1>10, <1>11, <1>12, <1>13, <1>14, <1>15, Here

(* CMCloseSocket: still alone. *)
LEMMA CloseSockOK ==
  ASSUME SessionInv, NEW w \in Workers, CloseSock(w)
  PROVE  SessionInv' /\ SessionStep
<1> wk[w].pc \in Closing  BY DEF Closing, CloseSock
<1>r. PICK r \in RSocks : r = wk[w].r  BY Owner DEF Owning
<1>1. at[r] = "used" /\ SockOK(r) /\ WorkerOK(w) /\ w \in Users(r)
      /\ nRef[r] = Cardinality(Holders(r)) /\ wk[w].r = r
  BY <1>r, Owner DEF Owning
<1>2. wk[w].pc = "close" /\ Holders(r) = {} /\ Users(r) = {w}
  BY <1>1 DEF CloseSock, SockOK, AloneOK
<1> DEFINE k == [wk[w] EXCEPT !.pc = "freeSock"]
<1>3. k \in WorkerStates /\ k.pc = "freeSock" /\ k.r = r /\ k.x = wk[w].x /\ k.y = wk[w].y
  <2>1. TypeOK /\ "freeSock" \in PCs  BY DEF SessionInv, PCs
  <2>2. QED  BY <2>1, <1>1, GoesOn
<1> HIDE DEF k
<1>4. wk' = [wk EXCEPT ![w] = k]  BY DEF CloseSock, GoTo, k, SessionInv, TypeOK
<1>5. /\ wk'[w] = k
      /\ \A v \in Workers : v # w => wk'[v] = wk[v]
      /\ wk' \in [Workers -> WorkerStates]
  BY <1>3, <1>4, SetWorker DEF SessionInv
<1>6. UNCHANGED <<at, rel, nRef, lstSend, left, pendingMap, sweep>>  BY DEF CloseSock
<1>7. TypeOK'
  <2>1. sock' \in [RSocks -> {"open", "invalid"}]  BY DEF SessionInv, TypeOK, CloseSock
  <2>2. QED  BY <2>1, <1>5, <1>6 DEF SessionInv, TypeOK, WorkerStates
<1>8. PlacesOK'  BY <1>6 DEF SessionInv, PlacesOK
<1>9. Touches(w, None, r)  BY <1>1, <1>3, <1>5, <1>6, Kinds DEF Touches
<1>10. Apart'  BY <1>3, <1>5, <1>9, StayApart
<1>11. WorkerOK(w)'
  BY <1>1, <1>2, <1>3, <1>5, <1>6, Kinds DEF WorkerOK, Owning, Closing
<1>12. SockOK(r)' /\ OwnersChange(r) /\ ListChange(r)
  <2>1. w \notin Holders(r)'  BY <1>3, <1>5, <1>9, HoldersHere, Kinds DEF RefPCs
  <2>2. \A a : a # w /\ a # None => (a \in Holders(r)' <=> a \in Holders(r))
    BY <1>9, HoldersHere
  <2>3. None \notin Holders(r)'  BY <1>9, HoldersHere
  <2>4. Holders(r)' = {}  BY <1>2, <2>1, <2>2, <2>3
  <2>5. w \in Users(r)'  BY <1>3, <1>5 DEF Users
  <2>6. \A a : a # w => (a \in Users(r)' <=> a \in Users(r))  BY <1>9, HoldersHere
  <2>7. Users(r)' = {w}  BY <1>2, <2>5, <2>6
  <2>8. CountOK(r)'  BY <1>1, <1>2, <1>6, <2>4 DEF CountOK
  <2>9. OwnerOK(r)'  BY <1>3, <1>5, <2>5 DEF OwnerOK, Closing
  <2>10. \A o \in RObjs : ~(at'[o] = "accept" /\ rel'[o] = r)
    BY <2>4, Kinds DEF Holders, Pending
  <2>11. AloneOK(r)'  BY <1>3, <1>5, <2>4, <2>7, <2>10 DEF AloneOK
  <2>12. ListOK(r)' /\ ListChange(r)  BY <1>1, <1>2, <1>3, <1>5, <1>6, <1>9, ListKept, Kinds
  <2>13. OwnersChange(r)  BY <1>2, <1>6, <2>4 DEF OwnersChange
  <2>14. QED  BY <2>8, <2>9, <2>11, <2>12, <2>13 DEF SockOK
<1>13. QED  BY <1>7, <1>8, <1>9, <1>10, <1>11, <1>12, Here

(* freeRSock: the RECV_SOCK has no owner and no user left. *)
LEMMA FreeSockOK ==
  ASSUME SessionInv, NEW w \in Workers, FreeSock(w)
  PROVE  SessionInv' /\ SessionStep
<1> wk[w].pc \in Closing  BY DEF Closing, FreeSock
<1>r. PICK r \in RSocks : r = wk[w].r  BY Owner DEF Owning
<1>1. at[r] = "used" /\ SockOK(r) /\ WorkerOK(w) /\ w \in Users(r) /\ wk[w].r = r
  BY <1>r, Owner DEF Owning
<1>2. wk[w].pc = "freeSock" /\ Holders(r) = {} /\ Users(r) = {w} /\ wk[w].y = None
  BY <1>1 DEF FreeSock, SockOK, AloneOK, WorkerOK
<1>3. wk' = [wk EXCEPT ![w] = Done(w)]
  BY DEF FreeSock, Done, SessionInv, TypeOK
<1>4. /\ wk'[w] = Done(w)
      /\ \A v \in Workers : v # w => wk'[v] = wk[v]
      /\ wk' \in [Workers -> WorkerStates]
  BY <1>3, DoneState, SetWorker DEF SessionInv
<1>5. /\ wk'[w].pc = IF wk[w].x = None THEN "idle" ELSE "freeObj"
      /\ wk'[w].r = None /\ wk'[w].x = wk[w].x /\ wk'[w].y = None
  BY <1>2, <1>4, DoneState DEF SessionInv
<1>6. at' \in [RSocks \cup Objs -> Places] /\ at'[r] \in {"pool", "heap"}
      /\ \A z \in Objs \cup RSocks : z # r => at'[z] = at[z]
  BY <1>1, FreedPlace DEF SessionInv, TypeOK, Places, FreeSock
<1>7. UNCHANGED <<rel, nRef, sock, lstSend, left, pendingMap, sweep>>  BY DEF FreeSock
<1>8. TypeOK'  BY <1>4, <1>6, <1>7 DEF SessionInv, TypeOK, WorkerStates
<1>9. PlacesOK'  BY <1>6, Kinds DEF SessionInv, PlacesOK
<1>10. Touches(w, None, r)
  BY <1>1, <1>4, <1>5, <1>6, <1>7, Kinds DEF Touches
<1>11. Apart'  BY <1>5, <1>10, StayApart
<1>12. WorkerOK(w)'
  <2>1. wk[w].x # None => wk[w].x \in Objs /\ wk[w].x # r
    BY Fields, Kinds DEF SessionInv
  <2>2. wk[w].x # None => at'[wk[w].x] = "held"  BY <1>1, <1>6, <2>1 DEF WorkerOK
  <2>3. QED  BY <1>5, <2>2 DEF WorkerOK, Owning, Closing, RefPCs
<1>13. SockOK(r)' /\ OwnersChange(r) /\ ListChange(r)
  <2>1. w \notin Holders(r)'  BY <1>5, <1>10, HoldersHere, Kinds
  <2>2. \A a : a # w /\ a # None => (a \in Holders(r)' <=> a \in Holders(r))
    BY <1>10, HoldersHere
  <2>3. None \notin Holders(r)'  BY <1>10, HoldersHere
  <2>4. Holders(r)' = {}  BY <1>2, <2>1, <2>2, <2>3
  <2>5. w \notin Users(r)'  BY <1>5, Kinds DEF Users
  <2>6. \A a : a # w => (a \in Users(r)' <=> a \in Users(r))  BY <1>10, HoldersHere
  <2>7. Users(r)' = {}  BY <1>2, <2>5, <2>6
  <2>8. \A o \in RObjs : ~(at'[o] = "accept" /\ rel'[o] = r)
    BY <2>4, Kinds DEF Holders, Pending
  <2>9. OwnersChange(r)  BY <1>1, <1>2, <1>6, <2>4 DEF OwnersChange
  <2>10. ListOK(r)' /\ ListChange(r)
    BY <1>2, <1>5, <1>7, <1>10, ListKept, Kinds
  <2>11. QED
    BY <1>6, <2>4, <2>7, <2>8, <2>9, <2>10 DEF SockOK, CountOK, OwnerOK, AloneOK
<1>14. QED  BY <1>8, <1>9, <1>10, <1>11, <1>12, <1>13, Here

(* freeRObj and freeBObj: the object was this worker's alone. *)
LEMMA FreeObjOK ==
  ASSUME SessionInv, NEW w \in Workers, FreeObj(w)
  PROVE  SessionInv' /\ SessionStep
<1>1. WorkerOK(w) /\ wk[w].pc = "freeObj"  BY DEF SessionInv, FreeObj
<1>x. PICK x \in Objs : x = wk[w].x  BY <1>1, Fields DEF SessionInv, WorkerOK
<1>2. wk[w].x = x /\ at[x] = "held" /\ wk[w].r = None /\ x # None
  BY <1>1, <1>x, Kinds DEF WorkerOK, Owning, RefPCs, Closing
<1>3. /\ wk'[w] = Idle
      /\ \A v \in Workers : v # w => wk'[v] = wk[v]
      /\ wk' \in [Workers -> WorkerStates]
  BY IdleState, SetWorker DEF SessionInv, FreeObj, Return
<1>4. at' \in [RSocks \cup Objs -> Places] /\ at'[x] \in {"pool", "heap"}
      /\ \A z \in Objs \cup RSocks : z # x => at'[z] = at[z]
  BY <1>2, FreedPlace DEF SessionInv, TypeOK, Places, FreeObj
<1>5. rel' \in [Objs -> RSocks \cup {None}]
      /\ \A z \in Objs : z # x => rel'[z] = rel[z]
  BY <1>2 DEF SessionInv, TypeOK, FreeObj
<1>6. UNCHANGED <<nRef, sock, lstSend, left, pendingMap, sweep>>  BY DEF FreeObj
<1>7. TypeOK'  BY <1>3, <1>4, <1>5, <1>6 DEF SessionInv, TypeOK, WorkerStates
<1>8. PlacesOK'  BY <1>4, Kinds DEF SessionInv, PlacesOK
<1>9. Touches(w, x, None)
  BY <1>2, <1>3, <1>4, <1>5, <1>6, IdleState, Kinds DEF Touches, Pending
<1>10. Apart'  BY <1>3, <1>9, IdleState, StayApart
<1>11. WorkerOK(w)'
  BY <1>3, IdleState DEF WorkerOK, Owning, RefPCs, Closing
<1>12. ObjOK(x)'  BY <1>4 DEF ObjOK, Pending
<1>13. QED  BY <1>7, <1>8, <1>9, <1>10, <1>11, <1>12, Here

-----------------------------------------------------------------------------
(* Accepting.  Nobody but its pending accept owns a new RECV_SOCK, so the
   worker that takes the completion is alone with it. *)
LEMMA Accepted ==
  ASSUME SessionInv, NEW w \in Workers, NEW o \in RObjs,
         wk[w] = Idle, at[o] = "accept",
         at' = [at EXCEPT ![o] = "held"],
         wk' = [wk EXCEPT ![w] = wk'[w]], wk'[w] \in WorkerStates,
         wk'[w].r = rel[o], wk'[w].x = o, wk'[w].y = None,
         wk'[w].pc \in {"loop", "refuse"},
         sock' \in [RSocks -> {"open", "invalid"}],
         pendingMap' = pendingMap \ {rel[o]},
         UNCHANGED <<rel, nRef, lstSend, left, sweep>>
  PROVE  SessionInv' /\ SessionStep
<1>r. PICK r \in RSocks : r = rel[o]  BY Kinds DEF SessionInv, ObjOK, Pending
<1>1. rel[o] = r /\ SockOK(r) /\ o \in Objs  BY <1>r, Kinds DEF SessionInv
<1>2. Holders(r) = {o} /\ Users(r) = {}  BY <1>1 DEF SockOK, AloneOK
<1>3. at[r] = "used" /\ nRef[r] = Cardinality(Holders(r))
  BY <1>1, <1>2 DEF SockOK, CountOK
<1>4. wk[w].r = None /\ wk[w].x = None /\ wk[w].y = None /\ wk[w].pc = "idle"
  BY IdleState
<1>5. /\ \A v \in Workers : v # w => wk'[v] = wk[v]
      /\ wk' \in [Workers -> WorkerStates]
  BY SetWorker DEF SessionInv
<1>6. at' \in [RSocks \cup Objs -> Places] /\ at'[o] = "held" /\ at'[r] = at[r]
      /\ \A z \in Objs \cup RSocks : z # o => at'[z] = at[z]
  BY <1>1, Kinds DEF SessionInv, TypeOK, Places
<1>7. TypeOK'
  <2>1. pendingMap' \subseteq RSocks  BY DEF SessionInv, TypeOK
  <2>2. QED  BY <1>5, <1>6, <2>1 DEF SessionInv, TypeOK, WorkerStates
<1>8. PlacesOK'  BY <1>6, Kinds DEF SessionInv, PlacesOK
<1>9. Touches(w, o, r)
  BY <1>1, <1>4, <1>5, <1>6, Kinds DEF Touches, Loose, Pending
<1>10. Apart'  BY <1>9, StayApart
<1>11. WorkerOK(w)'  BY <1>1, <1>6, Kinds DEF WorkerOK, Owning, RefPCs
<1>12. ObjOK(o)'  BY <1>6 DEF ObjOK, Pending
<1>13. SockOK(r)' /\ OwnersChange(r) /\ ListChange(r)
  <2>1. o \notin Holders(r)' /\ w \in Holders(r)'
    BY <1>1, <1>6, <1>9, HoldersHere, Kinds DEF Pending, RefPCs
  <2>2. \A a : a # w /\ a # o => (a \in Holders(r)' <=> a \in Holders(r))
    BY <1>9, HoldersHere
  <2>3. w \notin Holders(r)  BY <1>2, <1>1, Kinds
  <2>4. Holders(r)' = {w}  BY <1>2, <2>1, <2>2
  <2>5. w \in Users(r)'  BY <1>1 DEF Users
  <2>6. \A a : a # w => (a \in Users(r)' <=> a \in Users(r))  BY <1>9, HoldersHere
  <2>7. Users(r)' = {w}  BY <1>2, <2>5, <2>6
  <2>8. nRef'[r] = Cardinality(Holders(r)')
    <3>1. Cardinality({o}) = 1 /\ Cardinality({w}) = 1  BY FS_Singleton
    <3>2. QED  BY <3>1, <1>2, <1>3, <2>4
  <2>9. CountOK(r)' /\ OwnerOK(r)'  BY <1>3, <1>6, <2>4, <2>8 DEF CountOK, OwnerOK
  <2>10. \A z \in RObjs : ~(at'[z] = "accept" /\ rel'[z] = r)
    BY <2>4, Kinds DEF Holders, Pending
  <2>11. AloneOK(r)'  BY <2>4, <2>7, <2>10 DEF AloneOK, Closing
  <2>12. ListOK(r)' /\ ListChange(r)  BY <1>1, <1>3, <1>4, <1>6, <1>9, ListKept, Kinds
  <2>13. OwnersChange(r)  BY <1>1, <1>2, <1>6, <2>1, <2>3, <2>4 DEF OwnersChange
  <2>14. QED  BY <2>9, <2>11, <2>12, <2>13 DEF SockOK
<1>14. QED  BY <1>7, <1>8, <1>9, <1>10, <1>11, <1>12, <1>13, Here

(* Client_AcceptCompletionSuccess goes on to the frame loop ... *)
LEMMA AcceptSuccessOK ==
  ASSUME SessionInv, NEW w \in Workers, NEW o \in RObjs, Client_AcceptCompletionSuccess(w, o)
  PROVE  SessionInv' /\ SessionStep
<1> DEFINE k == [Idle EXCEPT !.pc = "loop", !.r = rel[o], !.x = o, !.via = "accept"]
<1>1. k \in WorkerStates /\ k.pc = "loop" /\ k.r = rel[o] /\ k.x = o /\ k.y = None
  BY IdleState, Fields, Kinds DEF Idle, WorkerStates, PCs, SessionInv
<1> HIDE DEF k
<1>2. wk' = [wk EXCEPT ![w] = k]  BY DEF Client_AcceptCompletionSuccess, k
<1>3. wk'[w] = k  BY <1>1, <1>2, SetWorker DEF SessionInv
<1>4. sock' \in [RSocks -> {"open", "invalid"}]
  BY DEF SessionInv, TypeOK, Client_AcceptCompletionSuccess
<1>5. QED  BY <1>1, <1>2, <1>3, <1>4, Accepted DEF Client_AcceptCompletionSuccess

(* ... and Client_AcceptCompletionFailed to freeing both objects. *)
LEMMA AcceptFailedOK ==
  ASSUME SessionInv, NEW w \in Workers, NEW o \in RObjs, Client_AcceptCompletionFailed(w, o)
  PROVE  SessionInv' /\ SessionStep
<1> DEFINE k == [Idle EXCEPT !.pc = "refuse", !.r = rel[o], !.x = o]
<1>1. k \in WorkerStates /\ k.pc = "refuse" /\ k.r = rel[o] /\ k.x = o /\ k.y = None
  BY IdleState, Fields, Kinds DEF Idle, WorkerStates, PCs, SessionInv
<1> HIDE DEF k
<1>2. wk' = [wk EXCEPT ![w] = k]  BY DEF Client_AcceptCompletionFailed, k
<1>3. wk'[w] = k  BY <1>1, <1>2, SetWorker DEF SessionInv
<1>4. sock' \in [RSocks -> {"open", "invalid"}]
  BY DEF SessionInv, TypeOK, Client_AcceptCompletionFailed
<1>5. QED  BY <1>1, <1>2, <1>3, <1>4, Accepted DEF Client_AcceptCompletionFailed

(* freeRObj and freeRSock after a failed accept: the count is not asked, and
   need not be. *)
LEMMA RefuseFreesOK ==
  ASSUME SessionInv, NEW w \in Workers, RefuseFrees(w)
  PROVE  SessionInv' /\ SessionStep
<1> wk[w].pc \in RefPCs  BY DEF RefPCs, RefuseFrees
<1>r. PICK r \in RSocks : r = wk[w].r  BY Owner DEF Owning
<1>x. PICK x \in RObjs : x = wk[w].x  BY DEF SessionInv, WorkerOK, RefuseFrees
<1>1. SockOK(r) /\ WorkerOK(w) /\ w \in Users(r) /\ wk[w].r = r /\ wk[w].x = x
      /\ wk[w].pc = "refuse"
  BY <1>r, <1>x, Owner DEF Owning, RefuseFrees
<1>0. at[r] = "used"  BY <1>r, Owner DEF Owning
<1>2. at[x] = "held" /\ rel[x] = r /\ x \in Objs /\ x # None /\ x # r
      /\ Holders(r) = {w} /\ Users(r) = {w}
  BY <1>1, Kinds DEF WorkerOK, SockOK, AloneOK
<1>3. /\ wk'[w] = Idle
      /\ \A v \in Workers : v # w => wk'[v] = wk[v]
      /\ wk' \in [Workers -> WorkerStates]
  BY IdleState, SetWorker DEF SessionInv, RefuseFrees, Return
<1>4. at' \in [RSocks \cup Objs -> Places]
      /\ at'[x] \in {"pool", "heap"} /\ at'[r] \in {"pool", "heap"}
      /\ \A z \in Objs \cup RSocks : z # x /\ z # r => at'[z] = at[z]
  BY <1>1, <1>2, FreedPlace DEF SessionInv, TypeOK, Places, RefuseFrees
<1>5. rel' \in [Objs -> RSocks \cup {None}]
      /\ \A z \in Objs : z # x => rel'[z] = rel[z]
  BY <1>1, <1>2 DEF SessionInv, TypeOK, RefuseFrees
<1>6. UNCHANGED <<nRef, sock, lstSend, left, pendingMap, sweep>>  BY DEF RefuseFrees
<1>7. TypeOK'  BY <1>3, <1>4, <1>5, <1>6 DEF SessionInv, TypeOK, WorkerStates
<1>8. PlacesOK'  BY <1>4, Kinds DEF SessionInv, PlacesOK
<1>9. Touches(w, x, r)
  BY <1>1, <1>2, <1>3, <1>4, <1>5, <1>6, IdleState, Kinds DEF Touches, Pending
<1>10. Apart'  BY <1>3, <1>9, IdleState, StayApart
<1>11. WorkerOK(w)'
  BY <1>3, IdleState DEF WorkerOK, Owning, RefPCs, Closing
<1>12. ObjOK(x)'  BY <1>4 DEF ObjOK, Pending
<1>13. SockOK(r)' /\ OwnersChange(r) /\ ListChange(r)
  <2>1. x \notin Holders(r)' /\ w \notin Holders(r)'
    BY <1>2, <1>3, <1>4, <1>9, IdleState, HoldersHere, Kinds DEF Pending, RefPCs
  <2>2. \A a : a # w /\ a # x => (a \in Holders(r)' <=> a \in Holders(r))
    BY <1>9, HoldersHere
  <2>3. Holders(r)' = {}  BY <1>2, <2>1, <2>2
  <2>4. w \notin Users(r)'  BY <1>3, IdleState, Kinds DEF Users
  <2>5. \A a : a # w => (a \in Users(r)' <=> a \in Users(r))  BY <1>9, HoldersHere
  <2>6. Users(r)' = {}  BY <1>2, <2>4, <2>5
  <2>7. \A o \in RObjs : ~(at'[o] = "accept" /\ rel'[o] = r)
    BY <2>3, Kinds DEF Holders, Pending
  <2>8. OwnersChange(r)  BY <1>0, <1>2, <1>4, <2>3 DEF OwnersChange
  <2>9. ListOK(r)' /\ ListChange(r)
    BY <1>1, <1>2, <1>3, <1>4, <1>6, <1>9, IdleState, ListKept, Kinds
  <2>10. QED
    BY <1>4, <2>3, <2>6, <2>7, <2>8, <2>9 DEF SockOK, CountOK, OwnerOK, AloneOK
<1>14. QED  BY <1>7, <1>8, <1>9, <1>10, <1>11, <1>12, <1>13, Here

(* Client_PostAcceptEx: a free RECV_SOCK has neither owners nor users, so the
   accept is its only one. *)
LEMMA PostAcceptExOK ==
  ASSUME SessionInv, NEW r \in RSocks, NEW o \in RObjs, Client_PostAcceptEx(r, o)
  PROVE  SessionInv' /\ SessionStep
<1>1. at[r] \in {"pool", "heap"} /\ at[o] \in {"pool", "heap"} /\ o \in Objs /\ o # None
  BY AvailableIsFree, Kinds DEF Client_PostAcceptEx
<1>2. SockOK(r) /\ Holders(r) = {} /\ Users(r) = {}
  BY <1>1 DEF SessionInv, SockOK, CountOK
<1>e. lstSend[r] = <<>>
  <2>1. ListOK(r) /\ lstSend[r] \in Seq(BObjs) /\ Len(lstSend[r]) \in Nat
    BY <1>2, Fields DEF SockOK, SessionInv
  <2>2. \A d : Drivers(r) # {d}  BY <1>2, DriversHold
  <2>3. ~(Len(lstSend[r]) > 0)  BY <2>1, <2>2 DEF ListOK
  <2>4. Len(lstSend[r]) = 0  BY <2>1, <2>3
  <2>5. QED  BY <2>1, <2>4
<1>3. at' \in [RSocks \cup Objs -> Places] /\ at'[o] = "accept" /\ at'[r] = "used"
      /\ \A z \in Objs \cup RSocks : z # o /\ z # r => at'[z] = at[z]
  BY <1>1, Kinds DEF SessionInv, TypeOK, Places, Pending, Client_PostAcceptEx
<1>4. rel' \in [Objs -> RSocks \cup {None}] /\ rel'[o] = r
      /\ \A z \in Objs : z # o => rel'[z] = rel[z]
  BY <1>1 DEF SessionInv, TypeOK, Client_PostAcceptEx
<1>5. nRef' \in [RSocks -> Nat] /\ nRef'[r] = 1
      /\ \A s \in RSocks : s # r => nRef'[s] = nRef[s]
  BY DEF SessionInv, TypeOK, Client_PostAcceptEx
<1>6. lstSend' \in [RSocks -> Seq(BObjs)] /\ lstSend'[r] = <<>>
      /\ \A s \in RSocks : s # r => lstSend'[s] = lstSend[s]
  BY DEF SessionInv, TypeOK, Client_PostAcceptEx
<1>7. TypeOK'
  <2>1. sock' \in [RSocks -> {"open", "invalid"}] /\ pendingMap' \subseteq RSocks
    BY DEF SessionInv, TypeOK, Client_PostAcceptEx
  <2>2. UNCHANGED <<left, sweep, wk>>  BY DEF Client_PostAcceptEx
  <2>3. QED  BY <1>3, <1>4, <1>5, <1>6, <2>1, <2>2 DEF SessionInv, TypeOK
<1>8. wk' = wk  BY DEF Client_PostAcceptEx
<1>9. PlacesOK'  BY <1>3, Kinds DEF SessionInv, PlacesOK
<1>10. Touches(None, o, r)
  BY <1>1, <1>3, <1>4, <1>5, <1>6, <1>8, Kinds DEF Touches, Loose, Pending
<1>11. Apart'  BY <1>10, StayApart
<1>12. ObjOK(o)'  BY <1>3, <1>4 DEF ObjOK, Pending
<1>13. SockOK(r)' /\ OwnersChange(r) /\ ListChange(r)
  <2>1. o \in Holders(r)'
    BY <1>1, <1>3, <1>10, HoldersHere DEF Pending
  <2>2. \A a : a # None /\ a # o => (a \in Holders(r)' <=> a \in Holders(r))
    BY <1>10, HoldersHere
  <2>3. None \notin Holders(r)'  BY <1>10, HoldersHere
  <2>4. Holders(r)' = {o}  BY <1>2, <2>1, <2>2, <2>3
  <2>5. Users(r)' = {}  BY <1>2, <1>8 DEF Users
  <2>6. CountOK(r)' /\ OwnerOK(r)'
    BY <1>3, <1>5, <2>4, FS_Singleton DEF CountOK, OwnerOK
  <2>7. \A z \in RObjs : at'[z] = "accept" /\ rel'[z] = r => z \in Holders(r)'
    BY Kinds DEF Holders, Pending
  <2>8. AloneOK(r)'  BY <2>4, <2>5, <2>7 DEF AloneOK
  <2>9. Drivers(r)' = {}
    <3>1. o \notin Drivers(r)'  BY <1>1, <1>3, Kinds DEF Drivers
    <3>2. Drivers(r)' \subseteq Holders(r)'
      BY Kinds DEF Drivers, Holders, RefPCs, Pending
    <3>3. QED  BY <2>4, <3>1, <3>2
  <2>10. ListOK(r)'
    <3>1. Len(lstSend'[r]) = 0  BY <1>6
    <3>2. QED  BY <2>9, <3>1 DEF ListOK
  <2>11. OwnersChange(r)  BY <1>1, <1>3, <2>4 DEF OwnersChange
  <2>12. ListChange(r)
    <3>1. Sending(r)' = Sending(r)
      BY <1>1, <1>3, <1>10, SendingHere
    <3>2. QED  BY <1>e, <1>6, <3>1 DEF ListChange
  <2>13. QED  BY <2>6, <2>8, <2>10, <2>11, <2>12 DEF SockOK
<1>14. QED  BY <1>7, <1>9, <1>10, <1>11, <1>12, <1>13, Here

(* It fails: both objects are free again. *)
LEMMA PostAcceptExFailsOK ==
  ASSUME SessionInv, NEW r \in RSocks, NEW o \in RObjs, PostAcceptExFails(r, o)
  PROVE  SessionInv' /\ SessionStep
<1>1. at[r] \in {"pool", "heap"} /\ at[o] \in {"pool", "heap"} /\ o \in Objs /\ o # None
  BY AvailableIsFree, Kinds DEF PostAcceptExFails
<1>2. SockOK(r) /\ Holders(r) = {} /\ Users(r) = {}
  BY <1>1 DEF SessionInv, SockOK, CountOK
<1>e. lstSend[r] = <<>>
  <2>1. ListOK(r) /\ lstSend[r] \in Seq(BObjs) /\ Len(lstSend[r]) \in Nat
    BY <1>2, Fields DEF SockOK, SessionInv
  <2>2. \A d : Drivers(r) # {d}  BY <1>2, DriversHold
  <2>3. ~(Len(lstSend[r]) > 0)  BY <2>1, <2>2 DEF ListOK
  <2>4. Len(lstSend[r]) = 0  BY <2>1, <2>3
  <2>5. QED  BY <2>1, <2>4
<1>3. at' \in [RSocks \cup Objs -> Places] /\ at'[o] = "pool" /\ at'[r] = "pool"
      /\ \A z \in Objs \cup RSocks : z # o /\ z # r => at'[z] = at[z]
  BY <1>1, Kinds DEF SessionInv, TypeOK, Places, PostAcceptExFails
<1>4. nRef' \in [RSocks -> Nat] /\ \A s \in RSocks : s # r => nRef'[s] = nRef[s]
  BY DEF SessionInv, TypeOK, PostAcceptExFails
<1>5. lstSend' \in [RSocks -> Seq(BObjs)] /\ lstSend'[r] = <<>>
      /\ \A s \in RSocks : s # r => lstSend'[s] = lstSend[s]
  BY DEF SessionInv, TypeOK, PostAcceptExFails
<1>6. UNCHANGED <<rel, left, pendingMap, sweep, wk>>  BY DEF PostAcceptExFails
<1>7. TypeOK'
  <2>1. sock' \in [RSocks -> {"open", "invalid"}]
    BY DEF SessionInv, TypeOK, PostAcceptExFails
  <2>2. QED  BY <1>3, <1>4, <1>5, <1>6, <2>1 DEF SessionInv, TypeOK
<1>8. PlacesOK'  BY <1>3, Kinds DEF SessionInv, PlacesOK
<1>9. Touches(None, o, r)
  BY <1>1, <1>3, <1>4, <1>5, <1>6, Kinds DEF Touches, Loose, Pending
<1>10. Apart'  BY <1>9, StayApart
<1>11. ObjOK(o)'  BY <1>3 DEF ObjOK, Pending
<1>12. SockOK(r)' /\ OwnersChange(r) /\ ListChange(r)
  <2>1. o \notin Holders(r)'
    BY <1>1, <1>3, <1>9, HoldersHere DEF Pending
  <2>2. \A a : a # None /\ a # o => (a \in Holders(r)' <=> a \in Holders(r))
    BY <1>9, HoldersHere
  <2>3. None \notin Holders(r)'  BY <1>9, HoldersHere
  <2>4. Holders(r)' = {}  BY <1>2, <2>1, <2>2, <2>3
  <2>5. Users(r)' = {}  BY <1>2, <1>6 DEF Users
  <2>6. \A z \in RObjs : ~(at'[z] = "accept" /\ rel'[z] = r)
    BY <2>4, Kinds DEF Holders, Pending
  <2>7. OwnersChange(r)  BY <1>1, <1>2, <1>3, <2>4 DEF OwnersChange
  <2>8. ListOK(r)' /\ ListChange(r)
    BY <1>1, <1>3, <1>e, <1>5, <1>9, ListKept
  <2>9. QED
    BY <1>3, <2>4, <2>5, <2>6, <2>7, <2>8 DEF SockOK, CountOK, OwnerOK, AloneOK
<1>13. QED  BY <1>7, <1>8, <1>9, <1>10, <1>11, <1>12, Here

(* The sweep, and whatever else changes neither objects nor workers. *)
LEMMA NothingMoves ==
  ASSUME SessionInv, TypeOK', UNCHANGED <<at, rel, nRef, lstSend, wk>>
  PROVE  SessionInv' /\ SessionStep
<1>1. PlacesOK' /\ Apart'  BY DEF SessionInv, PlacesOK, Apart
<1>2. Touches(None, None, None)  BY Kinds DEF Touches
<1>3. QED  BY <1>1, <1>2, Here

(* main's sweep finds a silent connection, or closes its socket. *)
LEMMA SweepOK ==
  ASSUME SessionInv, (\E r \in RSocks : SweepFinds(r)) \/ SweepCloses
  PROVE  SessionInv' /\ SessionStep
<1>1. CASE \E r \in RSocks : SweepFinds(r)
  <2>1. PICK r \in RSocks : SweepFinds(r)  BY <1>1
  <2>2. TypeOK'  BY <2>1 DEF SessionInv, TypeOK, SweepFinds
  <2>3. QED  BY <2>1, <2>2, NothingMoves DEF SweepFinds
<1>2. CASE SweepCloses
  <2>1. sock' \in [RSocks -> {"open", "invalid"}] /\ sweep' \in RSocks \cup {None}
    BY <1>2 DEF SessionInv, TypeOK, SweepCloses
  <2>2. UNCHANGED <<at, rel, nRef, lstSend, left, pendingMap, wk>>  BY <1>2 DEF SweepCloses
  <2>3. TypeOK'  BY <2>1, <2>2 DEF SessionInv, TypeOK
  <2>4. QED  BY <2>2, <2>3, NothingMoves
<1>3. QED  BY <1>1, <1>2

-----------------------------------------------------------------------------
(* Sending.  Whoever drives a send list is its only driver, and is busy with
   its back. *)
LEMMA DriverIsAlone ==
  ASSUME SessionInv, NEW r \in RSocks, NEW d \in Drivers(r)
  PROVE  /\ at[r] = "used" /\ ListOK(r) /\ lstSend[r] \in Seq(BObjs)
         /\ Len(lstSend[r]) \in Nat \ {0} /\ Drivers(r) = {d}
         /\ Carried(d) = lstSend[r][Len(lstSend[r])]
<1>1. at[r] = "used"  BY DriversHold DEF SessionInv, SockOK, CountOK
<1>2. ListOK(r) /\ lstSend[r] \in Seq(BObjs) /\ Len(lstSend[r]) \in Nat
  BY <1>1, Fields DEF SessionInv, SockOK
<1>3. Len(lstSend[r]) # 0  BY <1>2 DEF ListOK
<1>4. Len(lstSend[r]) > 0  BY <1>2, <1>3
<1>5. PICK e \in Objs \cup Workers :
        Drivers(r) = {e} /\ Carried(e) = lstSend[r][Len(lstSend[r])]
  BY <1>2, <1>4 DEF ListOK
<1>6. QED  BY <1>1, <1>2, <1>3, <1>5

(* The driver hands the back of the list on, or carries on with it itself: the
   other replies are not touched. *)
LEMMA ListHandled ==
  ASSUME SessionInv, NEW w0, NEW x0, NEW r0 \in RSocks, Touches(w0, x0, r0),
         NEW d \in Drivers(r0), NEW e \in Objs \cup Workers,
         Drivers(r0)' = {e}, Carried(e)' = Carried(d),
         x0 \in {Carried(d), None}, rel'[Carried(d)] = r0,
         lstSend'[r0] = lstSend[r0]
  PROVE  ListOK(r0)'
<1> DEFINE n == Len(lstSend[r0])
<1>1. /\ ListOK(r0) /\ lstSend[r0] \in Seq(BObjs)
      /\ n \in Nat \ {0} /\ Carried(d) = lstSend[r0][n]
  BY DriverIsAlone
<1>2. \A i \in 1..n : lstSend[r0][i] \in Objs /\ lstSend[r0][i] # None
  BY <1>1, Kinds
<1>3. \A i \in 1..(n - 1) : i \in 1..n /\ i # n  BY <1>1
<1>4. \A i \in 1..(n - 1) : lstSend[r0][i] # x0
  <2>1. n \in 1..n  BY <1>1
  <2>2. \A i, j \in 1..n : lstSend[r0][i] = lstSend[r0][j] => i = j  BY <1>1 DEF ListOK
  <2>3. \A i \in 1..(n - 1) : lstSend[r0][i] # lstSend[r0][n]  BY <1>3, <2>1, <2>2
  <2>4. QED  BY <1>1, <1>2, <1>3, <2>3
<1>5. \A i \in 1..(n - 1) : at'[lstSend[r0][i]] = at[lstSend[r0][i]]
                            /\ rel'[lstSend[r0][i]] = rel[lstSend[r0][i]]
  BY <1>2, <1>3, <1>4 DEF Touches
<1>6. \A i \in 1..n : rel'[lstSend[r0][i]] = r0
  <2>1. \A i \in 1..n : i = n \/ i \in 1..(n - 1)  BY <1>1
  <2>2. QED  BY <1>1, <1>5, <2>1 DEF ListOK
<1>7. \A i \in 1..(n - 1) : at'[lstSend[r0][i]] = "queued"
  BY <1>1, <1>5 DEF ListOK
<1>8. n # 0  BY <1>1
<1>9. QED  BY <1>1, <1>6, <1>7, <1>8 DEF ListOK

(* CLient_PostSend: the worker's reference passes to the send. *)
LEMMA PostSendOK ==
  ASSUME SessionInv, NEW w \in Workers, CLient_PostSend(w)
  PROVE  SessionInv' /\ SessionStep
<1> wk[w].pc \in RefPCs  BY DEF RefPCs, CLient_PostSend
<1>r. PICK r \in RSocks : r = wk[w].r  BY Owner DEF Owning
<1>x. PICK x \in BObjs : x = wk[w].x
  BY DEF SessionInv, WorkerOK, CLient_PostSend
<1>1. at[r] = "used" /\ SockOK(r) /\ WorkerOK(w) /\ w \in Holders(r)
      /\ nRef[r] = Cardinality(Holders(r)) /\ wk[w].r = r /\ wk[w].x = x
  BY <1>r, <1>x, Owner DEF Owning
<1>2. wk[w].pc = "send" /\ at[x] = "held" /\ rel[x] = r /\ x \in Objs /\ wk[w].y = None
  BY <1>1, Kinds DEF CLient_PostSend, WorkerOK
<1>3. /\ wk'[w] = Idle
      /\ \A v \in Workers : v # w => wk'[v] = wk[v]
      /\ wk' \in [Workers -> WorkerStates]
  BY IdleState, SetWorker DEF SessionInv, CLient_PostSend, Return
<1>4. at' \in [RSocks \cup Objs -> Places] /\ at'[x] = "sending" /\ at'[r] = at[r]
      /\ \A z \in Objs \cup RSocks : z # x => at'[z] = at[z]
  BY <1>1, <1>2, Kinds DEF SessionInv, TypeOK, Places, Pending, CLient_PostSend
<1>5. UNCHANGED <<rel, nRef, sock, lstSend, left, pendingMap, sweep>>
  BY DEF CLient_PostSend
<1>6. TypeOK'  BY <1>3, <1>4, <1>5 DEF SessionInv, TypeOK, WorkerStates
<1>7. PlacesOK'  BY <1>2, <1>4, Kinds DEF SessionInv, PlacesOK
<1>8. Touches(w, x, r)
  BY <1>1, <1>2, <1>3, <1>4, <1>5, IdleState, Kinds DEF Touches, Pending
<1>9. Apart'  BY <1>3, <1>8, IdleState, StayApart
<1>10. WorkerOK(w)'
  BY <1>3, IdleState DEF WorkerOK, Owning, RefPCs, Closing
<1>11. ObjOK(x)'  BY <1>2, <1>4, <1>5 DEF ObjOK, Pending
<1>12. SockOK(r)' /\ OwnersChange(r) /\ ListChange(r)
  <2>1. x \notin Holders(r) /\ x \in Holders(r)' /\ w \notin Holders(r)'
    BY <1>1, <1>2, <1>3, <1>4, <1>8, IdleState, HoldersHere, Kinds DEF Pending, RefPCs
  <2>2. \A a : a # w /\ a # x => (a \in Holders(r)' <=> a \in Holders(r))
    BY <1>8, HoldersHere
  <2>3. Holders(r)' = (Holders(r) \ {w}) \cup {x}  BY <1>1, <2>1, <2>2
  <2>4. Cardinality(Holders(r)') = Cardinality(Holders(r))
    BY <1>1, <2>1, <2>3, CountPass, HoldersFinite
  <2>5. CountOK(r)' /\ OwnerOK(r)' /\ AloneOK(r)'
    BY <1>1, <1>2, <1>3, <1>4, <1>5, <1>8, <2>1, <2>4, IdleState, OrdinaryStep, Kinds
  <2>6. ListOK(r)'
    <3>1. w \in Drivers(r) /\ Carried(w) = x  BY <1>1, <1>2 DEF Drivers, Carried
    <3>2. Drivers(r) = {w}  BY <3>1, DriverIsAlone
    <3>3. w \notin Drivers(r)' /\ x \in Drivers(r)' /\ Carried(x)' = x
      BY <1>2, <1>3, <1>4, <1>5, IdleState, Kinds DEF Drivers, Carried
    <3>4. \A a : a # w /\ a # x => (a \in Drivers(r)' <=> a \in Drivers(r))
      BY <1>8, HoldersHere
    <3>5. Drivers(r)' = {x}  BY <3>2, <3>3, <3>4
    <3>6. QED  BY <1>2, <1>5, <1>8, <3>1, <3>3, <3>5, ListHandled
  <2>7. OwnersChange(r)  BY <1>1, <1>2, <1>4, <2>1, <2>3 DEF OwnersChange
  <2>8. ListChange(r)
    <3>1. w \in Drivers(r) /\ Carried(w) = x  BY <1>1, <1>2 DEF Drivers, Carried
    <3>2. Drivers(r) = {w} /\ Len(lstSend[r]) # 0 /\ x = lstSend[r][Len(lstSend[r])]
      BY <3>1, DriverIsAlone
    <3>3. Sending(r) = {}  BY <3>2, Kinds DEF Sending, Drivers
    <3>4. \A b \in BObjs : at'[b] = "sending" /\ rel'[b] = r <=> b = x
      <4>1. \A b \in BObjs : ~(at[b] = "sending" /\ rel[b] = r)  BY <3>3 DEF Sending
      <4>2. QED  BY <1>2, <1>4, <1>5, <4>1, Kinds
    <3>5. Sending(r)' = {x}  BY <3>4 DEF Sending
    <3>6. QED  BY <1>5, <3>2, <3>3, <3>5 DEF ListChange
  <2>9. QED  BY <2>5, <2>6, <2>7, <2>8 DEF SockOK
<1>13. QED  BY <1>6, <1>7, <1>8, <1>9, <1>10, <1>11, <1>12, Here

(* It fails: the worker goes on as if the reply had been sent. *)
LEMMA PostSendFailsOK ==
  ASSUME SessionInv, NEW w \in Workers, PostSendFails(w)
  PROVE  SessionInv' /\ SessionStep
<1> wk[w].pc \in RefPCs  BY DEF RefPCs, PostSendFails
<1>r. PICK r \in RSocks : r = wk[w].r  BY Owner DEF Owning
<1>1. at[r] = "used" /\ SockOK(r) /\ WorkerOK(w) /\ w \in Holders(r)
      /\ nRef[r] = Cardinality(Holders(r)) /\ wk[w].r = r
  BY <1>r, Owner DEF Owning
<1> DEFINE k == [wk[w] EXCEPT !.pc = "next"]
<1>2. k \in WorkerStates /\ k.pc = "next" /\ k.r = r /\ k.x = wk[w].x /\ k.y = wk[w].y
  <2>1. TypeOK /\ "next" \in PCs  BY DEF SessionInv, PCs
  <2>2. QED  BY <2>1, <1>1, GoesOn
<1> HIDE DEF k
<1>3. wk' = [wk EXCEPT ![w] = k]  BY DEF PostSendFails, GoTo, k, SessionInv, TypeOK
<1>4. /\ wk'[w] = k
      /\ \A v \in Workers : v # w => wk'[v] = wk[v]
      /\ wk' \in [Workers -> WorkerStates]
  BY <1>2, <1>3, SetWorker DEF SessionInv
<1>5. UNCHANGED <<at, rel, nRef, sock, lstSend, left, pendingMap, sweep>> /\ wk[w].pc = "send"
  BY DEF PostSendFails
<1>6. TypeOK'  BY <1>4, <1>5 DEF SessionInv, TypeOK, WorkerStates
<1>7. PlacesOK'  BY <1>5 DEF SessionInv, PlacesOK
<1>8. Touches(w, None, r)  BY <1>1, <1>2, <1>4, <1>5, Kinds DEF Touches
<1>9. Apart'  BY <1>2, <1>4, <1>8, StayApart
<1>10. WorkerOK(w)'
  BY <1>1, <1>2, <1>4, <1>5, Kinds DEF WorkerOK, Owning, RefPCs
<1>11. SockOK(r)' /\ OwnersChange(r) /\ ListChange(r)
  <2>1. w \in Holders(r)'  BY <1>2, <1>4, <1>8, HoldersHere, Kinds DEF RefPCs
  <2>2. \A a : a # w /\ a # None => (a \in Holders(r)' <=> a \in Holders(r))
    BY <1>8, HoldersHere
  <2>3. None \notin Holders(r) /\ None \notin Holders(r)'  BY <1>8, HoldersHere
  <2>4. Holders(r)' = Holders(r)  BY <1>1, <2>1, <2>2, <2>3
  <2>5. CountOK(r)' /\ OwnerOK(r)' /\ AloneOK(r)'
    BY <1>1, <1>2, <1>4, <1>5, <1>8, <2>1, <2>4, OrdinaryStep, Kinds
  <2>6. ListOK(r)'
    <3>1. w \in Drivers(r) /\ Carried(w) = wk[w].x /\ rel[wk[w].x] = r
      BY <1>1, <1>5, Kinds DEF Drivers, Carried, WorkerOK
    <3>2. Drivers(r) = {w}  BY <3>1, DriverIsAlone
    <3>3. w \in Drivers(r)' /\ Carried(w)' = wk[w].x
      BY <1>2, <1>4 DEF Drivers, Carried
    <3>4. \A a : a # w /\ a # None => (a \in Drivers(r)' <=> a \in Drivers(r))
      BY <1>8, HoldersHere
    <3>5. None \notin Drivers(r)'  BY Kinds DEF Drivers
    <3>6. Drivers(r)' = {w}  BY <3>2, <3>3, <3>4, <3>5
    <3>7. QED  BY <1>5, <1>8, <3>1, <3>3, <3>6, ListHandled
  <2>7. OwnersChange(r)  BY <1>5, <2>4 DEF OwnersChange
  <2>8. ListChange(r)
    BY <1>5, <1>8, SendingHere DEF ListChange
  <2>9. QED  BY <2>5, <2>6, <2>7, <2>8 DEF SockOK
<1>12. QED  BY <1>6, <1>7, <1>8, <1>9, <1>10, <1>11, Here

(* A send completes: its reference and its reply pass to the worker. *)
LEMMA SendCompletes ==
  ASSUME SessionInv, NEW w \in Workers, NEW b \in BObjs,
         wk[w] = Idle, at[b] = "sending",
         at' = [at EXCEPT ![b] = "held"],
         wk' = [wk EXCEPT ![w] = wk'[w]], wk'[w] \in WorkerStates,
         wk'[w].r = rel[b], wk'[w].x = b, wk'[w].y = None,
         wk'[w].pc \in {"send", "next"},
         left' \in [BObjs -> 0..ReplySize],
         UNCHANGED <<rel, nRef, sock, lstSend, pendingMap, sweep>>
  PROVE  SessionInv' /\ SessionStep
<1>r. PICK r \in RSocks : r = rel[b]  BY Kinds DEF SessionInv, ObjOK, Pending
<1>1. rel[b] = r /\ SockOK(r) /\ b \in Objs  BY <1>r, Kinds DEF SessionInv
<1>2. wk[w].r = None /\ wk[w].x = None /\ wk[w].y = None /\ wk[w].pc = "idle"
  BY IdleState
<1>3. /\ \A v \in Workers : v # w => wk'[v] = wk[v]
      /\ wk' \in [Workers -> WorkerStates]
  BY SetWorker DEF SessionInv
<1>4. at' \in [RSocks \cup Objs -> Places] /\ at'[b] = "held" /\ at'[r] = at[r]
      /\ \A z \in Objs \cup RSocks : z # b => at'[z] = at[z]
  BY <1>1, Kinds DEF SessionInv, TypeOK, Places
<1>5. TypeOK'  BY <1>3, <1>4 DEF SessionInv, TypeOK, WorkerStates
<1>6. PlacesOK'  BY <1>4, Kinds DEF SessionInv, PlacesOK
<1>7. Touches(w, b, r)
  BY <1>1, <1>2, <1>3, <1>4, Kinds DEF Touches, Loose, Pending
<1>8. Apart'  BY <1>7, StayApart
<1>9. WorkerOK(w)'  BY <1>1, <1>4, Kinds DEF WorkerOK, Owning, RefPCs
<1>10. ObjOK(b)'  BY <1>4 DEF ObjOK, Pending
<1>11. SockOK(r)' /\ OwnersChange(r) /\ ListChange(r)
  <2>1. b \in Holders(r) /\ b \notin Holders(r)' /\ w \notin Holders(r) /\ w \in Holders(r)'
    BY <1>1, <1>2, <1>4, <1>7, HoldersHere, Kinds DEF Pending, RefPCs
  <2>2. \A a : a # w /\ a # b => (a \in Holders(r)' <=> a \in Holders(r))
    BY <1>7, HoldersHere
  <2>3. Holders(r)' = (Holders(r) \ {b}) \cup {w}  BY <2>1, <2>2
  <2>4. Cardinality(Holders(r)') = Cardinality(Holders(r))
    BY <2>1, <2>3, CountPass, HoldersFinite
  <2>5. at[r] = "used" /\ nRef[r] = Cardinality(Holders(r))
    BY <1>1, <2>1 DEF SockOK, CountOK
  <2>6. CountOK(r)' /\ OwnerOK(r)' /\ AloneOK(r)'
    BY <1>1, <1>4, <1>7, <2>1, <2>4, <2>5, OrdinaryStep, Kinds
  <2>7. ListOK(r)'
    <3>1. b \in Drivers(r) /\ Carried(b) = b  BY <1>1, Kinds DEF Drivers, Carried
    <3>2. Drivers(r) = {b}  BY <3>1, DriverIsAlone
    <3>3. b \notin Drivers(r)' /\ w \in Drivers(r)' /\ Carried(w)' = b
      BY <1>1, <1>4, Kinds DEF Drivers, Carried
    <3>4. \A a : a # w /\ a # b => (a \in Drivers(r)' <=> a \in Drivers(r))
      BY <1>7, HoldersHere
    <3>5. Drivers(r)' = {w}  BY <3>2, <3>3, <3>4
    <3>6. QED  BY <1>1, <1>7, <3>1, <3>3, <3>5, ListHandled
  <2>8. OwnersChange(r)  BY <1>1, <1>4, <2>1, <2>3 DEF OwnersChange
  <2>9. ListChange(r)
    <3>1. b \in Drivers(r) /\ Carried(b) = b  BY <1>1, Kinds DEF Drivers, Carried
    <3>2. Drivers(r) = {b} /\ Len(lstSend[r]) # 0 /\ b = lstSend[r][Len(lstSend[r])]
      BY <3>1, DriverIsAlone
    <3>3. \A z \in BObjs : at[z] = "sending" /\ rel[z] = r => z = b
      BY <3>2 DEF Drivers
    <3>4. Sending(r) = {b}  BY <1>1, <3>3 DEF Sending
    <3>5. Sending(r)' = {}  BY <1>1, <1>4, <3>3, Kinds DEF Sending
    <3>6. QED  BY <3>2, <3>4, <3>5 DEF ListChange
  <2>10. QED  BY <2>6, <2>7, <2>8, <2>9 DEF SockOK
<1>12. QED  BY <1>5, <1>6, <1>7, <1>8, <1>9, <1>10, <1>11, Here

(* Client_SendCompletionSuccess, with all or some of the bytes sent. *)
LEMMA SendSuccessOK ==
  ASSUME SessionInv, NEW w \in Workers, NEW b \in BObjs, NEW n \in 1..ReplySize,
         Client_SendCompletionSuccess(w, b, n)
  PROVE  SessionInv' /\ SessionStep
<1> DEFINE k == [Idle EXCEPT !.pc = IF n < left[b] THEN "send" ELSE "next",
                             !.r = rel[b], !.x = b]
<1>1. /\ k \in WorkerStates /\ k.pc \in {"send", "next"}
      /\ k.r = rel[b] /\ k.x = b /\ k.y = None
  BY IdleState, Fields, Kinds DEF Idle, WorkerStates, PCs, SessionInv
<1> HIDE DEF k
<1>2. wk' = [wk EXCEPT ![w] = k]  BY DEF Client_SendCompletionSuccess, k
<1>3. wk'[w] = k  BY <1>1, <1>2, SetWorker DEF SessionInv
<1>4. left' \in [BObjs -> 0..ReplySize]
  <2>1. left[b] - n \in 0..ReplySize
    BY SessionAssumption DEF SessionInv, TypeOK, Client_SendCompletionSuccess
  <2>2. QED  BY <2>1 DEF SessionInv, TypeOK, Client_SendCompletionSuccess
<1>5. QED  BY <1>1, <1>2, <1>3, <1>4, SendCompletes DEF Client_SendCompletionSuccess

(* Client_SendCompletionFailed. *)
LEMMA SendFailedOK ==
  ASSUME SessionInv, NEW w \in Workers, NEW b \in BObjs, Client_SendCompletionFailed(w, b)
  PROVE  SessionInv' /\ SessionStep
<1> DEFINE k == [Idle EXCEPT !.pc = "next", !.r = rel[b], !.x = b]
<1>1. k \in WorkerStates /\ k.pc = "next" /\ k.r = rel[b] /\ k.x = b /\ k.y = None
  BY IdleState, Fields, Kinds DEF Idle, WorkerStates, PCs, SessionInv
<1> HIDE DEF k
<1>2. wk' = [wk EXCEPT ![w] = k]  BY DEF Client_SendCompletionFailed, k
<1>3. wk'[w] = k  BY <1>1, <1>2, SetWorker DEF SessionInv
<1>4. left' \in [BObjs -> 0..ReplySize]
  BY DEF SessionInv, TypeOK, Client_SendCompletionFailed
<1>5. QED  BY <1>1, <1>2, <1>3, <1>4, SendCompletes DEF Client_SendCompletionFailed

(* push_front moves every reply up by one ... *)
LEMMA PushFront ==
  ASSUME NEW S, NEW s \in Seq(S), NEW x \in S
  PROVE  /\ <<x>> \o s \in Seq(S)
         /\ Len(<<x>> \o s) = Len(s) + 1
         /\ (<<x>> \o s)[1] = x
         /\ \A i \in 2..(Len(s) + 1) : (<<x>> \o s)[i] = s[i - 1]
<1>1. <<x>> \in Seq(S) /\ Len(<<x>>) = 1 /\ <<x>>[1] = x /\ Len(s) \in Nat  OBVIOUS
<1>2. Len(<<x>> \o s) = Len(s) + 1 /\ <<x>> \o s \in Seq(S)  BY <1>1
<1>3. (<<x>> \o s)[1] = x  BY <1>1
<1>4. ASSUME NEW i \in 2..(Len(s) + 1) PROVE (<<x>> \o s)[i] = s[i - 1]
  BY <1>1
<1>5. QED  BY <1>2, <1>3, <1>4

(* pop_back leaves the rest as it was. *)
LEMMA PopBack ==
  ASSUME NEW S, NEW s \in Seq(S), Len(s) # 0
  PROVE  /\ SubSeq(s, 1, Len(s) - 1) \in Seq(S)
         /\ Len(SubSeq(s, 1, Len(s) - 1)) = Len(s) - 1
         /\ \A i \in 1..(Len(s) - 1) : SubSeq(s, 1, Len(s) - 1)[i] = s[i]
<1> DEFINE m == Len(s) - 1
<1>1. Len(s) \in Nat /\ m \in Int /\ m >= 0  OBVIOUS
<1>2. \A i \in 1..m : s[i] \in S  OBVIOUS
<1>3. /\ SubSeq(s, 1, m) \in Seq(S)
      /\ Len(SubSeq(s, 1, m)) = IF 1 <= m THEN m - 1 + 1 ELSE 0
      /\ \A i \in 1..(m - 1 + 1) : SubSeq(s, 1, m)[i] = s[1 + i - 1]
  <2> HIDE DEF m
  <2>1. QED  BY <1>1, <1>2, SubSeqProperties
<1>4. Len(SubSeq(s, 1, m)) = m
  <2> HIDE DEF m
  <2>1. QED  BY <1>1, <1>3
<1>5. ASSUME NEW i \in 1..m PROVE SubSeq(s, 1, m)[i] = s[i]
  <2>1. i \in 1..(m - 1 + 1) /\ 1 + i - 1 = i  BY <1>1
  <2>2. QED  BY <1>3, <2>1
<1>6. QED  BY <1>3, <1>4, <1>5

(* CheckSend on an empty list: the worker becomes the driver ... *)
LEMMA CheckSendFirst ==
  ASSUME SessionInv, NEW w \in Workers, CheckSend(w), lstSend[wk[w].r] = <<>>
  PROVE  SessionInv' /\ SessionStep
<1> wk[w].pc \in RefPCs  BY DEF RefPCs, CheckSend
<1>r. PICK r \in RSocks : r = wk[w].r  BY Owner DEF Owning
<1>x. PICK x \in BObjs : x = wk[w].x  BY DEF SessionInv, WorkerOK, CheckSend
<1>1. at[r] = "used" /\ SockOK(r) /\ WorkerOK(w) /\ w \in Holders(r)
      /\ nRef[r] = Cardinality(Holders(r)) /\ wk[w].r = r /\ wk[w].x = x
  BY <1>r, <1>x, Owner DEF Owning
<1>2. wk[w].pc = "cmd" /\ at[x] = "held" /\ rel[x] = r /\ x \in Objs /\ wk[w].y = None
  BY <1>1, Kinds DEF CheckSend, WorkerOK
<1> DEFINE k == [wk[w] EXCEPT !.pc = "send"]
<1>3. k \in WorkerStates /\ k.pc = "send" /\ k.r = r /\ k.x = x /\ k.y = None
  <2>1. TypeOK /\ "send" \in PCs  BY DEF SessionInv, PCs
  <2>2. QED  BY <2>1, <1>1, <1>2, GoesOn
<1> HIDE DEF k
<1>4. wk' = [wk EXCEPT ![w] = k]  BY DEF CheckSend, GoTo, k, SessionInv, TypeOK
<1>5. /\ wk'[w] = k
      /\ \A v \in Workers : v # w => wk'[v] = wk[v]
      /\ wk' \in [Workers -> WorkerStates]
  BY <1>3, <1>4, SetWorker DEF SessionInv
<1>6. UNCHANGED <<at, rel, nRef, sock, pendingMap, sweep>>  BY DEF CheckSend
<1>7. lstSend' \in [RSocks -> Seq(BObjs)] /\ Len(lstSend'[r]) = 1 /\ lstSend'[r][1] = x
      /\ \A s \in RSocks : s # r => lstSend'[s] = lstSend[s]
  <2>1. lstSend' = [lstSend EXCEPT ![r] = <<x>> \o <<>>]  BY <1>1 DEF CheckSend
  <2>2. <<x>> \o <<>> \in Seq(BObjs) /\ Len(<<x>> \o <<>>) = 1 /\ (<<x>> \o <<>>)[1] = x
    OBVIOUS
  <2>3. QED  BY <2>1, <2>2 DEF SessionInv, TypeOK
<1>8. TypeOK'
  <2>1. left' \in [BObjs -> 0..ReplySize]
    <3>1. ReplySize \in 0..ReplySize  BY SessionAssumption
    <3>2. QED  BY <3>1, <1>1 DEF SessionInv, TypeOK, CheckSend
  <2>2. QED  BY <1>5, <1>6, <1>7, <2>1 DEF SessionInv, TypeOK, WorkerStates
<1>9. PlacesOK'  BY <1>6 DEF SessionInv, PlacesOK
<1>10. Touches(w, None, r)  BY <1>1, <1>3, <1>5, <1>6, <1>7, Kinds DEF Touches
<1>11. Apart'  BY <1>1, <1>2, <1>3, <1>5, <1>10, StayApart
<1>12. WorkerOK(w)'
  BY <1>1, <1>2, <1>3, <1>5, <1>6, Kinds DEF WorkerOK, Owning, RefPCs
<1>13. SockOK(r)' /\ OwnersChange(r) /\ ListChange(r)
  <2>1. w \in Holders(r)'  BY <1>3, <1>5, <1>10, HoldersHere, Kinds DEF RefPCs
  <2>2. \A a : a # w /\ a # None => (a \in Holders(r)' <=> a \in Holders(r))
    BY <1>10, HoldersHere
  <2>3. None \notin Holders(r) /\ None \notin Holders(r)'  BY <1>10, HoldersHere
  <2>4. Holders(r)' = Holders(r)
    <3>1. w \in Holders(r)  BY <1>1
    <3>2. \A a : a \in Holders(r)' <=> a \in Holders(r)  BY <2>1, <2>2, <2>3, <3>1
    <3>3. QED  BY <3>2
  <2>5. CountOK(r)' /\ OwnerOK(r)' /\ AloneOK(r)'
    BY <1>1, <1>2, <1>3, <1>5, <1>6, <1>10, <2>1, <2>4, OrdinaryStep, Kinds
  <2>6. ListOK(r)'
    <3>1. Drivers(r) = {}
      BY <1>1, PushFront DEF SockOK, ListOK
    <3>2. w \in Drivers(r)' /\ Carried(w)' = x  BY <1>3, <1>5 DEF Drivers, Carried
    <3>3. \A a : a # w /\ a # None => (a \in Drivers(r)' <=> a \in Drivers(r))
      BY <1>10, HoldersHere
    <3>4. None \notin Drivers(r)'  BY Kinds DEF Drivers
    <3>5. Drivers(r)' = {w}  BY <3>1, <3>2, <3>3, <3>4
    <3>6. rel'[x] = r  BY <1>2, <1>6
    <3>7. \E d \in Objs \cup Workers :
            Drivers(r)' = {d} /\ Carried(d)' = lstSend'[r][Len(lstSend'[r])]
      BY <1>7, <3>2, <3>5
    <3>8. \A i \in 1..Len(lstSend'[r]) : i = 1  BY <1>7
    <3>9. \A i \in 1..(Len(lstSend'[r]) - 1) : FALSE  BY <1>7
    <3>10. Len(lstSend'[r]) # 0  BY <1>7
    <3>11. QED  BY <1>7, <3>6, <3>7, <3>8, <3>9, <3>10 DEF ListOK
  <2>7. OwnersChange(r)  BY <1>6, <2>4 DEF OwnersChange
  <2>8. ListChange(r)
    <3>1. Sending(r)' = Sending(r)  BY <1>10, SendingHere
    <3>2. lstSend'[r] = <<x>> \o lstSend[r]
      BY <1>1 DEF CheckSend, SessionInv, TypeOK
    <3>3. QED  BY <3>1, <3>2 DEF ListChange
  <2>9. QED  BY <2>5, <2>6, <2>7, <2>8 DEF SockOK
<1>14. QED  BY <1>8, <1>9, <1>10, <1>11, <1>12, <1>13, Here

(* ... and on one that is being sent, the reply waits with the worker's
   reference; the driver and what it carries stay. *)
LEMMA CheckSendBehind ==
  ASSUME SessionInv, NEW w \in Workers, CheckSend(w), lstSend[wk[w].r] # <<>>
  PROVE  SessionInv' /\ SessionStep
<1> wk[w].pc \in RefPCs  BY DEF RefPCs, CheckSend
<1>r. PICK r \in RSocks : r = wk[w].r  BY Owner DEF Owning
<1>x. PICK x \in BObjs : x = wk[w].x  BY DEF SessionInv, WorkerOK, CheckSend
<1>1. at[r] = "used" /\ SockOK(r) /\ WorkerOK(w) /\ w \in Holders(r)
      /\ nRef[r] = Cardinality(Holders(r)) /\ wk[w].r = r /\ wk[w].x = x
  BY <1>r, <1>x, Owner DEF Owning
<1>2. wk[w].pc = "cmd" /\ at[x] = "held" /\ rel[x] = r /\ x \in Objs /\ wk[w].y = None
  BY <1>1, Kinds DEF CheckSend, WorkerOK
<1>3. /\ wk'[w] = Idle
      /\ \A v \in Workers : v # w => wk'[v] = wk[v]
      /\ wk' \in [Workers -> WorkerStates]
  BY IdleState, SetWorker DEF SessionInv, CheckSend, Return
<1>4. at' \in [RSocks \cup Objs -> Places] /\ at'[x] = "queued" /\ at'[r] = at[r]
      /\ \A z \in Objs \cup RSocks : z # x => at'[z] = at[z]
  <2>1. at' = [at EXCEPT ![x] = "queued"]  BY <1>1 DEF CheckSend
  <2>2. at \in [RSocks \cup Objs -> Places] /\ "queued" \in Places
    BY DEF SessionInv, TypeOK, Places, Pending
  <2>3. x # r /\ x \in RSocks \cup Objs /\ r \in RSocks \cup Objs  BY <1>2, Kinds
  <2>4. QED  BY <2>1, <2>2, <2>3
<1>5. UNCHANGED <<rel, nRef, sock, pendingMap, sweep>>  BY DEF CheckSend
<1> DEFINE n == Len(lstSend[r])
<1>6. n \in Nat \ {0} /\ lstSend[r] \in Seq(BObjs)
  BY <1>1, Fields DEF SessionInv
<1>7. /\ lstSend' \in [RSocks -> Seq(BObjs)]
      /\ Len(lstSend'[r]) = n + 1 /\ lstSend'[r][1] = x
      /\ \A i \in 2..(n + 1) : lstSend'[r][i] = lstSend[r][i - 1]
      /\ \A s \in RSocks : s # r => lstSend'[s] = lstSend[s]
  <2> DEFINE new == <<x>> \o lstSend[r]
  <2>1. new \in Seq(BObjs) /\ Len(new) = n + 1 /\ new[1] = x
        /\ \A i \in 2..(n + 1) : new[i] = lstSend[r][i - 1]
    BY <1>6, PushFront
  <2>2. lstSend' = [lstSend EXCEPT ![r] = new]  BY <1>1 DEF CheckSend
  <2> HIDE DEF new
  <2>3. QED  BY <2>1, <2>2 DEF SessionInv, TypeOK
<1>8. TypeOK'
  <2>1. left' \in [BObjs -> 0..ReplySize]
    <3>1. ReplySize \in 0..ReplySize  BY SessionAssumption
    <3>2. QED  BY <3>1, <1>1 DEF SessionInv, TypeOK, CheckSend
  <2>2. QED  BY <1>3, <1>4, <1>5, <1>7, <2>1 DEF SessionInv, TypeOK, WorkerStates
<1>9. PlacesOK'  BY <1>2, <1>4, Kinds DEF SessionInv, PlacesOK
<1>10. Touches(w, x, r)
  BY <1>1, <1>2, <1>3, <1>4, <1>5, <1>7, IdleState, Kinds DEF Touches, Pending
<1>11. Apart'  BY <1>3, <1>10, IdleState, StayApart
<1>12. WorkerOK(w)'
  BY <1>3, IdleState DEF WorkerOK, Owning, RefPCs, Closing
<1>13. ObjOK(x)'  BY <1>2, <1>4, <1>5 DEF ObjOK, Pending
<1>14. SockOK(r)' /\ OwnersChange(r) /\ ListChange(r)
  <2>1. x \notin Holders(r) /\ x \in Holders(r)' /\ w \notin Holders(r)'
    BY <1>1, <1>2, <1>3, <1>4, <1>10, IdleState, HoldersHere, Kinds DEF Pending, RefPCs
  <2>2. \A a : a # w /\ a # x => (a \in Holders(r)' <=> a \in Holders(r))
    BY <1>10, HoldersHere
  <2>3. Holders(r)' = (Holders(r) \ {w}) \cup {x}  BY <1>1, <2>1, <2>2
  <2>4. Cardinality(Holders(r)') = Cardinality(Holders(r))
    BY <1>1, <2>1, <2>3, CountPass, HoldersFinite
  <2>5. CountOK(r)' /\ OwnerOK(r)' /\ AloneOK(r)'
    BY <1>1, <1>2, <1>3, <1>4, <1>5, <1>10, <2>1, <2>4, IdleState, OrdinaryStep, Kinds
  <2>6. ListOK(r)'
    <3>1. ListOK(r)  BY <1>1 DEF SockOK
    <3>2. \A i \in 1..n : lstSend[r][i] \in Objs /\ lstSend[r][i] # x
      BY <1>1, <1>2, <1>10, ListedNotTouched, Kinds
    <3>3. \A i \in 1..n : at'[lstSend[r][i]] = at[lstSend[r][i]]
                          /\ rel'[lstSend[r][i]] = rel[lstSend[r][i]]
      BY <1>10, <3>2 DEF Touches
    <3>4. \A i \in 2..(n + 1) : i - 1 \in 1..n  BY <1>6
    <3>5. \A i \in 1..(n + 1) : i = 1 \/ i \in 2..(n + 1)  BY <1>6
    <3>6. \A i, j \in 1..(n + 1) : lstSend'[r][i] = lstSend'[r][j] => i = j
      <4>1. \A i, j \in 1..n : lstSend[r][i] = lstSend[r][j] => i = j  BY <3>1 DEF ListOK
      <4>2. ASSUME NEW i \in 2..(n + 1), NEW j \in 2..(n + 1), lstSend'[r][i] = lstSend'[r][j]
            PROVE  i - 1 = j - 1
        <5>1. lstSend[r][i - 1] = lstSend[r][j - 1]  BY <1>7, <4>2
        <5>2. i - 1 \in 1..n /\ j - 1 \in 1..n  BY <3>4
        <5>3. QED  BY <4>1, <5>1, <5>2
      <4>3. \A i \in 2..(n + 1) : lstSend'[r][i] # x  BY <1>7, <3>2, <3>4
      <4>4. \A i, j \in 2..(n + 1) : i - 1 = j - 1 => i = j  BY <1>6
      <4>5. QED  BY <1>7, <3>5, <4>2, <4>3, <4>4
    <3>7. ASSUME NEW i \in 1..(n + 1) PROVE rel'[lstSend'[r][i]] = r
      <4>1. CASE i = 1  BY <4>1, <1>2, <1>5, <1>7
      <4>2. CASE i \in 2..(n + 1)
        <5>1. lstSend'[r][i] = lstSend[r][i - 1] /\ i - 1 \in 1..n  BY <4>2, <1>7, <3>4
        <5>2. \A j \in 1..n : rel[lstSend[r][j]] = r  BY <3>1 DEF ListOK
        <5>3. rel[lstSend[r][i - 1]] = r  BY <5>1, <5>2
        <5>4. QED  BY <5>1, <5>3, <1>5
      <4>3. QED  BY <4>1, <4>2, <3>5
    <3>8. ASSUME NEW i \in 1..n PROVE at'[lstSend'[r][i]] = "queued"
      <4>1. CASE i = 1  BY <4>1, <1>4, <1>7
      <4>2. CASE i # 1
        <5>1. i \in 2..(n + 1) /\ i - 1 \in 1..(n - 1) /\ i - 1 \in 1..n  BY <4>2, <1>6
        <5>2. lstSend'[r][i] = lstSend[r][i - 1]  BY <5>1, <1>7
        <5>3. \A j \in 1..(n - 1) : at[lstSend[r][j]] = "queued"  BY <3>1 DEF ListOK
        <5>4. at[lstSend[r][i - 1]] = "queued"  BY <5>1, <5>3
        <5>5. at'[lstSend[r][i - 1]] = at[lstSend[r][i - 1]]  BY <5>1, <3>3
        <5>6. QED  BY <5>2, <5>4, <5>5
      <4>3. QED  BY <4>1, <4>2
    <3>9. PICK d \in Objs \cup Workers : Drivers(r) = {d} /\ Carried(d) = lstSend[r][n]
      BY <1>6, <3>1 DEF ListOK
    <3>10. w \notin Drivers(r) /\ w \notin Drivers(r)' /\ x \notin Drivers(r) /\ x \notin Drivers(r)'
      BY <1>2, <1>3, <1>4, IdleState, Kinds DEF Drivers
    <3>11. Drivers(r)' = {d}
      <4>1. \A a : a # w /\ a # x => (a \in Drivers(r)' <=> a \in Drivers(r))
        BY <1>10, HoldersHere
      <4>2. \A a : a \in Drivers(r)' <=> a \in Drivers(r)  BY <3>10, <4>1
      <4>3. QED  BY <3>9, <4>2
    <3>12. Carried(d)' = lstSend[r][n]
      <4>1. d # w  BY <3>9, <3>10
      <4>2. d \in Workers => wk'[d] = wk[d]  BY <1>3, <4>1
      <4>3. QED  BY <3>9, <4>2 DEF Carried
    <3>13. lstSend'[r][n + 1] = lstSend[r][n]
      <4>1. n + 1 \in 2..(n + 1) /\ n + 1 - 1 = n  BY <1>6
      <4>2. QED  BY <1>7, <4>1
    <3>14. Len(lstSend'[r]) # 0 /\ Len(lstSend'[r]) - 1 = n  BY <1>6, <1>7
    <3>15. QED  BY <1>7, <3>6, <3>7, <3>8, <3>11, <3>12, <3>13, <3>14 DEF ListOK
  <2>7. OwnersChange(r)  BY <1>1, <1>2, <1>4, <2>1, <2>3 DEF OwnersChange
  <2>8. ListChange(r)
    <3>1. Sending(r)' = Sending(r)  BY <1>2, <1>4, <1>10, SendingHere
    <3>2. lstSend'[r] = <<x>> \o lstSend[r]
      BY <1>1 DEF CheckSend, SessionInv, TypeOK
    <3>3. QED  BY <3>1, <3>2 DEF ListChange
  <2>9. QED  BY <2>5, <2>6, <2>7, <2>8 DEF SockOK
<1>15. QED  BY <1>8, <1>9, <1>10, <1>11, <1>12, <1>13, <1>14, Here

(* HandOver: the reference of the reply that is gone is dropped; the next
   reply has its own, and the worker carries on with that reply. *)
LEMMA HandOverOK ==
  ASSUME SessionInv, NEW w \in Workers, HandOver(w)
  PROVE  SessionInv' /\ SessionStep
<1> wk[w].pc \in RefPCs  BY DEF RefPCs, HandOver
<1>r. PICK r \in RSocks : r = wk[w].r  BY Owner DEF Owning
<1>b. PICK b \in BObjs : b = wk[w].y
  BY Fields DEF SessionInv, WorkerOK, HandOver
<1>1. at[r] = "used" /\ SockOK(r) /\ WorkerOK(w) /\ w \in Holders(r)
      /\ nRef[r] = Cardinality(Holders(r)) /\ wk[w].r = r /\ wk[w].y = b
  BY <1>r, <1>b, Owner DEF Owning
<1>2. wk[w].pc = "hand" /\ at[b] = "queued" /\ rel[b] = r /\ b \in Objs /\ wk[w].x = None
      /\ b # None
  BY <1>1, Kinds DEF HandOver, WorkerOK
<1> DEFINE k == [wk[w] EXCEPT !.pc = "send", !.x = b, !.y = None]
<1>3. k \in WorkerStates /\ k.pc = "send" /\ k.r = r /\ k.x = b /\ k.y = None
  <2>1. wk[w] \in WorkerStates  BY DEF SessionInv, TypeOK, WorkerStates
  <2>2. QED  BY <1>1, <1>2, <2>1 DEF WorkerStates, PCs
<1>4. wk' = [wk EXCEPT ![w] = k]  BY <1>1 DEF HandOver, SessionInv, TypeOK
<1> HIDE DEF k
<1>5. /\ wk'[w] = k
      /\ \A v \in Workers : v # w => wk'[v] = wk[v]
      /\ wk' \in [Workers -> WorkerStates]
  BY <1>3, <1>4, SetWorker DEF SessionInv
<1>6. at' \in [RSocks \cup Objs -> Places] /\ at'[b] = "held" /\ at'[r] = at[r]
      /\ \A z \in Objs \cup RSocks : z # b => at'[z] = at[z]
  BY <1>1, <1>2, Kinds DEF SessionInv, TypeOK, Places, HandOver
<1>7. b \in Holders(r)  BY <1>2, Kinds DEF Holders, Pending
<1>8. nRef[r] >= 1 /\ nRef[r] \in Nat /\ Cardinality(Holders(r) \ {b}) = nRef[r] - 1
  BY <1>1, <1>7, HoldersFinite, CountDrop
<1>9. nRef' \in [RSocks -> Nat] /\ nRef'[r] = nRef[r] - 1
      /\ \A s \in RSocks : s # r => nRef'[s] = nRef[s]
  BY <1>1, <1>8 DEF SessionInv, TypeOK, HandOver
<1>10. UNCHANGED <<rel, sock, lstSend, left, pendingMap, sweep>>  BY DEF HandOver
<1>11. TypeOK'  BY <1>5, <1>6, <1>9, <1>10 DEF SessionInv, TypeOK, WorkerStates
<1>12. PlacesOK'  BY <1>2, <1>6, Kinds DEF SessionInv, PlacesOK
<1>13. Touches(w, b, r)
  BY <1>1, <1>2, <1>3, <1>5, <1>6, <1>9, <1>10, Kinds DEF Touches, Pending
<1>14. Apart'  BY <1>3, <1>5, <1>13, StayApart
<1>15. WorkerOK(w)'
  BY <1>2, <1>3, <1>5, <1>6, <1>10, Kinds DEF WorkerOK, Owning, RefPCs
<1>16. ObjOK(b)'  BY <1>3, <1>5, <1>6 DEF ObjOK, Pending
<1>17. SockOK(r)' /\ OwnersChange(r) /\ ListChange(r)
  <2>1. b \notin Holders(r)' /\ w \in Holders(r)'
    BY <1>2, <1>3, <1>5, <1>6, <1>13, HoldersHere, Kinds DEF Pending, RefPCs
  <2>2. \A a : a # w /\ a # b => (a \in Holders(r)' <=> a \in Holders(r))
    BY <1>13, HoldersHere
  <2>3. Holders(r)' = Holders(r) \ {b}  BY <1>1, <1>2, <2>1, <2>2, Kinds
  <2>4. CountOK(r)' /\ OwnerOK(r)' /\ AloneOK(r)'
    BY <1>1, <1>2, <1>3, <1>5, <1>6, <1>8, <1>9, <1>13, <2>1, <2>3, OrdinaryStep, Kinds
  <2>5. ListOK(r)'
    <3>1. w \in Drivers(r) /\ Carried(w) = b  BY <1>1, <1>2 DEF Drivers, Carried
    <3>2. Drivers(r) = {w}  BY <3>1, DriverIsAlone
    <3>3. w \in Drivers(r)' /\ Carried(w)' = b  BY <1>3, <1>5 DEF Drivers, Carried
    <3>4. b \notin Drivers(r)'  BY <1>2, <1>6, Kinds DEF Drivers
    <3>5. \A a : a # w /\ a # b => (a \in Drivers(r)' <=> a \in Drivers(r))
      BY <1>13, HoldersHere
    <3>6. Drivers(r)' = {w}  BY <3>2, <3>3, <3>4, <3>5
    <3>7. QED  BY <1>2, <1>10, <1>13, <3>1, <3>3, <3>6, ListHandled
  <2>6. OwnersChange(r)  BY <1>6, <1>7, <2>3, Kinds DEF OwnersChange
  <2>7. ListChange(r)
    BY <1>2, <1>6, <1>10, <1>13, SendingHere DEF ListChange
  <2>8. QED  BY <2>4, <2>5, <2>6, <2>7 DEF SockOK
<1>18. QED  BY <1>11, <1>12, <1>13, <1>14, <1>15, <1>16, <1>17, Here

(* GetNextData: the reply is freed and leaves the list; the worker goes on with
   the next one or stops driving. *)
LEMMA GetNextDataOK ==
  ASSUME SessionInv, NEW w \in Workers, GetNextData(w)
  PROVE  SessionInv' /\ SessionStep
<1> wk[w].pc \in RefPCs  BY DEF RefPCs, GetNextData
<1>r. PICK r \in RSocks : r = wk[w].r  BY Owner DEF Owning
<1>x. PICK x \in BObjs : x = wk[w].x  BY DEF SessionInv, WorkerOK, GetNextData
<1>1. at[r] = "used" /\ SockOK(r) /\ WorkerOK(w) /\ w \in Holders(r)
      /\ nRef[r] = Cardinality(Holders(r)) /\ wk[w].r = r /\ wk[w].x = x
  BY <1>r, <1>x, Owner DEF Owning
<1>2. wk[w].pc = "next" /\ at[x] = "held" /\ rel[x] = r /\ x \in Objs /\ wk[w].y = None
      /\ x # None
  BY <1>1, Kinds DEF GetNextData, WorkerOK
<1>3. w \in Drivers(r) /\ Carried(w) = x  BY <1>1, <1>2 DEF Drivers, Carried
<1>n. PICK n \in Nat : n = Len(lstSend[r])  BY <1>3, DriverIsAlone
<1>4. /\ ListOK(r) /\ lstSend[r] \in Seq(BObjs) /\ Len(lstSend[r]) = n /\ n # 0
      /\ Drivers(r) = {w} /\ x = lstSend[r][n]
  BY <1>3, <1>n, DriverIsAlone
<1>5. /\ \A i, j \in 1..n : lstSend[r][i] = lstSend[r][j] => i = j
      /\ \A i \in 1..n : rel[lstSend[r][i]] = r
      /\ \A i \in 1..(n - 1) : at[lstSend[r][i]] = "queued"
  BY <1>4 DEF ListOK
<1> DEFINE rest == SubSeq(lstSend[r], 1, n - 1)
           next == IF rest = <<>> THEN None ELSE rest[n - 1]
           k == [wk[w] EXCEPT !.pc = IF rest = <<>> THEN "drop" ELSE "hand",
                              !.x = None, !.y = next]
<1>6. /\ rest \in Seq(BObjs) /\ Len(rest) = n - 1
      /\ \A i \in 1..(n - 1) : rest[i] = lstSend[r][i]
  BY <1>4, PopBack
<1>7. rest = <<>> <=> n = 1  BY <1>4, <1>6
<1>8. n # 1 => n - 1 \in 1..(n - 1) /\ n - 1 \in 1..n /\ next = lstSend[r][n - 1]
               /\ next \in BObjs
  <2> HIDE DEF rest
  <2>1. n # 1 => n - 1 \in 1..(n - 1) /\ n - 1 \in 1..n  BY <1>4
  <2>2. QED  BY <1>4, <1>6, <1>7, <2>1
<1>9. n = 1 => next = None  BY <1>7
<1>10. next \in BObjs \cup {None}  BY <1>8, <1>9
<1>11. /\ k \in WorkerStates /\ k.r = r /\ k.x = None /\ k.y = next
       /\ k.pc = IF n = 1 THEN "drop" ELSE "hand"
  <2> HIDE DEF next, rest
  <2>1. wk[w] \in WorkerStates  BY DEF SessionInv, TypeOK, WorkerStates
  <2>2. QED  BY <1>1, <1>7, <1>10, <2>1 DEF WorkerStates, PCs
<1>12. wk' = [wk EXCEPT ![w] = k] /\ lstSend' = [lstSend EXCEPT ![r] = rest]
  <2> DEFINE old == SubSeq(lstSend[wk[w].r], 1, Len(lstSend[wk[w].r]) - 1)
  <2>1. old = rest  BY <1>1, <1>4
  <2>2. /\ lstSend' = [lstSend EXCEPT ![wk[w].r] = old]
        /\ wk' = [wk EXCEPT ![w].pc = IF old = <<>> THEN "drop" ELSE "hand",
                            ![w].x = None,
                            ![w].y = IF old = <<>> THEN None ELSE old[Len(old)]]
    BY DEF GetNextData
  <2> HIDE DEF old, rest
  <2>3. /\ lstSend' = [lstSend EXCEPT ![r] = rest]
        /\ wk' = [wk EXCEPT ![w].pc = IF rest = <<>> THEN "drop" ELSE "hand",
                            ![w].x = None,
                            ![w].y = next]
    BY <1>1, <1>6, <2>1, <2>2
  <2> HIDE DEF next
  <2>4. wk' = [wk EXCEPT ![w] = k]  BY <2>3 DEF SessionInv, TypeOK
  <2>5. QED  BY <2>3, <2>4
<1> HIDE DEF k, next, rest
<1>13. /\ wk'[w] = k
       /\ \A v \in Workers : v # w => wk'[v] = wk[v]
       /\ wk' \in [Workers -> WorkerStates]
  BY <1>11, <1>12, SetWorker DEF SessionInv
<1>14. at' \in [RSocks \cup Objs -> Places] /\ at'[x] \in {"pool", "heap"} /\ at'[r] = at[r]
       /\ \A z \in Objs \cup RSocks : z # x => at'[z] = at[z]
  BY <1>1, <1>2, FreedPlace, Kinds DEF SessionInv, TypeOK, Places, GetNextData
<1>15. rel' \in [Objs -> RSocks \cup {None}]
       /\ \A z \in Objs : z # x => rel'[z] = rel[z]
  BY <1>1, <1>2 DEF SessionInv, TypeOK, GetNextData
<1>16. lstSend' \in [RSocks -> Seq(BObjs)] /\ lstSend'[r] = rest
       /\ \A s \in RSocks : s # r => lstSend'[s] = lstSend[s]
  BY <1>6, <1>12 DEF SessionInv, TypeOK
<1>17. UNCHANGED <<nRef, sock, left, pendingMap, sweep>>  BY DEF GetNextData
<1>18. TypeOK'
  BY <1>13, <1>14, <1>15, <1>16, <1>17 DEF SessionInv, TypeOK, WorkerStates
<1>19. PlacesOK'  BY <1>2, <1>14, Kinds DEF SessionInv, PlacesOK
<1>20. Touches(w, x, r)
  BY <1>1, <1>2, <1>11, <1>13, <1>14, <1>15, <1>16, <1>17, Kinds DEF Touches, Pending
<1>21. n # 1 => next # x /\ next \in Objs /\ next # None
                /\ at[next] = "queued" /\ rel[next] = r
                /\ at'[next] = "queued" /\ rel'[next] = r
  <2>1. n # 1 => next # x
    <3>1. n \in 1..n  BY <1>4
    <3>2. n - 1 # n  OBVIOUS
    <3>3. QED  BY <1>4, <1>5, <1>8, <3>1, <3>2
  <2>2. n # 1 => at[next] = "queued" /\ rel[next] = r  BY <1>5, <1>8
  <2>3. QED  BY <1>8, <1>14, <1>15, <2>1, <2>2, Kinds
<1>22. ASSUME NEW v \in Workers, v # w
       PROVE  /\ wk'[v] = wk[v]
              /\ next # None => wk[v].y # next
  <2>1. wk'[v] = wk[v]  BY <1>13, <1>22
  <2>2. ASSUME next # None, wk[v].y = next PROVE FALSE
    <3>1. n # 1  BY <1>9, <2>2
    <3>2. WorkerOK(v)  BY DEF SessionInv
    <3>3. wk[v].pc = "hand" /\ wk[v].r = r
      BY <1>21, <2>2, <3>1, <3>2 DEF WorkerOK
    <3>4. v \in Drivers(r)  BY <3>3 DEF Drivers
    <3>5. QED  BY <1>4, <1>22, <3>4
  <2>3. QED  BY <2>1, <2>2
<1>23. Apart'
  <2>1. wk'[w].x = None /\ wk'[w].y = next  BY <1>11, <1>13
  <2>2. ASSUME NEW v \in Workers, v # w
        PROVE  /\ wk'[v].x # None => wk'[v].x # wk'[w].x
               /\ wk'[v].y # None => wk'[v].y # wk'[w].y
               /\ wk'[w].x # None => wk'[v].x # wk'[w].x
               /\ wk'[w].y # None => wk'[v].y # wk'[w].y
    BY <1>22, <2>1, <2>2
  <2>3. ASSUME NEW v \in Workers, NEW u \in Workers, v # u, v # w, u # w
        PROVE  /\ wk'[v].x # None => wk'[v].x # wk'[u].x
               /\ wk'[v].y # None => wk'[v].y # wk'[u].y
    BY <1>22, <2>3 DEF SessionInv, Apart
  <2>4. QED  BY <2>2, <2>3 DEF Apart
<1>24. WorkerOK(w)'
  <2>1. CASE n = 1
    BY <2>1, <1>9, <1>11, <1>13, Kinds DEF WorkerOK, Owning, RefPCs
  <2>2. CASE n # 1
    BY <2>2, <1>11, <1>13, <1>21, Kinds DEF WorkerOK, Owning, RefPCs
  <2>3. QED  BY <2>1, <2>2
<1>25. ObjOK(x)'  BY <1>14 DEF ObjOK, Pending
<1>26. SockOK(r)' /\ OwnersChange(r) /\ ListChange(r)
  <2>1. w \in Holders(r)'
    BY <1>11, <1>13, <1>20, HoldersHere, Kinds DEF RefPCs
  <2>2. x \notin Holders(r) /\ x \notin Holders(r)'
    BY <1>2, <1>14, <1>20, HoldersHere DEF Pending
  <2>3. \A a : a # w /\ a # x => (a \in Holders(r)' <=> a \in Holders(r))
    BY <1>20, HoldersHere
  <2>4. Holders(r)' = Holders(r)
    <3>1. w \in Holders(r)  BY <1>1
    <3>2. \A a : a \in Holders(r)' <=> a \in Holders(r)  BY <2>1, <2>2, <2>3, <3>1
    <3>3. QED  BY <3>2
  <2>5. CountOK(r)' /\ OwnerOK(r)' /\ AloneOK(r)'
    BY <1>1, <1>2, <1>11, <1>13, <1>14, <1>17, <1>20, <2>1, <2>4, OrdinaryStep, Kinds
  <2>6. ListOK(r)'
    <3>1. Len(lstSend'[r]) = n - 1 /\ \A i \in 1..(n - 1) : lstSend'[r][i] = lstSend[r][i]
      BY <1>6, <1>16
    <3>2. \A i \in 1..(n - 1) : i \in 1..n /\ i # n  BY <1>4
    <3>3. \A i \in 1..(n - 1) : lstSend[r][i] # x /\ lstSend[r][i] \in Objs
      <4>1. n \in 1..n  BY <1>4
      <4>2. \A i \in 1..n : lstSend[r][i] \in Objs  BY <1>4, Kinds
      <4>3. QED  BY <1>4, <1>5, <3>2, <4>1, <4>2
    <3>4. \A i \in 1..(n - 1) : at'[lstSend[r][i]] = "queued" /\ rel'[lstSend[r][i]] = r
      BY <1>5, <1>14, <1>15, <3>2, <3>3
    <3>5. \A i, j \in 1..(n - 1) : lstSend'[r][i] = lstSend'[r][j] => i = j
      BY <1>5, <3>1, <3>2
    <3>6. \A i \in 1..((n - 1) - 1) : i \in 1..(n - 1)  BY <1>4
    <3>7. x \notin Drivers(r)'  BY <1>2, <1>14, Kinds DEF Drivers
    <3>8. \A a : a # w /\ a # x => (a \in Drivers(r)' <=> a \in Drivers(r))
      BY <1>20, HoldersHere
    <3>9. CASE n = 1
      <4>1. w \notin Drivers(r)'  BY <3>9, <1>11, <1>13, Kinds DEF Drivers
      <4>2. Drivers(r)' = {}  BY <1>4, <3>7, <3>8, <4>1
      <4>3. n - 1 = 0  BY <3>9
      <4>4. QED  BY <3>1, <3>4, <3>5, <3>6, <4>2, <4>3 DEF ListOK
    <3>10. CASE n # 1
      <4>1. w \in Drivers(r)' /\ Carried(w)' = next
        BY <3>10, <1>11, <1>13 DEF Drivers, Carried
      <4>2. Drivers(r)' = {w}  BY <1>4, <3>7, <3>8, <4>1
      <4>3. Carried(w)' = lstSend'[r][n - 1]  BY <3>10, <1>8, <3>1, <4>1
      <4>4. n - 1 # 0  BY <3>10, <1>4
      <4>5. QED  BY <3>1, <3>4, <3>5, <3>6, <4>2, <4>3, <4>4 DEF ListOK
    <3>11. QED  BY <3>9, <3>10
  <2>7. OwnersChange(r)  BY <1>14, <2>4 DEF OwnersChange
  <2>8. ListChange(r)
    <3>1. Sending(r)' = Sending(r)  BY <1>2, <1>14, <1>20, SendingHere
    <3>2. Sending(r) = {}  BY <1>4, Kinds DEF Sending, Drivers
    <3>3. lstSend'[r] = SubSeq(lstSend[r], 1, n - 1)  BY <1>16 DEF rest
    <3>4. QED  BY <1>4, <3>1, <3>2, <3>3 DEF ListChange
  <2>9. QED  BY <2>5, <2>6, <2>7, <2>8 DEF SockOK
<1>27. QED  BY <1>18, <1>19, <1>20, <1>23, <1>24, <1>25, <1>26, Here

-----------------------------------------------------------------------------
(* The initial state: everything is on the heap. *)
LEMMA InitInv == Init => SessionInv
<1> SUFFICES ASSUME Init PROVE SessionInv
  OBVIOUS
<1>1. \A x \in RSocks \cup Objs : at[x] = "heap"  BY DEF Init
<1>2. \A w \in Workers : wk[w] = Idle  BY DEF Init
<1>3. TypeOK
  <2>1. at \in [RSocks \cup Objs -> Places] /\ rel \in [Objs -> RSocks \cup {None}]
    BY DEF Init, Places
  <2>2. /\ nRef \in [RSocks -> Nat] /\ sock \in [RSocks -> {"open", "invalid"}]
        /\ lstSend \in [RSocks -> Seq(BObjs)]
    BY DEF Init
  <2>3. 0 \in 0..ReplySize  BY SessionAssumption
  <2>4. left \in [BObjs -> 0..ReplySize]  BY <2>3 DEF Init
  <2>5. wk \in [Workers -> WorkerStates]  BY IdleState DEF Init
  <2>6. pendingMap \subseteq RSocks /\ sweep \in RSocks \cup {None}  BY DEF Init
  <2>7. QED  BY <2>1, <2>2, <2>4, <2>5, <2>6 DEF TypeOK, WorkerStates
<1>4. PlacesOK  BY <1>1, Kinds DEF PlacesOK
<1>5. Apart  BY <1>2, IdleState DEF Apart
<1>6. \A w \in Workers : WorkerOK(w)
  BY <1>2, IdleState DEF WorkerOK, Owning, RefPCs, Closing
<1>7. \A x \in Objs : ObjOK(x)  BY <1>1 DEF ObjOK, Pending
<1>8. ASSUME NEW r \in RSocks PROVE SockOK(r)
  <2>1. Holders(r) = {}  BY <1>1, <1>2, IdleState DEF Holders, Pending, RefPCs
  <2>2. Users(r) = {}  BY <1>2, IdleState, Kinds DEF Users
  <2>3. at[r] = "heap"  BY <1>1
  <2>4. \A o \in RObjs : at[o] = "heap"  BY <1>1, Kinds
  <2>5. ListOK(r)
    <3>1. Drivers(r) = {}  BY <2>1, DriversHold
    <3>2. Len(lstSend[r]) = 0  BY DEF Init
    <3>3. QED  BY <3>1, <3>2 DEF ListOK
  <2>6. QED  BY <2>1, <2>2, <2>3, <2>4, <2>5 DEF SockOK, CountOK, OwnerOK, AloneOK
<1>9. QED  BY <1>3, <1>4, <1>5, <1>6, <1>7, <1>8 DEF SessionInv

(* Every step keeps the invariant: one case for each handler and each packet. *)
LEMMA NextInv == SessionInv /\ [Next]_vars => SessionInv' /\ SessionStep
<1> SUFFICES ASSUME SessionInv, [Next]_vars PROVE SessionInv' /\ SessionStep
  OBVIOUS
<1>1. ASSUME NEW r \in RSocks, NEW o \in RObjs,
             Client_PostAcceptEx(r, o) \/ PostAcceptExFails(r, o)
      PROVE  SessionInv' /\ SessionStep
  BY <1>1, PostAcceptExOK, PostAcceptExFailsOK
<1>2. CASE (\E r \in RSocks : SweepFinds(r)) \/ SweepCloses
  BY <1>2, SweepOK
<1>3. ASSUME NEW w \in Workers, HandlerStep(w) PROVE SessionInv' /\ SessionStep
  <2>1. CASE RefuseFrees(w) \/ \E b \in BObjs : LoopFrame(w, b)
    BY <2>1, RefuseFreesOK, LoopFrameOK
  <2>2. CASE PostCmd(w) \/ PostCmdFails(w) \/ LoopDone(w)
    BY <2>2, PostCmdOK, PostCmdFailsOK, LoopDoneOK
  <2>3. CASE Client_PostZeroRecv(w) \/ PostZeroRecvFails(w) \/ Client_CmdCompletionFailed(w)
    BY <2>3, PostZeroRecvOK, GivesUpOK
  <2>4. CASE DropRef(w) \/ CloseSock(w) \/ FreeSock(w) \/ FreeObj(w)
    BY <2>4, DropRefOK, CloseSockOK, FreeSockOK, FreeObjOK
  <2>5. CASE CheckSend(w)  BY <2>5, CheckSendFirst, CheckSendBehind
  <2>6. CASE CLient_PostSend(w) \/ PostSendFails(w)
    BY <2>6, PostSendOK, PostSendFailsOK
  <2>7. CASE GetNextData(w) \/ HandOver(w)  BY <2>7, GetNextDataOK, HandOverOK
  <2>8. QED
    BY <1>3, <2>1, <2>2, <2>3, <2>4, <2>5, <2>6, <2>7 DEF HandlerStep
<1>4. ASSUME NEW w \in Workers, NEW x \in Objs, TakePacket(w, x) PROVE SessionInv' /\ SessionStep
  <2>1. CASE x \in RObjs /\ (Client_AcceptCompletionSuccess(w, x)
                              \/ Client_AcceptCompletionFailed(w, x))
    BY <2>1, AcceptSuccessOK, AcceptFailedOK
  <2>2. CASE x \in RObjs /\ (Client_ZeroRecvCompletionSuccess(w, x)
                              \/ Client_RecvCompletionFailed(w, x)
                              \/ Client_RecvCompletionSuccess(w, x))
    BY <2>2, ZeroRecvOK, RecvFailedOK, RecvSuccessOK
  <2>3. CASE x \in BObjs /\ (Client_CmdCompletionSuccess(w, x) \/ CmdStarts(w, x))
    BY <2>3, CmdSuccessOK, CmdStartsOK
  <2>4. CASE x \in BObjs /\ (\/ \E n \in 1..ReplySize : Client_SendCompletionSuccess(w, x, n)
                             \/ Client_SendCompletionFailed(w, x))
    BY <2>4, SendSuccessOK, SendFailedOK
  <2>5. QED  BY <1>4, <2>1, <2>2, <2>3, <2>4 DEF TakePacket
<1>5. CASE UNCHANGED vars
  <2>1. TypeOK'  BY <1>5 DEF vars, SessionInv, TypeOK
  <2>2. UNCHANGED <<at, rel, nRef, lstSend, wk>>  BY <1>5 DEF vars
  <2>3. QED  BY <2>1, <2>2, NothingMoves
<1>6. QED  BY <1>1, <1>2, <1>3, <1>4, <1>5 DEF Next

(* The inductive invariant of the session layer: at every step of every
   handler each worker, object and RECV_SOCK is as described above. *)
THEOREM SessionInvariant == Spec => []SessionInv
<1>1. QED  BY InitInv, NextInv, PTL DEF Spec

(* Types. *)
THEOREM SessionTypes == Spec => []TypeOK
<1>1. SessionInv => TypeOK  BY DEF SessionInv
<1>2. QED  BY <1>1, SessionInvariant, PTL

(* nRef is the number of owners, whatever fails and in whatever order the
   workers run. *)
THEOREM SessionRefCount == Spec => []RefCountExact
<1>1. SessionInv => RefCountExact  BY DEF SessionInv, SockOK, CountOK, RefCountExact
<1>2. QED  BY <1>1, SessionInvariant, PTL

(* Closing and freeing a RECV_SOCK is the work of one worker that is alone
   with it, and never happens while a reply is listed. *)
THEOREM SessionReclaimExclusive == Spec => []ReclaimExclusive
<1>1. ASSUME SessionInv PROVE ReclaimExclusive
  <2> SUFFICES ASSUME NEW w \in Workers, wk[w].pc \in {"close", "freeSock"}
               PROVE  /\ at[wk[w].r] = "used"
                      /\ Holders(wk[w].r) = {}
                      /\ lstSend[wk[w].r] = <<>>
                      /\ \A v \in Workers \ {w} : wk[v].r # wk[w].r
    BY DEF ReclaimExclusive
  <2>r. PICK r \in RSocks : r = wk[w].r  BY <1>1, Owner DEF Owning, Closing
  <2>1. at[r] = "used" /\ SockOK(r) /\ w \in Users(r) /\ r = wk[w].r
    BY <1>1, <2>r, Owner DEF Owning, Closing
  <2>2. Holders(r) = {} /\ Users(r) = {w}  BY <2>1 DEF SockOK, AloneOK, Closing
  <2>3. \A v \in Workers \ {w} : wk[v].r # r  BY <2>2 DEF Users
  <2>4. lstSend[r] = <<>>
    <3>1. ListOK(r) /\ lstSend[r] \in Seq(BObjs) /\ Len(lstSend[r]) \in Nat
      BY <1>1, <2>1, Fields DEF SockOK, SessionInv
    <3>2. Drivers(r) = {}  BY <2>2, DriversHold
    <3>3. ~(Len(lstSend[r]) > 0)
      <4>1. \A d : Drivers(r) # {d}  BY <3>2
      <4>2. QED  BY <3>1, <4>1 DEF ListOK
    <3>4. Len(lstSend[r]) = 0  BY <3>1, <3>3
    <3>5. QED  BY <3>1, <3>4
  <2>5. QED  BY <2>1, <2>2, <2>3, <2>4
<1>2. QED  BY <1>1, SessionInvariant, PTL

(* An object in a worker's hands is in exactly one worker's hands. *)
THEOREM SessionHeldByOne == Spec => []HeldByOne
<1>1. ASSUME SessionInv PROVE HeldByOne
  <2> SUFFICES ASSUME NEW x \in Objs, at[x] = "held"
               PROVE  Cardinality({ w \in Workers : wk[w].x = x }) = 1
    BY DEF HeldByOne
  <2>1. PICK w \in Workers : wk[w].x = x  BY <1>1 DEF SessionInv, ObjOK
  <2>2. \A v \in Workers : wk[v].x = x => v = w
    BY <1>1, <2>1, Kinds DEF SessionInv, Apart
  <2>3. { v \in Workers : wk[v].x = x } = {w}  BY <2>1, <2>2
  <2>4. QED  BY <2>3, FS_Singleton
<1>2. QED  BY <1>1, SessionInvariant, PTL

(* While replies are listed exactly one send is going, and none otherwise. *)
THEOREM SessionOneSender == Spec => []OneSenderPerList
<1>1. ASSUME SessionInv PROVE OneSenderPerList
  <2> SUFFICES ASSUME NEW r \in RSocks, at[r] = "used"
               PROVE  Cardinality(Drivers(r)) = IF lstSend[r] = <<>> THEN 0 ELSE 1
    BY DEF OneSenderPerList
  <2>1. ListOK(r) /\ lstSend[r] \in Seq(BObjs) /\ Len(lstSend[r]) \in Nat
    BY <1>1, Fields DEF SessionInv, SockOK
  <2>2. CASE lstSend[r] = <<>>
    <3>1. Len(lstSend[r]) = 0  BY <2>2
    <3>2. Drivers(r) = {}  BY <2>1, <3>1 DEF ListOK
    <3>3. QED  BY <2>2, <3>2, FS_EmptySet
  <2>3. CASE lstSend[r] # <<>>
    <3>1. Len(lstSend[r]) > 0  BY <2>1, <2>3
    <3>2. PICK d : Drivers(r) = {d}  BY <2>1, <3>1 DEF ListOK
    <3>3. QED  BY <2>3, <3>2, FS_Singleton
  <2>4. QED  BY <2>2, <2>3
<1>2. QED  BY <1>1, SessionInvariant, PTL

(* What is being sent is the oldest reply of its list. *)
THEOREM SessionOldestIsSent == Spec => []OldestIsSent
<1>1. ASSUME SessionInv PROVE OldestIsSent
  <2> SUFFICES ASSUME NEW r \in RSocks, at[r] = "used", lstSend[r] # <<>>
               PROVE  /\ \A b \in BObjs : at[b] = "sending" /\ rel[b] = r
                           => b = lstSend[r][Len(lstSend[r])]
                      /\ \A w \in Workers : wk[w].pc \in {"send", "next"} /\ wk[w].r = r
                           => wk[w].x = lstSend[r][Len(lstSend[r])]
                      /\ \A i \in 1..(Len(lstSend[r]) - 1) : at[lstSend[r][i]] = "queued"
    BY DEF OldestIsSent
  <2>1. ASSUME NEW b \in BObjs, at[b] = "sending", rel[b] = r
        PROVE  b = lstSend[r][Len(lstSend[r])]
    <3>1. b \in Drivers(r) /\ Carried(b) = b  BY <2>1, Kinds DEF Drivers, Carried
    <3>2. QED  BY <1>1, <3>1, DriverIsAlone
  <2>2. ASSUME NEW w \in Workers, wk[w].pc \in {"send", "next"}, wk[w].r = r
        PROVE  wk[w].x = lstSend[r][Len(lstSend[r])]
    <3>1. w \in Drivers(r) /\ Carried(w) = wk[w].x  BY <2>2 DEF Drivers, Carried
    <3>2. QED  BY <1>1, <3>1, DriverIsAlone
  <2>3. \A i \in 1..(Len(lstSend[r]) - 1) : at[lstSend[r][i]] = "queued"
    BY <1>1 DEF SessionInv, SockOK, ListOK
  <2>4. QED  BY <2>1, <2>2, <2>3
<1>2. QED  BY <1>1, SessionInvariant, PTL

-----------------------------------------------------------------------------
(* What else holds: a RECV_SOCK that is free, or about to be freed, has no open
   socket; a command that has been made is with the worker that is about to
   post it, and a queued reply is in its list.  The steps use SessionInv, and
   SessionInv does not use them. *)
Dooming == {"refuse", "freeSock"}

ClosedOK ==
  /\ \A r \in RSocks : at[r] # "used" => sock[r] = "invalid"
  /\ \A w \in Workers : wk[w].pc \in Dooming => sock[wk[w].r] = "invalid"

ListedIn(b) == \E i \in 1..Len(lstSend[rel[b]]) : lstSend[rel[b]][i] = b

BusyOK ==
  /\ \A b \in BObjs : at[b] = "made" => \E w \in Workers : wk[w].pc = "post" /\ wk[w].y = b
  /\ \A b \in BObjs : at[b] = "queued" => ListedIn(b)

(* A step of w opens no socket, gives back only what is closed, and brings the
   worker to the freeing of a RECV_SOCK only when that is closed. *)
Closes(w) ==
  /\ \A v \in Workers : v # w => wk'[v] = wk[v]
  /\ \A r \in RSocks : sock'[r] \in {sock[r], "invalid"}
  /\ \A r \in RSocks : at'[r] = at[r] \/ sock[r] = "invalid"
  /\ wk'[w].pc \in Dooming => sock'[wk'[w].r] = "invalid"

(* It makes, posts and lists nothing. *)
Plain(w) ==
  /\ wk[w].pc # "post" /\ lstSend' = lstSend
  /\ \A b \in BObjs : at'[b] \in {"made", "queued"} => at'[b] = at[b] /\ rel'[b] = rel[b]

(* Such steps keep what is closed closed ... *)
LEMMA ClosedKept ==
  ASSUME SessionInv', ClosedOK, NEW w \in Workers, Closes(w)
  PROVE  ClosedOK'
<1>1. ASSUME NEW r \in RSocks, at'[r] # "used" PROVE sock'[r] = "invalid"
  BY <1>1 DEF ClosedOK, Closes
<1>2. ASSUME NEW v \in Workers, wk'[v].pc \in Dooming PROVE sock'[wk'[v].r] = "invalid"
  <2>1. WorkerOK(v)' /\ TypeOK'  BY DEF SessionInv
  <2>2. wk'[v].r \in RSocks
    BY <1>2, <2>1 DEF WorkerOK, TypeOK, Dooming, Owning, RefPCs, Closing
  <2>3. CASE v = w  BY <1>2, <2>3 DEF Closes
  <2>4. CASE v # w  BY <1>2, <2>2, <2>4 DEF Closes, ClosedOK
  <2>5. QED  BY <2>3, <2>4
<1>3. QED  BY <1>1, <1>2 DEF ClosedOK

(* ... and leave what is made or queued where it was. *)
LEMMA BusyKept ==
  ASSUME BusyOK, NEW w \in Workers, Closes(w), Plain(w)
  PROVE  BusyOK'
<1>1. ASSUME NEW b \in BObjs, at'[b] = "made"
      PROVE  \E v \in Workers : wk'[v].pc = "post" /\ wk'[v].y = b
  <2>1. PICK v \in Workers : wk[v].pc = "post" /\ wk[v].y = b  BY <1>1 DEF BusyOK, Plain
  <2>2. v # w  BY <2>1 DEF Plain
  <2>3. QED  BY <2>1, <2>2 DEF Closes
<1>2. ASSUME NEW b \in BObjs, at'[b] = "queued" PROVE ListedIn(b)'
  BY <1>2 DEF BusyOK, ListedIn, Plain
<1>3. QED  BY <1>1, <1>2 DEF BusyOK

(* A packet is taken: only a failed accept goes on to free a RECV_SOCK, and its
   handler has closed the socket. *)
LEMMA TakeSide ==
  ASSUME SessionInv, NEW w \in Workers, NEW x \in Objs, TakePacket(w, x)
  PROVE  Closes(w) /\ Plain(w)
<1> DEFINE Small(p, a) ==
             /\ at' = [at EXCEPT ![x] = a] /\ rel' = rel /\ lstSend' = lstSend
             /\ \A v \in Workers : v # w => wk'[v] = wk[v]
             /\ wk'[w].pc = p
           Taking(p, a) ==
             /\ a \notin {"made", "queued"} /\ p # "freeSock"
             /\ Small(p, a)
             /\ p # "refuse" => sock' = sock
             /\ p = "refuse" => /\ rel[x] \in RSocks /\ wk'[w].r = rel[x]
                                /\ sock' = [sock EXCEPT ![rel[x]] = "invalid"]
<1>0. TypeOK  BY DEF SessionInv
<1>1. wk[w] = Idle /\ wk[w].pc = "idle"
  <2>1. wk[w] = Idle
    BY DEF TakePacket, Client_AcceptCompletionSuccess, Client_AcceptCompletionFailed,
           Client_ZeroRecvCompletionSuccess, Client_RecvCompletionFailed,
           Client_RecvCompletionSuccess, Client_CmdCompletionSuccess, CmdStarts,
           Client_SendCompletionSuccess, Client_SendCompletionFailed
  <2>2. QED  BY <2>1, IdleState
<1>2. \E p, a : Taking(p, a)
  <2>1. CASE Client_AcceptCompletionSuccess(w, x)
    <3>1. Taking("loop", "held")
      BY <1>0, <2>1 DEF Client_AcceptCompletionSuccess, TypeOK, Idle
    <3>2. QED  BY <3>1
  <2>2. CASE Client_AcceptCompletionFailed(w, x)
    <3>1. rel[x] \in RSocks
      BY <2>2 DEF Client_AcceptCompletionFailed, SessionInv, ObjOK, Pending
    <3>2. Taking("refuse", "held")
      BY <1>0, <2>2, <3>1 DEF Client_AcceptCompletionFailed, TypeOK, Idle
    <3>3. QED  BY <3>2
  <2>3. CASE Client_ZeroRecvCompletionSuccess(w, x)
    <3>1. Taking("idle", "recv")  BY <1>1, <2>3 DEF Client_ZeroRecvCompletionSuccess
    <3>2. QED  BY <3>1
  <2>4. CASE Client_RecvCompletionFailed(w, x)
    <3>1. Taking("drop", "held")
      BY <1>0, <2>4 DEF Client_RecvCompletionFailed, TypeOK, Idle
    <3>2. QED  BY <3>1
  <2>5. CASE Client_RecvCompletionSuccess(w, x)
    <3>1. Taking("loop", "held")
      BY <1>0, <2>5 DEF Client_RecvCompletionSuccess, TypeOK, Idle
    <3>2. QED  BY <3>1
  <2>6. CASE Client_CmdCompletionSuccess(w, x)
    <3>1. Taking("idle", "dropped")  BY <1>1, <2>6 DEF Client_CmdCompletionSuccess
    <3>2. QED  BY <3>1
  <2>7. CASE CmdStarts(w, x)
    <3>1. Taking("cmd", "held")  BY <1>0, <2>7 DEF CmdStarts, TypeOK, Idle
    <3>2. QED  BY <3>1
  <2>8. CASE \E n \in 1..ReplySize : Client_SendCompletionSuccess(w, x, n)
    <3>1. Taking("send", "held") \/ Taking("next", "held")
      BY <1>0, <2>8 DEF Client_SendCompletionSuccess, TypeOK, Idle
    <3>2. QED  BY <3>1
  <2>9. CASE Client_SendCompletionFailed(w, x)
    <3>1. Taking("next", "held")
      BY <1>0, <2>9 DEF Client_SendCompletionFailed, TypeOK, Idle
    <3>2. QED  BY <3>1
  <2>10. QED
    BY <2>1, <2>2, <2>3, <2>4, <2>5, <2>6, <2>7, <2>8, <2>9 DEF TakePacket
<1>3. PICK p, a : Taking(p, a)  BY <1>2
<1>4. \A r \in RSocks : at'[r] = at[r]  BY <1>0, <1>3, Kinds DEF TypeOK
<1>5. \A r \in RSocks : sock'[r] \in {sock[r], "invalid"}  BY <1>0, <1>3 DEF TypeOK
<1>6. wk'[w].pc \in Dooming => sock'[wk'[w].r] = "invalid"  BY <1>0, <1>3 DEF TypeOK, Dooming
<1>7. Closes(w)  BY <1>3, <1>4, <1>5, <1>6 DEF Closes
<1>8. Plain(w)  BY <1>0, <1>1, <1>3, Kinds DEF TypeOK, Plain
<1>9. QED  BY <1>7, <1>8

(* The worker that frees a RECV_SOCK closed it first. *)
LEMMA FreeSide ==
  ASSUME SessionInv, ClosedOK, NEW w \in Workers,
         RefuseFrees(w) \/ CloseSock(w) \/ FreeSock(w)
  PROVE  Closes(w) /\ Plain(w)
<1>0. TypeOK /\ WorkerOK(w) /\ wk[w] \in WorkerStates
  BY DEF SessionInv, TypeOK, WorkerStates
<1>1. wk[w].pc \in Owning
  BY DEF RefuseFrees, CloseSock, FreeSock, Owning, RefPCs, Closing
<1>2. PICK r \in RSocks : r = wk[w].r  BY <1>1, Owner
<1>3. CASE RefuseFrees(w)
  <2>1. wk[w].pc = "refuse" /\ wk[w].x \in RObjs /\ sock[r] = "invalid"
    BY <1>0, <1>2, <1>3 DEF RefuseFrees, WorkerOK, ClosedOK, Dooming
  <2>2. wk'[w] = Idle /\ \A v \in Workers : v # w => wk'[v] = wk[v]
    BY <1>0, <1>3 DEF RefuseFrees, Return, TypeOK
  <2>3. \A z \in RSocks \cup BObjs : z # r => at'[z] = at[z]
    BY <1>0, <1>2, <1>3, <2>1, Kinds DEF RefuseFrees, TypeOK
  <2>4. \A b \in BObjs : rel'[b] = rel[b]
    BY <1>0, <1>3, <2>1, Kinds DEF RefuseFrees, TypeOK
  <2>5. Closes(w)
    BY <1>3, <2>1, <2>2, <2>3, IdleState DEF RefuseFrees, Closes, Dooming
  <2>6. Plain(w)  BY <1>3, <2>1, <2>3, <2>4, Kinds DEF RefuseFrees, Plain
  <2>7. QED  BY <2>5, <2>6
<1>4. CASE CloseSock(w)
  <2>1. \A v \in Workers : v # w => wk'[v] = wk[v]
    BY <1>0, <1>4 DEF CloseSock, GoTo, TypeOK
  <2>2. wk'[w].r = r  BY <1>0, <1>2, <1>4 DEF CloseSock, GoTo, TypeOK, WorkerStates
  <2>3. sock' = [sock EXCEPT ![r] = "invalid"]  BY <1>2, <1>4 DEF CloseSock
  <2>4. Closes(w)  BY <1>0, <1>4, <2>1, <2>2, <2>3 DEF CloseSock, Closes, TypeOK
  <2>5. Plain(w)  BY <1>4 DEF CloseSock, Plain
  <2>6. QED  BY <2>4, <2>5
<1>5. CASE FreeSock(w)
  <2>1. wk[w].pc = "freeSock" /\ sock[r] = "invalid"
    BY <1>2, <1>5 DEF FreeSock, ClosedOK, Dooming
  <2>2. wk' = [wk EXCEPT ![w] = Done(w)]  BY <1>0, <1>5 DEF FreeSock, Done, TypeOK
  <2>3. wk'[w] = Done(w) /\ \A v \in Workers : v # w => wk'[v] = wk[v]
    BY <1>0, <2>2, DoneState, SetWorker
  <2>4. wk'[w].pc \notin Dooming  BY <1>0, <2>3, DoneState DEF Dooming
  <2>5. \A z \in RSocks \cup BObjs : z # r => at'[z] = at[z]
    BY <1>0, <1>2, <1>5, Kinds DEF FreeSock, TypeOK
  <2>6. Closes(w)  BY <1>5, <2>1, <2>3, <2>4, <2>5 DEF FreeSock, Closes
  <2>7. Plain(w)  BY <1>5, <2>1, <2>5, Kinds DEF FreeSock, Plain
  <2>8. QED  BY <2>6, <2>7
<1>6. QED  BY <1>3, <1>4, <1>5

(* Steps that change at most the worker and the object in its hands. *)
LEMMA PlainSide ==
  ASSUME SessionInv, NEW w \in Workers,
         \/ LoopDone(w) \/ Client_PostZeroRecv(w) \/ PostZeroRecvFails(w)
         \/ DropRef(w) \/ FreeObj(w) \/ Client_CmdCompletionFailed(w)
         \/ CLient_PostSend(w) \/ PostSendFails(w) \/ HandOver(w)
  PROVE  Closes(w) /\ Plain(w)
<1>0. TypeOK /\ WorkerOK(w) /\ wk[w] \in WorkerStates /\ wk[w].pc \in PCs
  BY DEF SessionInv, TypeOK, WorkerStates
<1> DEFINE Turns(p) == /\ p \notin Dooming /\ wk[w].pc # "post" /\ wk'[w].pc = p
                       /\ \A v \in Workers : v # w => wk'[v] = wk[v]
           Takes(z, a) == /\ a \notin {"made", "queued"} /\ at' = [at EXCEPT ![z] = a]
                          /\ \A b \in BObjs : b # z => rel'[b] = rel[b]
           Rest == lstSend' = lstSend /\ \A r \in RSocks : sock'[r] \in {sock[r], "invalid"}
<1>1. ASSUME NEW p, Turns(p), Rest, NEW z \in Objs, NEW a, Takes(z, a)
      PROVE  Closes(w) /\ Plain(w)
  <2>1. \A r \in RSocks : at'[r] = at[r]  BY <1>0, <1>1, Kinds DEF TypeOK
  <2>2. \A b \in BObjs : at'[b] \in {"made", "queued"} => at'[b] = at[b] /\ rel'[b] = rel[b]
    BY <1>0, <1>1, Kinds DEF TypeOK
  <2>3. QED  BY <1>1, <2>1, <2>2 DEF Closes, Plain
<1>2. ASSUME NEW p, Turns(p), Rest, at' = at, rel' = rel PROVE Closes(w) /\ Plain(w)
  BY <1>2 DEF Closes, Plain
<1>3. CASE LoopDone(w)
  <2>1. Turns("repost")  BY <1>0, <1>3 DEF LoopDone, TypeOK, WorkerStates, Dooming
  <2>2. Rest /\ at' = at /\ rel' = rel  BY <1>0, <1>3 DEF LoopDone, TypeOK
  <2>3. QED  BY <1>2, <2>1, <2>2
<1>4. CASE PostZeroRecvFails(w) \/ Client_CmdCompletionFailed(w)
  <2>1. Turns("drop")
    BY <1>0, <1>4 DEF PostZeroRecvFails, Client_CmdCompletionFailed, GoTo, TypeOK,
                      WorkerStates, Dooming
  <2>2. Rest /\ at' = at /\ rel' = rel
    BY <1>4 DEF PostZeroRecvFails, Client_CmdCompletionFailed
  <2>3. QED  BY <1>2, <2>1, <2>2
<1>5. CASE PostSendFails(w)
  <2>1. Turns("next")  BY <1>0, <1>5 DEF PostSendFails, GoTo, TypeOK, WorkerStates, Dooming
  <2>2. Rest /\ at' = at /\ rel' = rel  BY <1>5 DEF PostSendFails
  <2>3. QED  BY <1>2, <2>1, <2>2
<1>6. CASE DropRef(w)
  <2> DEFINE last == [wk[w] EXCEPT !.pc = "close"]
  <2>1. last \in WorkerStates /\ last.pc = "close"
    <3>1. "close" \in PCs  BY DEF PCs
    <3>2. QED  BY <1>0, <3>1, GoesOn
  <2> HIDE DEF last
  <2>2. PICK k \in {last, Done(w)} : wk' = [wk EXCEPT ![w] = k]
    BY <1>0, <1>6 DEF DropRef, Done, last, TypeOK
  <2>3. k \in WorkerStates /\ k.pc \notin Dooming  BY <1>0, <2>1, <2>2, DoneState DEF Dooming
  <2>4. wk'[w] = k /\ \A v \in Workers : v # w => wk'[v] = wk[v]
    BY <1>0, <2>2, <2>3, SetWorker
  <2>5. Turns(k.pc)  BY <1>6, <2>3, <2>4 DEF DropRef
  <2>6. Rest /\ at' = at /\ rel' = rel  BY <1>6 DEF DropRef
  <2>7. QED  BY <1>2, <2>5, <2>6
<1>7. CASE Client_PostZeroRecv(w) \/ CLient_PostSend(w) \/ FreeObj(w)
  <2>1. PICK z \in Objs : z = wk[w].x
    BY <1>0, <1>7, Kinds DEF WorkerOK, WorkerStates, Client_PostZeroRecv, CLient_PostSend, FreeObj
  <2>2. wk' = [wk EXCEPT ![w] = Idle] /\ wk[w].pc # "post"
    BY <1>7 DEF Client_PostZeroRecv, CLient_PostSend, FreeObj, Return
  <2>3. Turns("idle")  BY <1>0, <2>2, IdleState, SetWorker DEF Dooming
  <2>4. Rest  BY <1>7 DEF Client_PostZeroRecv, CLient_PostSend, FreeObj
  <2>5. \E a : Takes(z, a)
    <3>1. CASE Client_PostZeroRecv(w)
      <4>1. Takes(z, "zero")  BY <2>1, <3>1 DEF Client_PostZeroRecv
      <4>2. QED  BY <4>1
    <3>2. CASE CLient_PostSend(w)
      <4>1. Takes(z, "sending")  BY <2>1, <3>2 DEF CLient_PostSend
      <4>2. QED  BY <4>1
    <3>3. CASE FreeObj(w)
      <4>1. PICK a \in {"pool", "heap"} : a = PlaceIfFreed(z)  BY FreedPlace
      <4>2. \A b \in BObjs : b # z => rel'[b] = rel[b]
        BY <1>0, <2>1, <3>3, Kinds DEF FreeObj, TypeOK
      <4>3. Takes(z, a)  BY <2>1, <3>3, <4>1, <4>2 DEF FreeObj
      <4>4. QED  BY <4>3
    <3>4. QED  BY <1>7, <3>1, <3>2, <3>3
  <2>6. QED  BY <1>1, <2>1, <2>3, <2>4, <2>5
<1>8. CASE HandOver(w)
  <2>1. PICK z \in Objs : z = wk[w].y
    BY <1>0, <1>8, Kinds DEF WorkerOK, WorkerStates, HandOver
  <2>2. Turns("send")  BY <1>0, <1>8 DEF HandOver, TypeOK, WorkerStates, Dooming
  <2>3. Rest /\ Takes(z, "held")  BY <1>8, <2>1 DEF HandOver
  <2>4. QED  BY <1>1, <2>1, <2>2, <2>3
<1>9. QED  BY <1>3, <1>4, <1>5, <1>6, <1>7, <1>8

(* The frame loop makes a command, and the same worker is about to post it. *)
LEMMA MakeSide ==
  ASSUME SessionInv, BusyOK, NEW w \in Workers, NEW b \in BObjs, LoopFrame(w, b)
  PROVE  Closes(w) /\ BusyOK'
<1>0. TypeOK /\ wk[w].pc = "loop"  BY DEF SessionInv, LoopFrame
<1> DEFINE k == [wk[w] EXCEPT !.pc = "post", !.y = b, !.n = wk[w].n + 1]
<1>1. k.pc = "post" /\ k.y = b
  <2>1. wk[w] \in WorkerStates  BY <1>0 DEF TypeOK, WorkerStates
  <2>2. QED  BY <2>1 DEF WorkerStates
<1>2. wk' = [wk EXCEPT ![w] = k]  BY <1>0 DEF LoopFrame, TypeOK
<1> HIDE DEF k
<1>3. wk'[w] = k /\ \A v \in Workers : v # w => wk'[v] = wk[v]
  BY <1>0, <1>2 DEF TypeOK
<1>4. \A z \in RSocks \cup Objs : z # b => at'[z] = at[z]
  BY <1>0 DEF LoopFrame, TypeOK
<1>5. \A z \in Objs : z # b => rel'[z] = rel[z]  BY <1>0 DEF LoopFrame, TypeOK
<1>6. at'[b] = "made"  BY <1>0, Kinds DEF LoopFrame, TypeOK
<1>7. Closes(w)
  BY <1>1, <1>3, <1>4, Kinds DEF Closes, LoopFrame, Dooming
<1>8. ASSUME NEW c \in BObjs, at'[c] = "made"
      PROVE  \E v \in Workers : wk'[v].pc = "post" /\ wk'[v].y = c
  <2>1. CASE c = b  BY <1>1, <1>3, <2>1
  <2>2. CASE c # b
    <3>1. PICK v \in Workers : wk[v].pc = "post" /\ wk[v].y = c
      BY <1>4, <1>8, <2>2, Kinds DEF BusyOK
    <3>2. v # w  BY <1>0, <3>1
    <3>3. QED  BY <1>3, <3>1, <3>2
  <2>3. QED  BY <2>1, <2>2
<1>9. ASSUME NEW c \in BObjs, at'[c] = "queued" PROVE ListedIn(c)'
  <2>1. c # b /\ at[c] = "queued" /\ rel'[c] = rel[c] /\ lstSend' = lstSend
    BY <1>4, <1>5, <1>6, <1>9, Kinds DEF LoopFrame
  <2>2. QED  BY <2>1 DEF BusyOK, ListedIn
<1>10. BusyOK'  BY <1>8, <1>9 DEF BusyOK
<1>11. QED  BY <1>7, <1>10

(* PostQueuedCompletionStatus takes the command, or it is freed. *)
LEMMA PostSide ==
  ASSUME SessionInv, BusyOK, NEW w \in Workers, PostCmd(w) \/ PostCmdFails(w)
  PROVE  Closes(w) /\ BusyOK'
<1>0. TypeOK /\ WorkerOK(w) /\ wk[w].pc = "post" /\ wk[w] \in WorkerStates
  BY DEF SessionInv, PostCmd, PostCmdFails, TypeOK, WorkerStates
<1>1. PICK b \in BObjs : b = wk[w].y
  BY <1>0 DEF WorkerOK, WorkerStates
<1>2. wk'[w].pc \in {"loop", "close"} /\ \A v \in Workers : v # w => wk'[v] = wk[v]
  <2>1. CASE PostCmd(w)  BY <1>0, <2>1 DEF PostCmd, TypeOK, WorkerStates
  <2>2. CASE PostCmdFails(w)  BY <1>0, <2>2 DEF PostCmdFails, TypeOK, WorkerStates
  <2>3. QED  BY <2>1, <2>2
<1>3. PICK a \in {"posted", "pool", "heap"} : at' = [at EXCEPT ![b] = a]
  <2>1. PlaceIfFreed(b) \in {"pool", "heap"}  BY FreedPlace
  <2>2. CASE PostCmd(w)  BY <1>1, <2>2 DEF PostCmd
  <2>3. CASE PostCmdFails(w)  BY <1>1, <2>1, <2>3 DEF PostCmdFails
  <2>4. QED  BY <2>2, <2>3
<1>4. at'[b] = a /\ \A z \in RSocks \cup Objs : z # b => at'[z] = at[z]
  BY <1>0, <1>3, Kinds DEF TypeOK
<1>5. \A z \in Objs : z # b => rel'[z] = rel[z]
  <2>1. CASE PostCmd(w)  BY <2>1 DEF PostCmd
  <2>2. CASE PostCmdFails(w)  BY <1>0, <1>1, <2>2 DEF PostCmdFails, TypeOK
  <2>3. QED  BY <2>1, <2>2
<1>6. lstSend' = lstSend /\ sock' = sock  BY DEF PostCmd, PostCmdFails
<1>7. Closes(w)  BY <1>2, <1>4, <1>6, Kinds DEF Closes, Dooming
<1>8. ASSUME NEW c \in BObjs, at'[c] = "made"
      PROVE  \E v \in Workers : wk'[v].pc = "post" /\ wk'[v].y = c
  <2>1. c # b /\ at[c] = "made"  BY <1>4, <1>8, Kinds
  <2>2. PICK v \in Workers : wk[v].pc = "post" /\ wk[v].y = c  BY <2>1 DEF BusyOK
  <2>3. v # w  BY <1>1, <2>1, <2>2
  <2>4. QED  BY <1>2, <2>2, <2>3
<1>9. ASSUME NEW c \in BObjs, at'[c] = "queued" PROVE ListedIn(c)'
  <2>1. at[c] = "queued" /\ rel'[c] = rel[c]  BY <1>4, <1>5, <1>9, Kinds
  <2>2. QED  BY <1>6, <2>1 DEF BusyOK, ListedIn
<1>10. BusyOK'  BY <1>8, <1>9 DEF BusyOK
<1>11. QED  BY <1>7, <1>10

(* CheckSend: the reply it queues is the first of its list, and the others
   move back by one. *)
LEMMA CheckSendSide ==
  ASSUME SessionInv, BusyOK, NEW w \in Workers, CheckSend(w)
  PROVE  Closes(w) /\ BusyOK'
<1>0. TypeOK /\ WorkerOK(w) /\ wk[w].pc = "cmd" /\ wk[w] \in WorkerStates
  BY DEF SessionInv, CheckSend, TypeOK, WorkerStates
<1>1. PICK r \in RSocks : r = wk[w].r /\ SockOK(r)
  BY <1>0, Owner DEF Owning, RefPCs
<1>2. PICK x \in BObjs : x = wk[w].x  BY <1>0 DEF WorkerOK
<1>3. at[x] = "held" /\ rel[x] = r  BY <1>0, <1>1, <1>2, Kinds DEF WorkerOK
<1>4. wk'[w].pc \in {"send", "idle"} /\ \A v \in Workers : v # w => wk'[v] = wk[v]
  BY <1>0, IdleState DEF CheckSend, GoTo, Return, TypeOK, WorkerStates
<1>5. at' = at \/ at' = [at EXCEPT ![x] = "queued"]  BY <1>2 DEF CheckSend
<1>6. \A z \in RSocks \cup Objs : z # x => at'[z] = at[z]  BY <1>0, <1>5 DEF TypeOK
<1>7. rel' = rel /\ sock' = sock /\ lstSend' = [lstSend EXCEPT ![r] = <<x>> \o lstSend[r]]
  BY <1>1, <1>2 DEF CheckSend
<1>8. Closes(w)  BY <1>4, <1>6, <1>7, Kinds DEF Closes, Dooming
<1>9. /\ lstSend[r] \in Seq(BObjs) /\ lstSend'[r] = <<x>> \o lstSend[r]
      /\ \A s \in RSocks : s # r => lstSend'[s] = lstSend[s]
  BY <1>0, <1>7 DEF TypeOK
<1>10. /\ Len(lstSend'[r]) = Len(lstSend[r]) + 1 /\ lstSend'[r][1] = x
       /\ \A i \in 2..(Len(lstSend[r]) + 1) : lstSend'[r][i] = lstSend[r][i - 1]
       /\ Len(lstSend[r]) \in Nat
  BY <1>9, PushFront
<1>11. ASSUME NEW c \in BObjs, at'[c] = "made"
       PROVE  \E v \in Workers : wk'[v].pc = "post" /\ wk'[v].y = c
  <2>1. c # x
    <3>1. CASE at' = at  BY <1>3, <1>11, <3>1
    <3>2. CASE at' = [at EXCEPT ![x] = "queued"]
      BY <1>0, <1>11, <3>2, Kinds DEF TypeOK
    <3>3. QED  BY <1>5, <3>1, <3>2
  <2>2. PICK v \in Workers : wk[v].pc = "post" /\ wk[v].y = c
    BY <1>6, <1>11, <2>1, Kinds DEF BusyOK
  <2>3. v # w  BY <1>0, <2>2
  <2>4. QED  BY <1>4, <2>2, <2>3
<1>12. ASSUME NEW c \in BObjs, at'[c] = "queued" PROVE ListedIn(c)'
  <2>1. CASE c = x
    <3>1. 1 \in 1..Len(lstSend'[r])  BY <1>10
    <3>2. QED  BY <1>3, <1>7, <1>10, <2>1, <3>1 DEF ListedIn
  <2>2. CASE c # x
    <3>1. at[c] = "queued" /\ rel[c] \in RSocks
      BY <1>6, <1>12, <2>2, Kinds DEF SessionInv, ObjOK, Pending
    <3>2. PICK i \in 1..Len(lstSend[rel[c]]) : lstSend[rel[c]][i] = c
      BY <3>1 DEF BusyOK, ListedIn
    <3>3. CASE rel[c] = r
      <4>1. i + 1 \in 2..(Len(lstSend[r]) + 1) /\ i + 1 \in 1..Len(lstSend'[r]) /\ (i + 1) - 1 = i
        BY <1>10, <3>2, <3>3
      <4>2. lstSend'[r][i + 1] = c  BY <1>10, <3>2, <3>3, <4>1
      <4>3. QED  BY <1>7, <3>3, <4>1, <4>2 DEF ListedIn
    <3>4. CASE rel[c] # r  BY <1>7, <1>9, <3>1, <3>2, <3>4 DEF ListedIn
    <3>5. QED  BY <3>3, <3>4
  <2>3. QED  BY <2>1, <2>2
<1>13. BusyOK'  BY <1>11, <1>12 DEF BusyOK
<1>14. QED  BY <1>8, <1>13

(* GetNextData: the list loses its back, which is the reply that was sent and
   not one that is queued. *)
LEMMA NextSide ==
  ASSUME SessionInv, BusyOK, NEW w \in Workers, GetNextData(w)
  PROVE  Closes(w) /\ BusyOK'
<1>0. TypeOK /\ WorkerOK(w) /\ wk[w].pc = "next" /\ wk[w] \in WorkerStates
  BY DEF SessionInv, GetNextData, TypeOK, WorkerStates
<1>1. PICK r \in RSocks : r = wk[w].r /\ SockOK(r)
  BY <1>0, Owner DEF Owning, RefPCs
<1>2. PICK x \in BObjs : x = wk[w].x  BY <1>0 DEF WorkerOK
<1>3. at[x] = "held" /\ rel[x] = r /\ w \in Drivers(r) /\ Carried(w) = x
  BY <1>0, <1>1, <1>2, Kinds DEF WorkerOK, Drivers, Carried
<1>4. PICK n \in Nat \ {0} :
        n = Len(lstSend[r]) /\ lstSend[r] \in Seq(BObjs) /\ x = lstSend[r][n]
  BY <1>3, DriverIsAlone
<1> DEFINE rest == SubSeq(lstSend[r], 1, n - 1)
<1>5. /\ Len(rest) = n - 1 /\ \A i \in 1..(n - 1) : rest[i] = lstSend[r][i]
  BY <1>4, PopBack
<1>6. lstSend' = [lstSend EXCEPT ![r] = rest]  BY <1>1, <1>4 DEF GetNextData
<1> HIDE DEF rest
<1>7. /\ lstSend'[r] = rest
      /\ \A s \in RSocks : s # r => lstSend'[s] = lstSend[s]
  BY <1>0, <1>6 DEF TypeOK
<1>8. wk'[w].pc \in {"drop", "hand"} /\ \A v \in Workers : v # w => wk'[v] = wk[v]
  <2> DEFINE last == SubSeq(lstSend[wk[w].r], 1, Len(lstSend[wk[w].r]) - 1)
             y == IF last = <<>> THEN None ELSE last[Len(last)]
             p == IF last = <<>> THEN "drop" ELSE "hand"
  <2>1. wk' = [wk EXCEPT ![w].pc = p, ![w].x = None, ![w].y = y]  BY DEF GetNextData
  <2>2. p \in {"drop", "hand"}  OBVIOUS
  <2> HIDE DEF last, y, p
  <2>3. QED  BY <1>0, <2>1, <2>2 DEF TypeOK, WorkerStates
<1>9. PICK a \in {"pool", "heap"} : at' = [at EXCEPT ![x] = a]
  BY <1>2, FreedPlace DEF GetNextData
<1>10. at'[x] = a /\ \A z \in RSocks \cup Objs : z # x => at'[z] = at[z]
  BY <1>0, <1>9, Kinds DEF TypeOK
<1>11. sock' = sock /\ \A z \in Objs : z # x => rel'[z] = rel[z]
  BY <1>0, <1>2 DEF GetNextData, TypeOK
<1>12. Closes(w)  BY <1>8, <1>10, <1>11, Kinds DEF Closes, Dooming
<1>13. ASSUME NEW c \in BObjs, at'[c] = "made"
       PROVE  \E v \in Workers : wk'[v].pc = "post" /\ wk'[v].y = c
  <2>1. at[c] = "made"  BY <1>10, <1>13, Kinds
  <2>2. PICK v \in Workers : wk[v].pc = "post" /\ wk[v].y = c  BY <2>1 DEF BusyOK
  <2>3. v # w  BY <1>0, <2>2
  <2>4. QED  BY <1>8, <2>2, <2>3
<1>14. ASSUME NEW c \in BObjs, at'[c] = "queued" PROVE ListedIn(c)'
  <2>1. c # x /\ at[c] = "queued" /\ rel'[c] = rel[c]  BY <1>10, <1>11, <1>14, Kinds
  <2>2. rel[c] \in RSocks  BY <2>1, Kinds DEF SessionInv, ObjOK, Pending
  <2>3. PICK i \in 1..Len(lstSend[rel[c]]) : lstSend[rel[c]][i] = c
    BY <2>1 DEF BusyOK, ListedIn
  <2>4. CASE rel[c] = r
    <3>1. i \in 1..n /\ i # n  BY <1>4, <2>1, <2>3, <2>4
    <3>2. i \in 1..(n - 1)  BY <1>4, <3>1
    <3>3. QED  BY <1>5, <1>7, <2>1, <2>3, <2>4, <3>2 DEF ListedIn
  <2>5. CASE rel[c] # r  BY <1>7, <2>1, <2>2, <2>3, <2>5 DEF ListedIn
  <2>6. QED  BY <2>4, <2>5
<1>15. BusyOK'  BY <1>13, <1>14 DEF BusyOK
<1>16. QED  BY <1>12, <1>15

(* main's steps: a RECV_SOCK it opens is free, so no worker has it. *)
LEMMA MainSide ==
  ASSUME SessionInv, ClosedOK, BusyOK,
         \/ \E r \in RSocks, o \in RObjs : Client_PostAcceptEx(r, o) \/ PostAcceptExFails(r, o)
         \/ \E r \in RSocks : SweepFinds(r)
         \/ SweepCloses
  PROVE  ClosedOK' /\ BusyOK'
<1>0. TypeOK  BY DEF SessionInv
<1>1. ASSUME NEW r \in RSocks, NEW o \in RObjs,
             Client_PostAcceptEx(r, o) \/ PostAcceptExFails(r, o)
      PROVE  ClosedOK' /\ BusyOK'
  <2>1. at[r] # "used"  BY <1>1, AvailableIsFree DEF Client_PostAcceptEx, PostAcceptExFails
  <2>2. Holders(r) = {} /\ Users(r) = {}  BY <2>1 DEF SessionInv, SockOK, CountOK
  <2>3. wk' = wk /\ \A w \in Workers : wk[w].r # r
    BY <1>1, <2>2 DEF Users, Client_PostAcceptEx, PostAcceptExFails
  <2>4. /\ \A z \in RSocks \cup BObjs : z # r => at'[z] = at[z]
        /\ \A b \in BObjs : rel'[b] = rel[b]
        /\ \A s \in RSocks : s # r => sock'[s] = sock[s] /\ lstSend'[s] = lstSend[s]
        /\ at'[r] = "used" \/ sock'[r] = "invalid"
    BY <1>0, <1>1, Kinds DEF TypeOK, Client_PostAcceptEx, PostAcceptExFails
  <2>5. ASSUME NEW w \in Workers, wk'[w].pc \in Dooming PROVE sock'[wk'[w].r] = "invalid"
    <3>1. wk[w].pc \in Owning  BY <2>3, <2>5 DEF Dooming, Owning, RefPCs, Closing
    <3>2. wk[w].r \in RSocks  BY <3>1, Owner
    <3>3. QED  BY <2>3, <2>4, <2>5, <3>2 DEF ClosedOK
  <2>6. ClosedOK'  BY <2>4, <2>5 DEF ClosedOK
  <2>7. ASSUME NEW b \in BObjs, at'[b] = "made"
        PROVE  \E v \in Workers : wk'[v].pc = "post" /\ wk'[v].y = b
    BY <2>3, <2>4, <2>7, Kinds DEF BusyOK
  <2>8. ASSUME NEW b \in BObjs, at'[b] = "queued" PROVE ListedIn(b)'
    <3>1. at[b] = "queued" /\ rel'[b] = rel[b]  BY <2>4, <2>8, Kinds
    <3>2. rel[b] \in RSocks \ {r}
      BY <2>2, <3>1, Kinds DEF SessionInv, ObjOK, Pending, Holders
    <3>3. QED  BY <2>4, <3>1, <3>2 DEF BusyOK, ListedIn
  <2>9. BusyOK'  BY <2>7, <2>8 DEF BusyOK
  <2>10. QED  BY <2>6, <2>9
<1>2. CASE \E r \in RSocks : SweepFinds(r)
  <2>1. UNCHANGED <<at, rel, sock, lstSend, wk>>  BY <1>2 DEF SweepFinds
  <2>2. QED  BY <2>1 DEF ClosedOK, BusyOK, ListedIn
<1>3. CASE SweepCloses
  <2>1. UNCHANGED <<at, rel, lstSend, wk>>  BY <1>3 DEF SweepCloses
  <2>2. \A r \in RSocks : sock'[r] \in {sock[r], "invalid"}
    BY <1>0, <1>3 DEF SweepCloses, TypeOK
  <2>3. \A w \in Workers : wk[w].pc \in Dooming => wk[w].r \in RSocks
    BY Owner DEF Dooming, Owning, RefPCs, Closing
  <2>4. ClosedOK'  BY <2>1, <2>2, <2>3 DEF ClosedOK
  <2>5. BusyOK'  BY <2>1 DEF BusyOK, ListedIn
  <2>6. QED  BY <2>4, <2>5
<1>4. QED  BY <1>1, <1>2, <1>3

SideInv == SessionInv /\ ClosedOK /\ BusyOK

(* Every step keeps all of it. *)
LEMMA SideNext == SideInv /\ [Next]_vars => SideInv'
<1> SUFFICES ASSUME SideInv, [Next]_vars PROVE SideInv'
  OBVIOUS
<1>0. SessionInv /\ SessionInv' /\ ClosedOK /\ BusyOK  BY NextInv DEF SideInv
<1>1. CASE UNCHANGED vars
  <2>1. UNCHANGED <<at, rel, sock, lstSend, wk>>  BY <1>1 DEF vars
  <2>2. QED  BY <1>0, <2>1 DEF SideInv, ClosedOK, BusyOK, ListedIn
<1>2. ASSUME NEW w \in Workers,
             \/ Closes(w) /\ Plain(w)
             \/ Closes(w) /\ BusyOK'
      PROVE  SideInv'
  BY <1>0, <1>2, ClosedKept, BusyKept DEF SideInv
<1>3. ASSUME NEW w \in Workers, NEW x \in Objs, TakePacket(w, x) PROVE SideInv'
  BY <1>0, <1>2, <1>3, TakeSide
<1>4. ASSUME NEW w \in Workers, HandlerStep(w) PROVE SideInv'
  <2>1. CASE RefuseFrees(w) \/ CloseSock(w) \/ FreeSock(w)
    BY <1>0, <1>2, <2>1, FreeSide
  <2>2. CASE \/ LoopDone(w) \/ Client_PostZeroRecv(w) \/ PostZeroRecvFails(w)
             \/ DropRef(w) \/ FreeObj(w) \/ Client_CmdCompletionFailed(w)
             \/ CLient_PostSend(w) \/ PostSendFails(w) \/ HandOver(w)
    BY <1>0, <1>2, <2>2, PlainSide
  <2>3. CASE \E b \in BObjs : LoopFrame(w, b)
    BY <1>0, <1>2, <2>3, MakeSide
  <2>4. CASE PostCmd(w) \/ PostCmdFails(w)  BY <1>0, <1>2, <2>4, PostSide
  <2>5. CASE CheckSend(w)  BY <1>0, <1>2, <2>5, CheckSendSide
  <2>6. CASE GetNextData(w)  BY <1>0, <1>2, <2>6, NextSide
  <2>7. QED  BY <1>4, <2>1, <2>2, <2>3, <2>4, <2>5, <2>6 DEF HandlerStep
<1>5. CASE \/ \E r \in RSocks, o \in RObjs : Client_PostAcceptEx(r, o) \/ PostAcceptExFails(r, o)
           \/ \E r \in RSocks : SweepFinds(r)
           \/ SweepCloses
  BY <1>0, <1>5, MainSide DEF SideInv
<1>6. QED  BY <1>1, <1>3, <1>4, <1>5 DEF Next

(* It holds initially: everything is on the heap, and no socket is open. *)
LEMMA SideInit == Init => SideInv
<1> SUFFICES ASSUME Init PROVE SideInv
  OBVIOUS
<1>1. SessionInv  BY InitInv
<1>2. ClosedOK  BY IdleState DEF Init, ClosedOK, Dooming
<1>3. BusyOK
  <2>1. \A b \in BObjs : at[b] = "heap"  BY Kinds DEF Init
  <2>2. QED  BY <2>1 DEF BusyOK
<1>4. QED  BY <1>1, <1>2, <1>3 DEF SideInv

(* No operation, packet, reply or handler refers to a RECV_SOCK after freeRSock,
   and whoever does - main's sweep, which may have read the entry before -
   finds no handle in it. *)
THEOREM SessionNoUseAfterFree == Spec => []NoUseAfterFree
<1>1. SideInv => NoUseAfterFree
  BY DEF SideInv, SessionInv, SockOK, CountOK, Users, ClosedOK, NoUseAfterFree
<1>2. QED  BY <1>1, SideInit, SideNext, PTL DEF Spec

(* A RECV_SOCK in use has an operation, a packet or a worker that will come
   back to it, or a command of it was dropped by the empty handler: owners that
   only wait have somebody to wait for. *)
THEOREM SessionForgottenOnlyIfDropped == Spec => []ForgottenOnlyIfDropped
<1>1. ASSUME SideInv PROVE ForgottenOnlyIfDropped
  <2> SUFFICES ASSUME NEW r \in RSocks, at[r] = "used",
                      ~ \E b \in BObjs : at[b] = "dropped" /\ rel[b] = r
               PROVE  Movers(r) # {}
    BY DEF ForgottenOnlyIfDropped
  <2>0. SessionInv /\ BusyOK /\ SockOK(r) /\ PlacesOK
    BY <1>1 DEF SideInv, SessionInv
  <2>1. \A w \in Workers : wk[w].r = r => Movers(r) # {}  BY DEF Movers
  <2>2. \A x \in Objs : at[x] \in {"accept", "zero", "recv", "sending", "posted"} /\ rel[x] = r
                          => Movers(r) # {}
    BY DEF Movers
  <2>3. CASE Holders(r) = {}
    <3>1. PICK w \in Users(r) : wk[w].pc \in Closing  BY <2>0, <2>3 DEF SockOK, OwnerOK
    <3>2. QED  BY <2>1, <3>1 DEF Users
  <2>4. CASE Holders(r) # {}
    <3>1. PICK h \in Holders(r) : TRUE  BY <2>4
    <3>2. CASE h \in Workers  BY <2>1, <3>1, <3>2, Kinds DEF Holders
    <3>3. CASE h \in Objs /\ at[h] \in Pending /\ rel[h] = r
      <4>1. CASE at[h] \in {"accept", "zero", "recv", "sending", "posted"}
        BY <2>2, <3>3, <4>1
      <4>2. CASE at[h] = "made"
        <5>1. h \in BObjs  BY <2>0, <3>3, <4>2 DEF PlacesOK, Objs
        <5>2. PICK w \in Workers : wk[w].pc = "post" /\ wk[w].y = h
          BY <2>0, <4>2, <5>1 DEF BusyOK
        <5>3. wk[w].r = r  BY <2>0, <3>3, <5>1, <5>2, Kinds DEF SessionInv, WorkerOK
        <5>4. QED  BY <2>1, <5>3
      <4>3. CASE at[h] = "queued"
        <5>1. h \in BObjs  BY <2>0, <3>3, <4>3 DEF PlacesOK, Objs
        <5>2. PICK i \in 1..Len(lstSend[r]) : lstSend[r][i] = h
          BY <2>0, <3>3, <4>3, <5>1 DEF BusyOK, ListedIn
        <5>3. Len(lstSend[r]) \in Nat  BY <2>0, Fields DEF SessionInv
        <5>4. Len(lstSend[r]) > 0  BY <5>2, <5>3
        <5>5. PICK d : d \in Drivers(r)  BY <2>0, <5>4 DEF SockOK, ListOK
        <5>6. CASE d \in BObjs /\ at[d] = "sending" /\ rel[d] = r  BY <2>2, <5>6, Kinds
        <5>7. CASE d \in Workers /\ wk[d].r = r  BY <2>1, <5>7
        <5>8. QED  BY <5>5, <5>6, <5>7 DEF Drivers
      <4>4. CASE at[h] = "dropped"
        <5>1. h \in BObjs  BY <2>0, <3>3, <4>4 DEF PlacesOK, Objs
        <5>2. QED  BY <3>3, <4>4, <5>1
      <4>5. QED  BY <3>3, <4>1, <4>2, <4>3, <4>4 DEF Pending
    <3>4. QED  BY <3>1, <3>2, <3>3 DEF Holders
  <2>5. QED  BY <2>3, <2>4
<1>2. QED  BY <1>1, SideInit, SideNext, PTL DEF Spec

-----------------------------------------------------------------------------
(* The refinements: each of the things a step does to the owners and to the
   list of one RECV_SOCK is a step of SharedLife or of SendQueue. *)

Alive == { r \in RSocks : at[r] = "used" }
Owners == [r \in RSocks |-> Holders(r)]

(* A step on the owners of one RECV_SOCK is a step of SharedLife. *)
LEMMA LifeStep == SessionInv /\ SessionStep => [SL!LifeNext]_<<Alive, Owners>>
<1> SUFFICES ASSUME SessionInv, SessionStep PROVE [SL!LifeNext]_<<Alive, Owners>>
  OBVIOUS
<1>1. PICK r \in RSocks \cup {None} :
        /\ \A s \in RSocks : s # r => /\ at'[s] = at[s] /\ Holders(s)' = Holders(s)
                                      /\ lstSend'[s] = lstSend[s] /\ Sending(s)' = Sending(s)
        /\ r # None => OwnersChange(r) /\ ListChange(r)
  BY DEF SessionStep
<1>2. CASE r = None
  <2>1. Alive' = Alive /\ Owners' = Owners  BY <1>1, <1>2, Kinds DEF Alive, Owners
  <2>2. QED  BY <2>1
<1>3. CASE r \in RSocks
  <2>1. OwnersChange(r) /\ Owners[r] = Holders(r)  BY <1>1, <1>3, Kinds DEF Owners
  <2>2. Owners' = [Owners EXCEPT ![r] = Holders(r)']  BY <1>1, <1>3 DEF Owners
  <2>3. at'[r] = at[r] => Alive' = Alive  BY <1>1, <1>3 DEF Alive
  <2>4. at[r] # "used" /\ at'[r] # "used" => Alive' = Alive  BY <1>1, <1>3 DEF Alive
  <2>5. at[r] # "used" /\ at'[r] = "used" => r \notin Alive /\ Alive' = Alive \cup {r}
    BY <1>1, <1>3 DEF Alive
  <2>6. at[r] = "used" /\ at'[r] # "used" => r \in Alive /\ Alive' = Alive \ {r}
    BY <1>1, <1>3 DEF Alive
  <2> DEFINE Agents == Objs \cup Workers
  <2>7. CASE Holders(r)' = Holders(r) /\ Alive' = Alive
    <3>1. Owners' = Owners  BY <2>2, <2>7 DEF Owners
    <3>2. QED  BY <2>7, <3>1
  <2>8. ASSUME NEW a \in Agents, at[r] # "used", at'[r] = "used", Holders(r)' = {a}
        PROVE  SL!LifeNext
    <3>1. SL!Create(r, a)  BY <2>2, <2>5, <2>8 DEF SL!Create, Alive, Owners
    <3>2. QED  BY <1>3, <2>8, <3>1 DEF SL!LifeNext
  <2>9. ASSUME NEW a \in Agents, at'[r] = at[r], Holders(r) # {}, a \notin Holders(r),
               Holders(r)' = Holders(r) \cup {a}
        PROVE  SL!LifeNext
    <3>1. SL!Share(r, a)  BY <2>1, <2>2, <2>3, <2>9 DEF SL!Share, Alive, Owners
    <3>2. QED  BY <1>3, <2>9, <3>1 DEF SL!LifeNext
  <2>10. ASSUME NEW a \in Agents, NEW b \in Agents, at'[r] = at[r],
                a \in Holders(r), b \notin Holders(r), Holders(r)' = (Holders(r) \ {a}) \cup {b}
         PROVE  SL!LifeNext
    <3>1. SL!Pass(r, a, b)  BY <2>1, <2>2, <2>3, <2>10 DEF SL!Pass, Alive, Owners
    <3>2. QED  BY <1>3, <2>10, <3>1 DEF SL!LifeNext
  <2>11. ASSUME NEW a \in Agents, at'[r] = at[r], a \in Holders(r), Holders(r)' = Holders(r) \ {a}
         PROVE  SL!LifeNext
    <3>1. SL!Release(r, a)  BY <2>1, <2>2, <2>3, <2>11 DEF SL!Release, Alive, Owners
    <3>2. QED  BY <1>3, <2>11, <3>1 DEF SL!LifeNext
  <2>12. ASSUME at[r] = "used", at'[r] # "used", Holders(r)' = {},
                Holders(r) = {} \/ \E a \in Agents : Holders(r) = {a}
         PROVE  SL!LifeNext
    <3>1. SL!Reclaim(r)  BY <2>1, <2>2, <2>6, <2>12 DEF SL!Reclaim, Alive, Owners
    <3>2. QED  BY <1>3, <3>1 DEF SL!LifeNext
  <2>13. QED
    BY <2>1, <2>3, <2>4, <2>7, <2>8, <2>9, <2>10, <2>11, <2>12 DEF OwnersChange
<1>4. QED  BY <1>2, <1>3

(* Ownership by reference count: every step of every handler lets an owner in
   through one that is there, lets one go, passes a reference on, or gives the
   RECV_SOCK back after the last one. *)
THEOREM SessionIsSharedLife == Spec => ImplementsSharedLife
<1>1. ASSUME Init PROVE SL!LifeInit
  <2>1. SessionInv /\ \A r \in RSocks : at[r] = "heap"  BY <1>1, InitInv DEF Init
  <2>2. \A r \in RSocks : Holders(r) = {}  BY <2>1 DEF SessionInv, SockOK, CountOK
  <2>3. QED  BY <2>1, <2>2 DEF SL!LifeInit
<1>2. SessionInv /\ [Next]_vars => [SL!LifeNext]_<<Alive, Owners>>
  BY NextInv, LifeStep
<1>3. QED
  BY <1>1, <1>2, SessionInvariant, PTL DEF Spec, ImplementsSharedLife, SL!LifeSpec, Alive, Owners

-----------------------------------------------------------------------------
(* The list from back to front. *)
LEMMA Reversed ==
  ASSUME NEW S, NEW s \in Seq(S)
  PROVE  /\ Sx!Reverse(s) \in Seq(S) /\ Len(Sx!Reverse(s)) = Len(s)
         /\ \A i \in 1..Len(s) : Sx!Reverse(s)[i] = s[(Len(s) - i) + 1]
<1>1. Len(s) \in Nat /\ \A i \in 1..Len(s) : s[(Len(s) - i) + 1] \in S
  OBVIOUS
<1>2. QED  BY <1>1 DEF Sx!Reverse

(* push_front puts a reply at the end of the queue ... *)
LEMMA ReversePut ==
  ASSUME NEW S, NEW s \in Seq(S), NEW x \in S
  PROVE  Sx!Reverse(<<x>> \o s) = Append(Sx!Reverse(s), x)
<1> DEFINE t == <<x>> \o s
           u == Sx!Reverse(t)
           q == Append(Sx!Reverse(s), x)
<1>n. PICK n \in Nat : n = Len(s)  OBVIOUS
<1>1. t \in Seq(S) /\ Len(t) = n + 1 /\ t[1] = x /\ \A i \in 2..(n + 1) : t[i] = s[i - 1]
  BY <1>n, PushFront
<1> HIDE DEF t
<1>2. u \in Seq(S) /\ Len(u) = n + 1 /\ \A i \in 1..(n + 1) : u[i] = t[(n + 1 - i) + 1]
  <2>1. u \in Seq(S) /\ Len(u) = Len(t) /\ \A i \in 1..Len(t) : u[i] = t[(Len(t) - i) + 1]
    BY <1>1, Reversed
  <2> HIDE DEF u
  <2>2. QED  BY <1>1, <2>1
<1>3. Sx!Reverse(s) \in Seq(S) /\ Len(Sx!Reverse(s)) = n
      /\ \A i \in 1..n : Sx!Reverse(s)[i] = s[(n - i) + 1]
  BY <1>n, Reversed
<1>4. q \in Seq(S) /\ Len(q) = n + 1 /\ q[n + 1] = x
      /\ \A i \in 1..n : q[i] = Sx!Reverse(s)[i]
  BY <1>3
<1> HIDE DEF u, q
<1>5. ASSUME NEW i \in 1..(n + 1) PROVE u[i] = q[i]
  <2>1. CASE i = n + 1
    <3>1. (n + 1 - i) + 1 = 1  BY <2>1
    <3>2. u[i] = t[1]  BY <1>2, <3>1
    <3>3. QED  BY <1>1, <1>4, <2>1, <3>2
  <2>2. CASE i \in 1..n
    <3>1. (n + 1 - i) + 1 \in 2..(n + 1) /\ (n + 1 - i) + 1 - 1 = (n - i) + 1  BY <2>2
    <3>2. u[i] = t[(n + 1 - i) + 1]  BY <1>2
    <3>3. t[(n + 1 - i) + 1] = s[(n - i) + 1]  BY <1>1, <3>1
    <3>4. q[i] = s[(n - i) + 1]  BY <1>3, <1>4, <2>2
    <3>5. QED  BY <3>2, <3>3, <3>4
  <2>3. QED  BY <2>1, <2>2
<1>6. u = q  BY <1>2, <1>4, <1>5, SeqEqual
<1>7. QED  BY <1>6 DEF u, q, t

(* ... and pop_back takes its oldest away. *)
LEMMA ReversePop ==
  ASSUME NEW S, NEW s \in Seq(S), Len(s) # 0
  PROVE  /\ Sx!Reverse(s) # <<>>
         /\ Head(Sx!Reverse(s)) = s[Len(s)]
         /\ Sx!Reverse(SubSeq(s, 1, Len(s) - 1)) = Tail(Sx!Reverse(s))
<1>n. PICK n \in Nat : n = Len(s)  OBVIOUS
<1> DEFINE t == SubSeq(s, 1, n - 1)
           u == Sx!Reverse(s)
           v == Sx!Reverse(t)
<1>1. t \in Seq(S) /\ Len(t) = n - 1 /\ \A i \in 1..(n - 1) : t[i] = s[i]
  BY <1>n, PopBack
<1> HIDE DEF t
<1>2. u \in Seq(S) /\ Len(u) = n /\ \A i \in 1..n : u[i] = s[(n - i) + 1]
  BY <1>n, Reversed
<1>3. v \in Seq(S) /\ Len(v) = n - 1 /\ \A i \in 1..(n - 1) : v[i] = t[(n - 1 - i) + 1]
  <2>1. v \in Seq(S) /\ Len(v) = Len(t) /\ \A i \in 1..Len(t) : v[i] = t[(Len(t) - i) + 1]
    BY <1>1, Reversed
  <2> HIDE DEF v
  <2>2. QED  BY <1>1, <2>1
<1> HIDE DEF u, v
<1>4. u # <<>>  BY <1>n, <1>2
<1>5. Head(u) = s[n]
  <2>1. 1 \in 1..n /\ (n - 1) + 1 = n  BY <1>n
  <2>2. u[1] = s[n]  BY <1>2, <2>1
  <2>3. QED  BY <1>2, <1>4, <2>2
<1>6. Tail(u) \in Seq(S) /\ Len(Tail(u)) = n - 1 /\ \A i \in 1..(n - 1) : Tail(u)[i] = u[i + 1]
  BY <1>2, <1>4, HeadTailProperties
<1>7. ASSUME NEW i \in 1..(n - 1) PROVE v[i] = Tail(u)[i]
  <2>1. (n - 1 - i) + 1 \in 1..(n - 1) /\ i + 1 \in 1..n /\ (n - 1 - i) + 1 = (n - (i + 1)) + 1
    OBVIOUS
  <2>2. v[i] = s[(n - 1 - i) + 1]  BY <1>1, <1>3, <2>1
  <2>3. Tail(u)[i] = s[(n - (i + 1)) + 1]  BY <1>2, <1>6, <2>1
  <2>4. QED  BY <2>1, <2>2, <2>3
<1>8. v = Tail(u)  BY <1>3, <1>6, <1>7, SeqEqual
<1>9. QED  BY <1>n, <1>4, <1>5, <1>8 DEF u, v, t

-----------------------------------------------------------------------------
(* The system is sending at most one reply of a connection, the oldest. *)
LEMMA OneInFlight ==
  ASSUME SessionInv, NEW r \in RSocks
  PROVE  \/ Sending(r) = {}
         \/ \E b \in BObjs : Sending(r) = {b}
<1>1. Sending(r) \subseteq Drivers(r)  BY DEF Sending, Drivers
<1>2. \A b \in Sending(r) : b \in BObjs /\ Drivers(r) = {b}
  BY <1>1, DriverIsAlone DEF Sending
<1>3. QED  BY <1>1, <1>2

(* InFlight says which. *)
LEMMA InFlightIs ==
  ASSUME NEW r \in RSocks
  PROVE  /\ Sending(r) = {} => InFlight[r] = None
         /\ \A b \in BObjs : Sending(r) = {b} => InFlight[r] = b
<1>1. ASSUME Sending(r) = {} PROVE InFlight[r] = None
  <2>1. ~\E b \in BObjs : at[b] = "sending" /\ rel[b] = r  BY <1>1 DEF Sending
  <2>2. QED  BY <2>1 DEF InFlight
<1>2. ASSUME NEW b \in BObjs, Sending(r) = {b} PROVE InFlight[r] = b
  <2>1. \A z \in BObjs : at[z] = "sending" /\ rel[z] = r <=> z = b
    BY <1>2 DEF Sending
  <2>2. (CHOOSE z \in BObjs : at[z] = "sending" /\ rel[z] = r) = b  BY <2>1
  <2>3. QED  BY <2>1, <2>2 DEF InFlight
<1>3. QED  BY <1>1, <1>2

(* The same after a step. *)
LEMMA InFlightWillBe ==
  ASSUME NEW r \in RSocks
  PROVE  /\ Sending(r)' = {} => InFlight'[r] = None
         /\ \A b \in BObjs : Sending(r)' = {b} => InFlight'[r] = b
<1>1. ASSUME Sending(r)' = {} PROVE InFlight'[r] = None
  <2>1. ~\E b \in BObjs : at'[b] = "sending" /\ rel'[b] = r  BY <1>1 DEF Sending
  <2>2. QED  BY <2>1 DEF InFlight
<1>2. ASSUME NEW b \in BObjs, Sending(r)' = {b} PROVE InFlight'[r] = b
  <2>1. \A z \in BObjs : at'[z] = "sending" /\ rel'[z] = r <=> z = b
    BY <1>2 DEF Sending
  <2>2. (CHOOSE z \in BObjs : at'[z] = "sending" /\ rel'[z] = r) = b  BY <2>1
  <2>3. QED  BY <2>1, <2>2 DEF InFlight
<1>3. QED  BY <1>1, <1>2

(* A step on the list of one connection is a step of its queue. *)
LEMMA QueueStep ==
  SessionInv /\ SessionStep => [SQ!QueueNext]_<<QueueOf, InFlight>>
<1> SUFFICES ASSUME SessionInv, SessionStep PROVE [SQ!QueueNext]_<<QueueOf, InFlight>>
  OBVIOUS
<1>1. PICK r \in RSocks \cup {None} :
        /\ \A s \in RSocks : s # r => /\ at'[s] = at[s] /\ Holders(s)' = Holders(s)
                                      /\ lstSend'[s] = lstSend[s] /\ Sending(s)' = Sending(s)
        /\ r # None => OwnersChange(r) /\ ListChange(r)
  BY DEF SessionStep
<1>2. \A s \in RSocks : Sending(s)' = Sending(s) => InFlight'[s] = InFlight[s]
  BY InFlightIs, InFlightWillBe, OneInFlight
<1>3. \A s \in RSocks : s # r => InFlight'[s] = InFlight[s] /\ QueueOf'[s] = QueueOf[s]
  <2>1. \A s \in RSocks : s # r => InFlight'[s] = InFlight[s]  BY <1>1, <1>2
  <2>2. \A s \in RSocks : s # r => QueueOf'[s] = QueueOf[s]  BY <1>1 DEF QueueOf
  <2>3. QED  BY <2>1, <2>2
<1>d. /\ DOMAIN InFlight = RSocks /\ DOMAIN InFlight' = RSocks
      /\ InFlight = [s \in RSocks |-> InFlight[s]] /\ InFlight' = [s \in RSocks |-> InFlight'[s]]
      /\ QueueOf = [s \in RSocks |-> QueueOf[s]] /\ QueueOf' = [s \in RSocks |-> QueueOf'[s]]
      /\ DOMAIN QueueOf = RSocks /\ DOMAIN QueueOf' = RSocks
  BY DEF InFlight, QueueOf
<1>4. CASE r = None
  <2>1. InFlight' = InFlight /\ QueueOf' = QueueOf  BY <1>3, <1>4, <1>d, Kinds
  <2>2. QED  BY <2>1
<1>5. CASE r \in RSocks
  <2>1. ListChange(r) /\ lstSend[r] \in Seq(BObjs)
    BY <1>1, <1>5, Fields, Kinds DEF SessionInv
  <2> DEFINE n == Len(lstSend[r])
  <2>2. QueueOf[r] = Sx!Reverse(lstSend[r]) /\ QueueOf'[r] = Sx!Reverse(lstSend'[r])
    BY <1>5 DEF QueueOf
  <2>3. n # 0 => QueueOf[r] # <<>> /\ Head(QueueOf[r]) = lstSend[r][n]
                 /\ Sx!Reverse(SubSeq(lstSend[r], 1, n - 1)) = Tail(QueueOf[r])
    BY <2>1, <2>2, ReversePop
  <2>4. lstSend'[r] = lstSend[r] => QueueOf' = QueueOf
    BY <1>3, <1>5, <1>d, <2>2
  <2>5. Sending(r)' = Sending(r) => InFlight' = InFlight
    BY <1>2, <1>3, <1>5, <1>d
  <2>6. QueueOf' = [QueueOf EXCEPT ![r] = QueueOf'[r]]
    BY <1>3, <1>5, <1>d
  <2>7. InFlight' = [InFlight EXCEPT ![r] = InFlight'[r]]
    BY <1>3, <1>5, <1>d
  <2>8. CASE lstSend'[r] = lstSend[r] /\ Sending(r)' = Sending(r)
    BY <2>4, <2>5, <2>8
  <2>9. ASSUME NEW b \in BObjs, lstSend'[r] = <<b>> \o lstSend[r], Sending(r)' = Sending(r)
        PROVE  SQ!QueueNext
    <3>1. QueueOf'[r] = Append(QueueOf[r], b)  BY <2>1, <2>2, <2>9, ReversePut
    <3>2. SQ!Put(r, b)  BY <2>5, <2>6, <2>9, <3>1 DEF SQ!Put
    <3>3. QED  BY <1>5, <3>2 DEF SQ!QueueNext
  <2>10. ASSUME n # 0, lstSend'[r] = lstSend[r], Sending(r) = {}, Sending(r)' = {lstSend[r][n]}
         PROVE  SQ!QueueNext
    <3>1. lstSend[r][n] \in BObjs  BY <2>1, <2>10
    <3>2. InFlight[r] = None /\ InFlight'[r] = lstSend[r][n]
      BY <1>5, <2>10, <3>1, InFlightIs, InFlightWillBe
    <3>3. SQ!Begin(r)  BY <2>3, <2>4, <2>7, <2>10, <3>2 DEF SQ!Begin
    <3>4. QED  BY <1>5, <3>3 DEF SQ!QueueNext
  <2>11. ASSUME n # 0, lstSend'[r] = lstSend[r], Sending(r) = {lstSend[r][n]}, Sending(r)' = {}
         PROVE  SQ!QueueNext
    <3>1. lstSend[r][n] \in BObjs /\ lstSend[r][n] # None  BY <2>1, <2>11, Kinds
    <3>2. InFlight[r] # None /\ InFlight'[r] = None
      BY <1>5, <2>11, <3>1, InFlightIs, InFlightWillBe
    <3>3. SQ!End(r)  BY <2>4, <2>7, <2>11, <3>2 DEF SQ!End
    <3>4. QED  BY <1>5, <3>3 DEF SQ!QueueNext
  <2>12. ASSUME n # 0, lstSend'[r] = SubSeq(lstSend[r], 1, n - 1),
                Sending(r) = {}, Sending(r)' = {}
         PROVE  SQ!QueueNext
    <3>1. InFlight[r] = None  BY <1>5, <2>12, InFlightIs
    <3>2. QueueOf'[r] = Tail(QueueOf[r])  BY <2>2, <2>3, <2>12
    <3>3. SQ!Remove(r)  BY <2>3, <2>5, <2>6, <2>12, <3>1, <3>2 DEF SQ!Remove
    <3>4. QED  BY <1>5, <3>3 DEF SQ!QueueNext
  <2>13. QED  BY <2>1, <2>8, <2>9, <2>10, <2>11, <2>12 DEF ListChange
<1>6. QED  BY <1>4, <1>5

(* The send lists are queues: replies reach WSASend oldest first, one at a time,
   and none is dropped while the system has it. *)
THEOREM SessionIsSendQueue == Spec => ImplementsSendQueue
<1>1. ASSUME Init PROVE SQ!QueueInit
  <2>1. \A r \in RSocks : Sending(r) = {}
    BY <1>1, Kinds DEF Init, Sending
  <2>2. InFlight = [r \in RSocks |-> InFlight[r]] /\ \A r \in RSocks : InFlight[r] = None
    BY <2>1, InFlightIs DEF InFlight
  <2>3. InFlight = [r \in RSocks |-> None]  BY <2>2
  <2>4. \A r \in RSocks : lstSend[r] = <<>>  BY <1>1 DEF Init
  <2>5. Sx!Reverse(<<>>) = <<>>
    <3>1. <<>> \in Seq(BObjs) /\ Len(<<>>) = 0  OBVIOUS
    <3>2. Sx!Reverse(<<>>) \in Seq(BObjs) /\ Len(Sx!Reverse(<<>>)) = 0  BY <3>1, Reversed
    <3>3. QED  BY <3>2
  <2>6. QueueOf = [r \in RSocks |-> <<>>]  BY <2>4, <2>5 DEF QueueOf
  <2>7. QED  BY <2>3, <2>6 DEF SQ!QueueInit
<1>2. SessionInv /\ [Next]_vars => [SQ!QueueNext]_<<QueueOf, InFlight>>
  BY NextInv, QueueStep
<1>3. QED
  BY <1>1, <1>2, SessionInvariant, PTL DEF Spec, ImplementsSendQueue, SQ!QueueSpec
=============================================================================
