-------------------------- MODULE NcSessionProofs --------------------------
(***************************************************************************)
(* Theorems about the API sessions, for any number of connections, pool    *)
(* limits, buffer length, requests and commands: buffers and connections   *)
(* stay paired, a conforming request is taken when it is complete whatever *)
(* earlier uses left in the buffer, and a response reaches the peer in     *)
(* order.                                                                  *)
(*                                                                         *)
(* NcInv is the invariant.  For each BUFFER_OBJ it says what its state     *)
(* promises about its fields: the posted operation covers what is still to *)
(* come, and what has been received are the first cells of the request.    *)
(***************************************************************************)
EXTENDS NcSession, FiniteSetTheorems, SequenceTheorems, WellFoundedInduction, TLAPS

Used(b) == at[b] \in InUse
Receiving == {"accept", "zero", "recv", "whole"}

(* A free BUFFER_OBJ is as Init left it, except for its data. *)
FreeOK(b) ==
  at[b] \in {"heap", "pool"} =>
    /\ rel[b] = None /\ peer[b] = <<>> /\ wsaBuf[b] = NoBuf
    /\ dwRecvedCount[b] = 0 /\ dwSendedCount[b] = 0 /\ out[b] = <<>>

(* While a request arrives the buffer begins with the part that is there,
   and a posted receive has the rest of the buffer. *)
RecvOK(b) ==
  at[b] \in Receiving =>
    /\ peer[b] \in Requests
    /\ dwSendedCount[b] = 0 /\ out[b] = <<>>
    /\ dwRecvedCount[b] <= Len(peer[b])
    /\ \A i \in 1..dwRecvedCount[b] : data[b][i] = peer[b][i]
    /\ at[b] = "accept" => dwRecvedCount[b] = 0
                           /\ wsaBuf[b] = [from |-> 1, len |-> DataLen - AddrCells]
    /\ at[b] = "recv" => wsaBuf[b] = [from |-> dwRecvedCount[b] + 1,
                                      len |-> DataLen - dwRecvedCount[b]]

(* The posted send covers what the peer has not got of the response. *)
SendOK(b) ==
  at[b] = "send" =>
    /\ dwRecvedCount[b] = ResponseLen
    /\ dwSendedCount[b] < ResponseLen
    /\ wsaBuf[b] = [from |-> dwSendedCount[b] + 1, len |-> ResponseLen - dwSendedCount[b]]

(* RequestTakenWhole and ResponseInOrder for one BUFFER_OBJ. *)
TakenWhole(b) ==
  Conforming(peer[b]) =>
    /\ at[b] = "whole" => dwRecvedCount[b] = Len(peer[b])
    /\ at[b] \in {"zero", "recv"} => dwRecvedCount[b] < Len(peer[b])

InOrder(b) == out[b] = [i \in 1..dwSendedCount[b] |-> i]

ObjOK(b) ==
  /\ at[b] # "used"
  /\ FreeOK(b) /\ RecvOK(b) /\ SendOK(b)
  /\ TakenWhole(b) /\ InOrder(b)

(* A BUFFER_OBJ in use has a BUFFER_SOCK in use, of its own, and every
   BUFFER_SOCK in use has one. *)
Pairing ==
  /\ \A s \in BSocks : at[s] \in {"heap", "pool", "used"}
  /\ \A b \in BObjs : Used(b) => rel[b] \in BSocks /\ at[rel[b]] = "used"
  /\ \A b, c \in BObjs : Used(b) /\ Used(c) /\ rel[b] = rel[c] => b = c
  /\ \A s \in BSocks : at[s] = "used" => \E b \in BObjs : Used(b) /\ rel[b] = s

NcInv ==
  /\ NcTypeOK
  /\ Pairing
  /\ \A b \in BObjs : ObjOK(b)

-----------------------------------------------------------------------------
(* CheckNCData. *)

(* A set of indexes that is not empty has a least one, and Min is it. *)
LEMMA MinIs ==
  ASSUME NEW S, S \subseteq Nat, S # {}
  PROVE  Min(S) \in S /\ \A y \in S : Min(S) <= y
<1>1. PICK x \in S : \A y \in S : ~(<<y, x>> \in OpToRel(<, Nat))
  BY NatLessThanWellFounded, WFMin
<1>2. \A y \in S : ~(y < x)
  BY <1>1 DEF OpToRel
<1>3. \A y \in S : x <= y
  BY <1>2
<1> QED BY <1>3 DEF Min

(* Find gives the first cell of its kind before the first zero byte, or 0
   if there is none. *)
LEMMA FindIs ==
  ASSUME NEW d \in [1..DataLen -> Cells], NEW kind
  PROVE  /\ Find(d, kind) = 0 <=> \A i \in AsString(d) : d[i].is # kind
         /\ Find(d, kind) # 0 =>
              /\ Find(d, kind) \in AsString(d) /\ d[Find(d, kind)].is = kind
              /\ \A i \in AsString(d) : d[i].is = kind => Find(d, kind) <= i
<1> DEFINE S == { i \in AsString(d) : d[i].is = kind }
<1>1. Find(d, kind) = IF S = {} THEN 0 ELSE Min(S)  BY DEF Find
<1>2. S \subseteq Nat /\ 0 \notin S  BY NcAssumption DEF AsString
<1>3. S # {} => Min(S) \in S /\ \A y \in S : Min(S) <= y  BY <1>2, MinIs
<1> QED BY <1>1, <1>2, <1>3

(* What a cell is. *)
LEMMA CellIs ==
  ASSUME NEW c \in Cells
  PROVE  /\ c.n \in Nat
         /\ c.is = "end" <=> c = EndLine
         /\ c.is = "nul" <=> c = Nul
  BY NcAssumption DEF Cells, Text, EndLine, Nul, LenLine

(* The search decides by the request alone: what is in the buffer after the
   cells that have arrived can only make CheckNCData wait, and it waits
   anyway until the empty line has arrived. *)
LEMMA CheckNCDataIs ==
  ASSUME NEW d \in [1..DataLen -> Cells], NEW q \in Seq(Cells \ {Nul}),
         NEW count \in 0..DataLen, count <= Len(q),
         \A i \in 1..count : d[i] = q[i],
         Conforming(q)
  PROVE  /\ CheckNCData(d, count) = "whole" => count = Len(q)
         /\ CheckNCData(d, count) # "whole" => count < Len(q)
<1>1. PICK e \in DOMAIN q, l \in DOMAIN q :
        /\ l < e /\ q[e] = EndLine /\ q[l].is = "len" /\ Len(q) = e + q[l].n
        /\ \A i \in 1..(e - 1) : q[i] # EndLine /\ (i # l => q[i].is # "len")
  BY DEF Conforming
<1>2. DataLen \in Nat /\ count \in Nat /\ e \in Nat \ {0} /\ l \in Nat \ {0} /\ Len(q) \in Nat
  BY <1>1, NcAssumption
<1>3. q[l] \in Cells /\ q[l].n \in Nat  BY CellIs, <1>1
<1>4. \A i \in 1..count : i \in DOMAIN q /\ q[i] \in Cells /\ q[i] # Nul  BY <1>2
<1>5. \A i \in 1..count : i \in AsString(d)
  <2> SUFFICES ASSUME NEW i \in 1..count, NEW j \in 1..i PROVE i \in 1..DataLen /\ d[j] # Nul
    BY DEF AsString
  <2>1. j \in 1..count /\ i \in 1..DataLen  BY <1>2
  <2> QED BY <1>4, <2>1
<1> DEFINE f == Find(d, "end")
           g == Find(d, "len")
<1>6. /\ f = 0 <=> \A i \in AsString(d) : d[i].is # "end"
      /\ f # 0 => /\ f \in AsString(d) /\ d[f].is = "end"
                  /\ \A i \in AsString(d) : d[i].is = "end" => f <= i
  BY FindIs
<1>7. /\ g = 0 <=> \A i \in AsString(d) : d[i].is # "len"
      /\ g # 0 => /\ g \in AsString(d) /\ d[g].is = "len"
                  /\ \A i \in AsString(d) : d[i].is = "len" => g <= i
  BY FindIs
<1>8. CheckNCData(d, count) =
        IF f = 0 \/ g = 0 THEN "wait"
        ELSE IF f + d[g].n > count THEN "wait"
        ELSE IF f + d[g].n = count THEN "whole" ELSE "over"
  BY DEF CheckNCData
<1>9. AsString(d) \subseteq 1..DataLen  BY DEF AsString
<1> HIDE DEF f, g
<1>10. CASE e <= count
  \* The empty line has arrived, and with it the Content-Length.
  <2>1. e \in 1..count /\ l \in 1..count /\ l \in 1..(e - 1)  BY <1>1, <1>2, <1>10
  <2>2. e \in AsString(d) /\ d[e] = EndLine /\ l \in AsString(d) /\ d[l] = q[l] /\ d[l].is = "len"
    BY <1>1, <1>5, <2>1
  <2>3. EndLine.is = "end"  BY DEF EndLine
  <2>4. f # 0 /\ f <= e /\ f \in AsString(d) /\ d[f].is = "end"  BY <1>6, <2>2, <2>3
  <2>5. g # 0 /\ g <= l /\ g \in AsString(d) /\ d[g].is = "len"  BY <1>7, <2>2
  <2>6. f \in 1..DataLen /\ g \in 1..DataLen  BY <1>9, <2>4, <2>5
  <2>7. f = e
    <3> SUFFICES ASSUME f # e PROVE FALSE  OBVIOUS
    <3>1. f \in 1..(e - 1) /\ f \in 1..count  BY <1>2, <2>4, <2>6, <2>1
    <3>2. q[f] = EndLine  BY <1>4, <2>4, <3>1, CellIs
    <3> QED BY <1>1, <3>1, <3>2
  <2>8. g = l
    <3> SUFFICES ASSUME g # l PROVE FALSE  OBVIOUS
    <3>1. g \in 1..(e - 1) /\ g \in 1..count  BY <1>2, <2>1, <2>5, <2>6
    <3>2. q[g].is = "len"  BY <2>5, <3>1
    <3> QED BY <1>1, <3>1, <3>2
  <2>9. f + d[g].n = Len(q)  BY <1>1, <2>2, <2>7, <2>8
  <2>10. CheckNCData(d, count) = IF Len(q) > count THEN "wait"
                                 ELSE IF Len(q) = count THEN "whole" ELSE "over"
    BY <1>8, <2>4, <2>5, <2>9
  <2> QED BY <1>2, <2>10
<1>11. CASE count < e
  \* It has not, and an empty line further on belongs to an earlier use.
  <2>1. count < Len(q)  BY <1>1, <1>2, <1>3, <1>11
  <2>2. ASSUME f # 0, g # 0 PROVE f + d[g].n > count
    <3>1. f \in 1..DataLen /\ g \in 1..DataLen  BY <1>6, <1>7, <1>9, <2>2
    <3>2. d[g].n \in Nat  BY CellIs, <3>1
    <3>3. f > count
      <4> SUFFICES ASSUME f <= count PROVE FALSE  BY <1>2, <3>1
      <4>1. f \in 1..count /\ f \in 1..(e - 1)  BY <1>2, <1>11, <3>1
      <4>2. q[f] = EndLine  BY <1>4, <1>6, <2>2, <4>1, CellIs
      <4> QED BY <1>1, <4>1, <4>2
    <3> QED BY <1>2, <3>1, <3>2, <3>3
  <2>3. CheckNCData(d, count) = "wait"  BY <1>8, <2>2
  <2> QED BY <2>1, <2>3
<1> QED BY <1>2, <1>10, <1>11

-----------------------------------------------------------------------------
(* Facts about the pools. *)

(* What an allocation returns was free. *)
LEMMA AvailableIsFree ==
  ASSUME NcTypeOK, NEW S, S \subseteq BSocks \cup BObjs, NEW x \in Available(S)
  PROVE  x \in S /\ at[x] \in {"heap", "pool"}
  BY DEF Available, InPool

(* A free puts an object into its pool or gives it to the heap. *)
LEMMA FreeGoes == freeBSock \in {"heap", "pool"} /\ freeBObj \in {"heap", "pool"}
  BY DEF freeBSock, freeBObj

(* An empty response is in order. *)
LEMMA EmptyInOrder == <<>> = [i \in 1..0 |-> i]
  OBVIOUS

(* What is said of a BUFFER_OBJ is said of its own fields. *)
Same(b) ==
  /\ at'[b] = at[b] /\ rel'[b] = rel[b] /\ data'[b] = data[b]
  /\ dwRecvedCount'[b] = dwRecvedCount[b] /\ dwSendedCount'[b] = dwSendedCount[b]
  /\ wsaBuf'[b] = wsaBuf[b] /\ peer'[b] = peer[b] /\ out'[b] = out[b]

(* A step of the connection of b, or an allocation for it. *)
OnlyBuf(b) == \A c \in BObjs \ {b} : Same(c)

(* A BUFFER_OBJ that a step leaves alone keeps what is said of it. *)
LEMMA SameObj ==
  ASSUME NEW b \in BObjs, ObjOK(b), Same(b)
  PROVE  ObjOK(b)'
<1>1. at'[b] # "used"  BY DEF ObjOK, Same
<1>2. FreeOK(b)'  BY DEF ObjOK, Same, FreeOK
<1>3. RecvOK(b)'  BY DEF ObjOK, Same, RecvOK
<1>4. SendOK(b)'  BY DEF ObjOK, Same, SendOK
<1>5. TakenWhole(b)'  BY DEF ObjOK, Same, TakenWhole
<1>6. InOrder(b)'  BY DEF ObjOK, Same, InOrder
<1> QED BY <1>1, <1>2, <1>3, <1>4, <1>5, <1>6 DEF ObjOK

(* So a step on one BUFFER_OBJ is shown correct by what it makes of that one. *)
LEMMA BufStep ==
  ASSUME NcInv, NEW b \in BObjs, OnlyBuf(b), NcTypeOK', Pairing', ObjOK(b)'
  PROVE  NcInv'
<1>1. ASSUME NEW c \in BObjs, c # b PROVE ObjOK(c)'
  BY <1>1, SameObj DEF NcInv, OnlyBuf
<1> QED BY <1>1 DEF NcInv

(* A handler that keeps its connection keeps the pairing. *)
LEMMA PairingKept ==
  ASSUME NcInv, NEW b \in BObjs, Used(b),
         NEW a \in InUse, at' = [at EXCEPT ![b] = a], rel' = rel
  PROVE  Pairing'
<1>1. NcTypeOK /\ Pairing  BY DEF NcInv
<1>2. BSocks \cap BObjs = {}  BY NcAssumption
<1>3. \A s \in BSocks : at'[s] = at[s]  BY <1>1, <1>2 DEF NcTypeOK
<1>4. \A c \in BObjs : Used(c)' <=> Used(c)
  BY <1>1 DEF NcTypeOK, Used
<1> QED BY <1>1, <1>3, <1>4 DEF Pairing

(* CMCloseSocket leaves every handle open, stolen or invalid. *)
LEMMA ClosesTyped ==
  ASSUME NcTypeOK, NEW s \in BSocks, CMCloseSocket(s)
  PROVE  sock' \in [BSocks -> Handles]
  BY DEF CMCloseSocket, NcTypeOK, Handles

-----------------------------------------------------------------------------
(* main's sweep finds a connection and closes it: no BUFFER_OBJ changes. *)
LEMMA SweepInv ==
  ASSUME NcInv, SweepCloses \/ \E b \in BObjs : SweepFinds(b)
  PROVE  NcInv'
<1>1. NcTypeOK /\ Pairing  BY DEF NcInv
<1>2. UNCHANGED <<at, rel, data, dwRecvedCount, dwSendedCount, wsaBuf, peer, out>>
  BY DEF SweepCloses, SweepFinds
<1>3. sock' \in [BSocks -> Handles] /\ sweep' \in BSocks \cup {None}
  <2>1. CASE SweepCloses
    <3>1. sweep \in BSocks /\ CMCloseSocket(sweep) /\ sweep' = None
      BY <1>1, <2>1 DEF SweepCloses, NcTypeOK
    <3> QED BY <1>1, <3>1, ClosesTyped
  <2>2. ASSUME NEW b \in BObjs, SweepFinds(b) PROVE sock' = sock /\ sweep' \in BSocks
    <3>1. Used(b)  BY <2>2 DEF SweepFinds, Used, InUse
    <3> QED BY <1>1, <2>2, <3>1 DEF SweepFinds, Pairing
  <2> QED BY <1>1, <2>1, <2>2 DEF NcTypeOK
<1>4. NcTypeOK'  BY <1>1, <1>2, <1>3 DEF NcTypeOK
<1>5. Pairing'  BY <1>1, <1>2 DEF Pairing, Used
<1>6. ASSUME NEW b \in BObjs PROVE ObjOK(b)'
  BY <1>2, SameObj DEF NcInv, Same
<1> QED BY <1>4, <1>5, <1>6 DEF NcInv

(* A connection ends: its BUFFER_SOCK and its BUFFER_OBJ are free. *)
LEMMA EndsInv ==
  ASSUME NcInv, NEW b \in BObjs, Used(b), Ends(b)
  PROVE  NcInv'
<1>1. NcTypeOK /\ Pairing /\ ObjOK(b)  BY DEF NcInv
<1>2. BSocks \cap BObjs = {} /\ DataLen \in Nat  BY NcAssumption
<1>3. PICK s \in BSocks : s = rel[b]  BY <1>1 DEF Pairing
<1>4. PICK fs \in {"heap", "pool"} : fs = freeBSock  BY FreeGoes
<1>5. PICK fb \in {"heap", "pool"} : fb = freeBObj  BY FreeGoes
<1>6. /\ at' = [at EXCEPT ![s] = fs, ![b] = fb]
      /\ CMCloseSocket(s)
      /\ rel' = [rel EXCEPT ![b] = None]
      /\ data' = [data EXCEPT ![b] = IF fb = "heap" THEN NoData ELSE @]
      /\ dwRecvedCount' = [dwRecvedCount EXCEPT ![b] = 0]
      /\ dwSendedCount' = [dwSendedCount EXCEPT ![b] = 0]
      /\ wsaBuf' = [wsaBuf EXCEPT ![b] = NoBuf]
      /\ peer' = [peer EXCEPT ![b] = <<>>]
      /\ out' = [out EXCEPT ![b] = <<>>]
      /\ sweep' = sweep
  BY <1>3, <1>4, <1>5 DEF Ends
<1>7. s # b /\ (\A c \in BObjs : c # s) /\ (\A t \in BSocks : t # b)  BY <1>2
<1>8. NcTypeOK'
  <2>1. at' \in [BSocks \cup BObjs -> {"heap", "pool", "used"} \cup InUse]
    BY <1>1, <1>6 DEF NcTypeOK
  <2>2. rel' \in [BObjs -> BSocks \cup {None}] /\ sweep' \in BSocks \cup {None}
    BY <1>1, <1>6 DEF NcTypeOK
  <2>10. sock' \in [BSocks -> Handles]  BY <1>1, <1>6, ClosesTyped
  <2>3. NoData \in [1..DataLen -> Cells]  BY DEF NoData, Cells
  <2>4. data' \in [BObjs -> [1..DataLen -> Cells]]  BY <1>1, <1>6, <2>3 DEF NcTypeOK
  <2>5. dwRecvedCount' \in [BObjs -> 0..DataLen] /\ dwSendedCount' \in [BObjs -> 0..DataLen]
    BY <1>1, <1>2, <1>6 DEF NcTypeOK
  <2>6. NoBuf \in [from : 1..(DataLen + 1), len : 0..DataLen]  BY <1>2 DEF NoBuf
  <2>7. wsaBuf' \in [BObjs -> [from : 1..(DataLen + 1), len : 0..DataLen]]
    BY <1>1, <1>6, <2>6 DEF NcTypeOK
  <2>8. peer' \in [BObjs -> Requests \cup {<<>>}]
    BY <1>1, <1>6 DEF NcTypeOK
  <2>9. out' \in [BObjs -> Seq(1..DataLen)]
    <3>1. <<>> \in Seq(1..DataLen)  OBVIOUS
    <3> QED BY <1>1, <1>6, <3>1 DEF NcTypeOK
  <2> QED BY <2>1, <2>2, <2>10, <2>4, <2>5, <2>7, <2>8, <2>9 DEF NcTypeOK
<1>9. OnlyBuf(b)
  BY <1>1, <1>6, <1>7 DEF OnlyBuf, Same, NcTypeOK
<1>10. at'[b] = fb /\ rel'[b] = None /\ at'[s] = fs
  BY <1>1, <1>6, <1>7 DEF NcTypeOK
<1>11. Pairing'
  <2>1. \A t \in BSocks : t # s => at'[t] = at[t]  BY <1>1, <1>6, <1>7 DEF NcTypeOK
  <2>2. ~Used(b)'  BY <1>10 DEF Used, InUse
  <2>3. \A c \in BObjs : c # b => (Used(c)' <=> Used(c)) /\ rel'[c] = rel[c]
    BY <1>9 DEF OnlyBuf, Same, Used
  <2>4. \A c \in BObjs : c # b /\ Used(c) => rel[c] # s
    BY <1>1, <1>3 DEF Pairing
  <2>5. \A t \in BSocks : at'[t] \in {"heap", "pool", "used"}
    BY <1>1, <1>10, <2>1 DEF Pairing
  <2>6. \A c \in BObjs : Used(c)' => rel'[c] \in BSocks /\ at'[rel'[c]] = "used"
    BY <1>1, <2>1, <2>2, <2>3, <2>4 DEF Pairing
  <2>7. \A c, e \in BObjs : Used(c)' /\ Used(e)' /\ rel'[c] = rel'[e] => c = e
    BY <1>1, <2>2, <2>3 DEF Pairing
  <2>8. ASSUME NEW t \in BSocks, at'[t] = "used"
        PROVE  \E c \in BObjs : Used(c)' /\ rel'[c] = t
    <3>1. t # s /\ at[t] = "used"  BY <1>10, <2>1, <2>8
    <3>2. PICK c \in BObjs : Used(c) /\ rel[c] = t  BY <1>1, <3>1 DEF Pairing
    <3> QED BY <1>3, <2>3, <3>1, <3>2
  <2> QED BY <2>5, <2>6, <2>7, <2>8 DEF Pairing
<1>12. ObjOK(b)'
  <2>1. /\ peer'[b] = <<>> /\ wsaBuf'[b] = NoBuf /\ dwRecvedCount'[b] = 0
        /\ dwSendedCount'[b] = 0 /\ out'[b] = <<>>
    BY <1>1, <1>6 DEF NcTypeOK
  <2>2. FreeOK(b)' /\ at'[b] # "used"  BY <1>10, <2>1 DEF FreeOK
  <2>3. RecvOK(b)' /\ SendOK(b)' /\ TakenWhole(b)'
    BY <1>10 DEF RecvOK, SendOK, TakenWhole, Receiving
  <2>4. InOrder(b)'  BY <2>1, EmptyInOrder DEF InOrder
  <2> QED BY <2>2, <2>3, <2>4 DEF ObjOK
<1> QED BY <1>8, <1>9, <1>11, <1>12, BufStep

(* An accept is posted with a free BUFFER_SOCK and a free BUFFER_OBJ. *)
LEMMA PostAcceptExInv ==
  ASSUME NcInv, NEW s \in BSocks, NEW b \in BObjs, NEW request \in Requests,
         Nc_PostAcceptEx(s, b, request)
  PROVE  NcInv'
<1>1. NcTypeOK /\ Pairing /\ ObjOK(b)  BY DEF NcInv
<1>2. /\ BSocks \cap BObjs = {} /\ DataLen \in Nat /\ AddrCells \in Nat /\ AddrCells < DataLen
      /\ request \in Seq(Cells \ {Nul})
  BY NcAssumption
<1>3. at[s] \in {"heap", "pool"} /\ at[b] \in {"heap", "pool"}
  BY <1>1, AvailableIsFree DEF Nc_PostAcceptEx
<1>4. /\ at' = [at EXCEPT ![s] = "used", ![b] = "accept"]
      /\ rel' = [rel EXCEPT ![b] = s]
      /\ sock' = [sock EXCEPT ![s] = "open"]
      /\ wsaBuf' = [wsaBuf EXCEPT ![b] = [from |-> 1, len |-> DataLen - AddrCells]]
      /\ peer' = [peer EXCEPT ![b] = request]
      /\ UNCHANGED <<data, dwRecvedCount, dwSendedCount, out, sweep>>
  BY DEF Nc_PostAcceptEx
<1>5. s # b /\ (\A c \in BObjs : c # s) /\ (\A t \in BSocks : t # b)  BY <1>2
<1>6. NcTypeOK'
  <2>1. at' \in [BSocks \cup BObjs -> {"heap", "pool", "used"} \cup InUse]
    BY <1>1, <1>4 DEF NcTypeOK, InUse
  <2>2. rel' \in [BObjs -> BSocks \cup {None}] /\ sock' \in [BSocks -> Handles]
    BY <1>1, <1>4 DEF NcTypeOK, Handles
  <2>3. [from |-> 1, len |-> DataLen - AddrCells] \in [from : 1..(DataLen + 1), len : 0..DataLen]
    BY <1>2
  <2>4. wsaBuf' \in [BObjs -> [from : 1..(DataLen + 1), len : 0..DataLen]]
    BY <1>1, <1>4, <2>3 DEF NcTypeOK
  <2>5. peer' \in [BObjs -> Requests \cup {<<>>}]
    BY <1>1, <1>4 DEF NcTypeOK
  <2> QED BY <1>1, <1>4, <2>1, <2>2, <2>4, <2>5 DEF NcTypeOK
<1>7. OnlyBuf(b)
  BY <1>1, <1>4, <1>5 DEF OnlyBuf, Same, NcTypeOK
<1>8. at'[b] = "accept" /\ rel'[b] = s /\ at'[s] = "used"
  BY <1>1, <1>4, <1>5 DEF NcTypeOK
<1>9. Pairing'
  <2>1. \A t \in BSocks : t # s => at'[t] = at[t]  BY <1>1, <1>4, <1>5 DEF NcTypeOK
  <2>2. Used(b)'  BY <1>8 DEF Used, InUse
  <2>3. \A c \in BObjs : c # b => (Used(c)' <=> Used(c)) /\ rel'[c] = rel[c]
    BY <1>7 DEF OnlyBuf, Same, Used
  <2>4. \A c \in BObjs : Used(c) => rel[c] # s  BY <1>1, <1>3 DEF Pairing
  <2>5. \A t \in BSocks : at'[t] \in {"heap", "pool", "used"}
    BY <1>1, <1>8, <2>1 DEF Pairing
  <2>6. \A c \in BObjs : Used(c)' => rel'[c] \in BSocks /\ at'[rel'[c]] = "used"
    BY <1>1, <1>8, <2>1, <2>3, <2>4 DEF Pairing
  <2>7. \A c, e \in BObjs : Used(c)' /\ Used(e)' /\ rel'[c] = rel'[e] => c = e
    BY <1>1, <1>8, <2>3, <2>4 DEF Pairing
  <2>8. ~Used(b)  BY <1>3 DEF Used, InUse
  <2>9. ASSUME NEW t \in BSocks, at'[t] = "used"
        PROVE  \E c \in BObjs : Used(c)' /\ rel'[c] = t
    <3>1. CASE t = s  BY <1>8, <2>2, <3>1
    <3>2. CASE t # s
      <4>1. PICK c \in BObjs : Used(c) /\ rel[c] = t  BY <1>1, <2>1, <2>9, <3>2 DEF Pairing
      <4> QED BY <2>3, <2>8, <4>1
    <3> QED BY <3>1, <3>2
  <2> QED BY <2>5, <2>6, <2>7, <2>9 DEF Pairing
<1>10. ObjOK(b)'
  <2>1. /\ dwRecvedCount'[b] = 0 /\ dwSendedCount'[b] = 0 /\ out'[b] = <<>>
    BY <1>1, <1>3, <1>4 DEF ObjOK, FreeOK
  <2>2. peer'[b] = request /\ wsaBuf'[b] = [from |-> 1, len |-> DataLen - AddrCells]
    BY <1>1, <1>4 DEF NcTypeOK
  <2>3. FreeOK(b)' /\ SendOK(b)' /\ TakenWhole(b)' /\ at'[b] # "used"
    BY <1>8 DEF FreeOK, SendOK, TakenWhole
  <2>4. RecvOK(b)'
    <3>1. 0 <= Len(request) /\ 1..0 = {}  BY <1>2
    <3> QED BY <1>8, <2>1, <2>2, <3>1 DEF RecvOK
  <2>5. InOrder(b)'  BY <2>1, EmptyInOrder DEF InOrder
  <2> QED BY <2>3, <2>4, <2>5 DEF ObjOK
<1> QED BY <1>6, <1>7, <1>9, <1>10, BufStep

(* Objects that only pass through their pools. *)
LEMMA FreeStaysFree ==
  ASSUME NcInv, NcTypeOK',
         \A s \in BSocks : at'[s] = at[s] \/ ({at[s], at'[s]} \subseteq {"heap", "pool"}),
         \A b \in BObjs : \/ Same(b)
                          \/ /\ {at[b], at'[b]} \subseteq {"heap", "pool"}
                             /\ rel'[b] = rel[b]
                             /\ dwRecvedCount'[b] = dwRecvedCount[b]
                             /\ dwSendedCount'[b] = dwSendedCount[b]
                             /\ wsaBuf'[b] = wsaBuf[b] /\ peer'[b] = peer[b] /\ out'[b] = out[b]
  PROVE  NcInv'
<1>1. Pairing  BY DEF NcInv
<1>2. \A b \in BObjs : (Used(b)' <=> Used(b)) /\ rel'[b] = rel[b]
  BY DEF Used, InUse, Same
<1>3. \A s \in BSocks : at'[s] = "used" <=> at[s] = "used"
  OBVIOUS
<1>4. Pairing'
  <2>1. \A s \in BSocks : at'[s] \in {"heap", "pool", "used"}  BY <1>1 DEF Pairing
  <2> QED BY <1>1, <1>2, <1>3, <2>1 DEF Pairing
<1>5. ASSUME NEW b \in BObjs PROVE ObjOK(b)'
  <2>1. ObjOK(b)  BY DEF NcInv
  <2>2. CASE Same(b)  BY <2>1, <2>2, SameObj
  <2>3. CASE ~Same(b)
    <3>1. at[b] \in {"heap", "pool"} /\ at'[b] \in {"heap", "pool"}  BY <2>3
    <3>2. FreeOK(b)'  BY <2>1, <2>3, <3>1 DEF ObjOK, FreeOK
    <3>3. RecvOK(b)' /\ SendOK(b)' /\ TakenWhole(b)' /\ at'[b] # "used"
      BY <3>1 DEF RecvOK, SendOK, TakenWhole, Receiving
    <3>4. InOrder(b)'  BY <2>1, <2>3 DEF ObjOK, InOrder
    <3> QED BY <3>2, <3>3, <3>4 DEF ObjOK
  <2> QED BY <2>2, <2>3
<1> QED BY <1>4, <1>5 DEF NcInv

(* A failing fpAcceptex moves two free objects into their pools. *)
LEMMA PostAcceptExFailsInv ==
  ASSUME NcInv, NEW s \in BSocks, NEW b \in BObjs, PostAcceptExFails(s, b)
  PROVE  NcInv'
<1>1. NcTypeOK  BY DEF NcInv
<1>2. at[s] \in {"heap", "pool"} /\ at[b] \in {"heap", "pool"}
  BY <1>1, AvailableIsFree DEF PostAcceptExFails
<1>3. /\ at' = [at EXCEPT ![s] = "pool", ![b] = "pool"]
      /\ UNCHANGED <<rel, sock, data, dwRecvedCount, dwSendedCount, wsaBuf, peer, out, sweep>>
  BY DEF PostAcceptExFails
<1>4. NcTypeOK'  BY <1>1, <1>3 DEF NcTypeOK
<1>5. \A x \in BSocks \cup BObjs : at'[x] = at[x] \/ ({at[x], at'[x]} \subseteq {"heap", "pool"})
  BY <1>1, <1>2, <1>3 DEF NcTypeOK
<1>6. \A c \in BObjs : \/ Same(c)
                       \/ /\ {at[c], at'[c]} \subseteq {"heap", "pool"}
                          /\ rel'[c] = rel[c]
                          /\ dwRecvedCount'[c] = dwRecvedCount[c]
                          /\ dwSendedCount'[c] = dwSendedCount[c]
                          /\ wsaBuf'[c] = wsaBuf[c] /\ peer'[c] = peer[c] /\ out'[c] = out[c]
  BY <1>3, <1>5 DEF Same
<1> QED BY <1>4, <1>5, <1>6, FreeStaysFree

(* A command of a client session leaves its bytes in a BUFFER_OBJ that is free
   again, and nothing is said of the bytes of a free one. *)
LEMMA CommandUsesInv ==
  ASSUME NcInv, NEW b \in BObjs, NEW c \in Commands, CommandUses(b, c)
  PROVE  NcInv'
<1>1. NcTypeOK  BY DEF NcInv
<1>2. at[b] \in {"heap", "pool"}
  BY <1>1, AvailableIsFree DEF CommandUses
<1> DEFINE d == [i \in 1..DataLen |-> IF i <= Len(c) THEN c[i] ELSE data[b][i]]
<1>3. /\ at' = [at EXCEPT ![b] = "pool"]
      /\ data' = [data EXCEPT ![b] = d]
      /\ UNCHANGED <<rel, sock, dwRecvedCount, dwSendedCount, wsaBuf, peer, out, sweep>>
  BY DEF CommandUses
<1>4. d \in [1..DataLen -> Cells]
  <2>1. c \in Seq(Cells) /\ DataLen \in Nat  BY NcAssumption
  <2>2. \A i \in 1..DataLen : i <= Len(c) => c[i] \in Cells  BY <2>1
  <2>3. \A i \in 1..DataLen : data[b][i] \in Cells  BY <1>1 DEF NcTypeOK
  <2> QED BY <2>2, <2>3
<1> HIDE DEF d
<1>5. NcTypeOK'  BY <1>1, <1>3, <1>4 DEF NcTypeOK
<1>6. \A x \in BSocks \cup BObjs : at'[x] = at[x] \/ ({at[x], at'[x]} \subseteq {"heap", "pool"})
  BY <1>1, <1>2, <1>3 DEF NcTypeOK
<1>7. \A e \in BObjs : \/ Same(e)
                       \/ /\ {at[e], at'[e]} \subseteq {"heap", "pool"}
                          /\ rel'[e] = rel[e]
                          /\ dwRecvedCount'[e] = dwRecvedCount[e]
                          /\ dwSendedCount'[e] = dwSendedCount[e]
                          /\ wsaBuf'[e] = wsaBuf[e] /\ peer'[e] = peer[e] /\ out'[e] = out[e]
  <2> SUFFICES ASSUME NEW e \in BObjs, e # b PROVE Same(e)
    BY <1>1, <1>2, <1>3 DEF NcTypeOK
  <2> QED BY <1>1, <1>3 DEF Same, NcTypeOK
<1> QED BY <1>5, <1>6, <1>7, FreeStaysFree

-----------------------------------------------------------------------------
(* The cells that arrive follow the ones that are there. *)
LEMMA ReceivedIs ==
  ASSUME NcInv, NEW b \in BObjs, at[b] \in {"accept", "recv"},
         NEW n \in 1..wsaBuf[b].len, dwRecvedCount[b] + n <= Len(peer[b])
  PROVE  /\ Received(b, n) \in [1..DataLen -> Cells]
         /\ dwRecvedCount[b] + n \in 0..DataLen
         /\ \A i \in 1..(dwRecvedCount[b] + n) : Received(b, n)[i] = peer[b][i]
<1>1. NcTypeOK /\ ObjOK(b)  BY DEF NcInv
<1>2. DataLen \in Nat /\ AddrCells \in Nat /\ AddrCells < DataLen  BY NcAssumption
<1>3. PICK k \in 0..DataLen : k = dwRecvedCount[b]  BY <1>1 DEF NcTypeOK
<1>r. RecvOK(b)  BY <1>1 DEF ObjOK
<1>4. /\ wsaBuf[b].from = k + 1 /\ wsaBuf[b].len <= DataLen - k
      /\ wsaBuf[b].len \in 0..DataLen
  <2>1. CASE at[b] = "accept"
    BY <1>r, <1>2, <1>3, <2>1 DEF RecvOK, Receiving
  <2>2. CASE at[b] = "recv"
    BY <1>r, <1>2, <1>3, <2>2 DEF RecvOK, Receiving
  <2> QED BY <2>1, <2>2
<1>5. n \in Nat /\ k + n \in 0..DataLen  BY <1>2, <1>3, <1>4
<1>6. peer[b] \in Requests /\ peer[b] \in Seq(Cells)
  <2>1. peer[b] \in Requests  BY <1>1 DEF ObjOK, RecvOK, Receiving
  <2>2. peer[b] \in Seq(Cells \ {Nul})  BY <2>1, NcAssumption
  <2> QED BY <2>1, <2>2
<1>7. \A i \in 1..(k + n) : peer[b][i] \in Cells
  BY <1>3, <1>5, <1>6
<1>8. ASSUME NEW i \in 1..DataLen
      PROVE  Received(b, n)[i] = IF k + 1 <= i /\ i < k + 1 + n THEN peer[b][i]
                                 ELSE IF at[b] = "accept" /\ i > DataLen - AddrCells THEN Nul
                                 ELSE data[b][i]
  <2>1. k + 1 + i - (k + 1) = i  BY <1>3
  <2> QED BY <1>3, <1>4, <2>1 DEF Received
<1>9. Received(b, n) \in [1..DataLen -> Cells]
  <2>1. \A i \in 1..DataLen : Received(b, n)[i] \in Cells
    <3> SUFFICES ASSUME NEW i \in 1..DataLen PROVE Received(b, n)[i] \in Cells  OBVIOUS
    <3>1. k + 1 <= i /\ i < k + 1 + n => i \in 1..(k + n)  BY <1>3, <1>5
    <3>2. data[b][i] \in Cells
      <4>1. data[b] \in [1..DataLen -> Cells]  BY <1>1 DEF NcTypeOK
      <4> QED BY <4>1
    <3>3. Nul \in Cells  BY DEF Cells
    <3> QED BY <1>7, <1>8, <3>1, <3>2, <3>3
  <2> QED BY <2>1 DEF Received
<1>10. ASSUME NEW i \in 1..(k + n) PROVE Received(b, n)[i] = peer[b][i]
  <2>1. i \in 1..DataLen  BY <1>2, <1>3, <1>5
  <2>2. CASE k + 1 <= i
    <3>1. i < k + 1 + n  BY <1>3, <1>5
    <3> QED BY <1>8, <2>1, <2>2, <3>1
  <2>3. CASE i <= k
    <3>1. i \in 1..k /\ k # 0 /\ ~(k + 1 <= i)  BY <1>3, <2>3
    <3>2. data[b][i] = peer[b][i]  BY <1>1, <1>3, <3>1 DEF ObjOK, RecvOK, Receiving
    <3>3. at[b] # "accept"  BY <1>1, <1>3, <3>1 DEF ObjOK, RecvOK, Receiving
    <3> QED BY <1>8, <2>1, <3>1, <3>2, <3>3
  <2> QED BY <1>3, <2>2, <2>3
<1> QED BY <1>3, <1>5, <1>9, <1>10

(* A receive, or the accept, brings cells of the request. *)
LEMMA DataArrivesInv ==
  ASSUME NcInv, NEW b \in BObjs, at[b] \in {"accept", "recv"}, NEW n, DataArrives(b, n)
  PROVE  NcInv'
<1>1. NcTypeOK /\ Pairing /\ ObjOK(b)  BY DEF NcInv
<1>2. n \in 1..wsaBuf[b].len /\ dwRecvedCount[b] + n <= Len(peer[b])  BY DEF DataArrives
<1>3. DataLen \in Nat  BY NcAssumption
<1>4. PICK d \in [1..DataLen -> Cells] : d = Received(b, n)  BY <1>2, ReceivedIs
<1>5. PICK m \in 0..DataLen : m = dwRecvedCount[b] + n  BY <1>2, ReceivedIs
<1>6. \A i \in 1..m : d[i] = peer[b][i]  BY <1>2, <1>4, <1>5, ReceivedIs
<1>7. PICK a \in {"whole", "zero"} : a = IF CheckNCData(d, m) = "whole" THEN "whole" ELSE "zero"
  OBVIOUS
<1>8. /\ data' = [data EXCEPT ![b] = d]
      /\ dwRecvedCount' = [dwRecvedCount EXCEPT ![b] = m]
      /\ at' = [at EXCEPT ![b] = a]
      /\ wsaBuf' = [wsaBuf EXCEPT ![b] = NoBuf]
      /\ UNCHANGED <<rel, dwSendedCount, peer, out, sweep>>
  BY <1>4, <1>5, <1>7 DEF DataArrives
<1>9. sock' \in [BSocks -> Handles]
  <2>1. sock' = sock \/ \E s \in BSocks : sock' = [sock EXCEPT ![s] = "stolen"]
    BY DEF DataArrives, CloseByCount
  <2> QED BY <1>1, <2>1 DEF NcTypeOK, Handles
<1>10. NcTypeOK'
  <2>1. at' \in [BSocks \cup BObjs -> {"heap", "pool", "used"} \cup InUse]
    BY <1>1, <1>8 DEF NcTypeOK, InUse
  <2>2. data' \in [BObjs -> [1..DataLen -> Cells]]  BY <1>1, <1>8 DEF NcTypeOK
  <2>3. dwRecvedCount' \in [BObjs -> 0..DataLen]  BY <1>1, <1>8 DEF NcTypeOK
  <2>4. NoBuf \in [from : 1..(DataLen + 1), len : 0..DataLen]  BY <1>3 DEF NoBuf
  <2>5. wsaBuf' \in [BObjs -> [from : 1..(DataLen + 1), len : 0..DataLen]]
    BY <1>1, <1>8, <2>4 DEF NcTypeOK
  <2> QED BY <1>1, <1>8, <1>9, <2>1, <2>2, <2>3, <2>5 DEF NcTypeOK
<1>11. OnlyBuf(b)  BY <1>1, <1>8 DEF OnlyBuf, Same, NcTypeOK
<1>12. Used(b) /\ a \in InUse  BY DEF Used, InUse
<1>13. Pairing'  BY <1>8, <1>12, PairingKept
<1>14. ObjOK(b)'
  <2>1. /\ at'[b] = a /\ data'[b] = d /\ dwRecvedCount'[b] = m /\ wsaBuf'[b] = NoBuf
        /\ peer'[b] = peer[b] /\ dwSendedCount'[b] = dwSendedCount[b] /\ out'[b] = out[b]
    BY <1>1, <1>8 DEF NcTypeOK
  <2>2. /\ peer[b] \in Requests /\ dwSendedCount[b] = 0 /\ out[b] = <<>>
    BY <1>1 DEF ObjOK, RecvOK, Receiving
  <2>3. at'[b] # "used" /\ FreeOK(b)' /\ SendOK(b)'
    BY <2>1 DEF FreeOK, SendOK
  <2>4. RecvOK(b)'
    BY <1>2, <1>5, <1>6, <2>1, <2>2 DEF RecvOK
  <2>5. TakenWhole(b)'
    <3> SUFFICES ASSUME Conforming(peer[b])
                 PROVE  /\ a = "whole" => m = Len(peer[b])
                        /\ a = "zero" => m < Len(peer[b])
      BY <2>1 DEF TakenWhole
    <3>1. peer[b] \in Seq(Cells \ {Nul})  BY <2>2, NcAssumption
    <3>2. m <= Len(peer[b])  BY <1>2, <1>5
    <3>3. /\ CheckNCData(d, m) = "whole" => m = Len(peer[b])
          /\ CheckNCData(d, m) # "whole" => m < Len(peer[b])
      BY <1>6, <3>1, <3>2, CheckNCDataIs
    <3> QED BY <1>7, <3>3
  <2>6. InOrder(b)'  BY <2>1, <2>2, EmptyInOrder DEF InOrder
  <2> QED BY <2>3, <2>4, <2>5, <2>6 DEF ObjOK
<1> QED BY <1>10, <1>11, <1>13, <1>14, BufStep

(* The receive that follows a zero-byte receive. *)
LEMMA RecvZeroInv ==
  ASSUME NcInv, NEW b \in BObjs, NC_RecvZeroCompSuccess(b)
  PROVE  NcInv'
<1>1. NcTypeOK /\ Pairing /\ ObjOK(b)  BY DEF NcInv
<1>2. DataLen \in Nat  BY NcAssumption
<1>3. PICK k \in 0..DataLen : k = dwRecvedCount[b]  BY <1>1 DEF NcTypeOK
<1>4. PICK w \in [from : 1..(DataLen + 1), len : 0..DataLen] :
        w = [from |-> k + 1, len |-> DataLen - k]
  <2>1. k + 1 \in 1..(DataLen + 1) /\ DataLen - k \in 0..DataLen  BY <1>2, <1>3
  <2>2. [from |-> k + 1, len |-> DataLen - k] \in [from : 1..(DataLen + 1), len : 0..DataLen]
    BY <2>1
  <2> QED BY <2>2
<1>5. /\ at[b] = "zero"
      /\ at' = [at EXCEPT ![b] = "recv"]
      /\ wsaBuf' = [wsaBuf EXCEPT ![b] = w]
      /\ UNCHANGED <<rel, sock, data, dwRecvedCount, dwSendedCount, peer, out, sweep>>
  BY <1>3, <1>4 DEF NC_RecvZeroCompSuccess
<1>6. NcTypeOK'
  <2>1. at' \in [BSocks \cup BObjs -> {"heap", "pool", "used"} \cup InUse]
    BY <1>1, <1>5 DEF NcTypeOK, InUse
  <2>2. wsaBuf' \in [BObjs -> [from : 1..(DataLen + 1), len : 0..DataLen]]
    BY <1>1, <1>5 DEF NcTypeOK
  <2> QED BY <1>1, <1>5, <2>1, <2>2 DEF NcTypeOK
<1>7. OnlyBuf(b)  BY <1>1, <1>5 DEF OnlyBuf, Same, NcTypeOK
<1>8. Used(b) /\ "recv" \in InUse  BY <1>5 DEF Used, InUse
<1>9. Pairing'  BY <1>5, <1>8, PairingKept
<1>10. ObjOK(b)'
  <2>1. at'[b] = "recv" /\ wsaBuf'[b] = w  BY <1>1, <1>5 DEF NcTypeOK
  <2>2. at'[b] # "used" /\ FreeOK(b)' /\ SendOK(b)'  BY <2>1 DEF FreeOK, SendOK
  <2>3. RecvOK(b)'
    BY <1>1, <1>3, <1>4, <1>5, <2>1 DEF ObjOK, RecvOK, Receiving
  <2>4. TakenWhole(b)'  BY <1>1, <1>5, <2>1 DEF ObjOK, TakenWhole
  <2>5. InOrder(b)'  BY <1>1, <1>5 DEF ObjOK, InOrder
  <2> QED BY <2>2, <2>3, <2>4, <2>5 DEF ObjOK
<1> QED BY <1>6, <1>7, <1>9, <1>10, BufStep

-----------------------------------------------------------------------------
(* The response: doNcResponse posts all of it. *)
LEMMA doNcResponseInv ==
  ASSUME NcInv, NEW b \in BObjs, doNcResponse(b)
  PROVE  NcInv'
<1>1. NcTypeOK /\ Pairing /\ ObjOK(b)  BY DEF NcInv
<1>2. DataLen \in Nat /\ ResponseLen \in 1..DataLen  BY NcAssumption
<1>3. at[b] = "whole"  BY DEF doNcResponse
<1>4. dwSendedCount[b] = 0 /\ out[b] = <<>>  BY <1>1, <1>3 DEF ObjOK, RecvOK, Receiving
<1> DEFINE d == [i \in 1..DataLen |-> IF i <= ResponseLen THEN Text ELSE data[b][i]]
           w == [from |-> 0 + 1, len |-> ResponseLen - 0]
<1>5. /\ at' = [at EXCEPT ![b] = "send"]
      /\ data' = [data EXCEPT ![b] = d]
      /\ dwRecvedCount' = [dwRecvedCount EXCEPT ![b] = ResponseLen]
      /\ wsaBuf' = [wsaBuf EXCEPT ![b] = w]
      /\ UNCHANGED <<rel, sock, dwSendedCount, peer, out, sweep>>
  BY DEF doNcResponse, Nc_PostSend
<1>6. d \in [1..DataLen -> Cells]
  <2>1. Text \in Cells  BY DEF Cells
  <2>2. \A i \in 1..DataLen : data[b][i] \in Cells  BY <1>1 DEF NcTypeOK
  <2> QED BY <2>1, <2>2
<1>7. w \in [from : 1..(DataLen + 1), len : 0..DataLen]
  <2>1. 0 + 1 \in 1..(DataLen + 1) /\ ResponseLen - 0 \in 0..DataLen  BY <1>2
  <2> QED BY <2>1
<1>8. NcTypeOK'
  <2> HIDE DEF d, w
  <2>1. at' \in [BSocks \cup BObjs -> {"heap", "pool", "used"} \cup InUse]
    BY <1>1, <1>5 DEF NcTypeOK, InUse
  <2>2. data' \in [BObjs -> [1..DataLen -> Cells]]  BY <1>1, <1>5, <1>6 DEF NcTypeOK
  <2>3. dwRecvedCount' \in [BObjs -> 0..DataLen]
    <3>1. ResponseLen \in 0..DataLen  BY <1>2
    <3> QED BY <1>1, <1>5, <3>1 DEF NcTypeOK
  <2>4. wsaBuf' \in [BObjs -> [from : 1..(DataLen + 1), len : 0..DataLen]]
    BY <1>1, <1>5, <1>7 DEF NcTypeOK
  <2> QED BY <1>1, <1>5, <2>1, <2>2, <2>3, <2>4 DEF NcTypeOK
<1>9. OnlyBuf(b)
  <2> HIDE DEF d, w
  <2> QED BY <1>1, <1>5 DEF OnlyBuf, Same, NcTypeOK
<1>10. Used(b) /\ "send" \in InUse  BY <1>3 DEF Used, InUse
<1>11. Pairing'  BY <1>5, <1>10, PairingKept
<1>12. ObjOK(b)'
  <2>1. at'[b] = "send" /\ dwRecvedCount'[b] = ResponseLen
    BY <1>1, <1>5 DEF NcTypeOK
  <2>2. wsaBuf'[b] = [from |-> 0 + 1, len |-> ResponseLen - 0]
    BY <1>1, <1>5 DEF NcTypeOK
  <2>3. at'[b] # "used" /\ FreeOK(b)' /\ RecvOK(b)' /\ TakenWhole(b)'
    BY <2>1 DEF FreeOK, RecvOK, TakenWhole, Receiving
  <2>4. 0 < ResponseLen  BY <1>2
  <2>5. SendOK(b)'
    BY <1>4, <1>5, <2>1, <2>2, <2>4 DEF SendOK
  <2>6. InOrder(b)'  BY <1>4, <1>5, EmptyInOrder DEF InOrder
  <2> QED BY <2>3, <2>5, <2>6 DEF ObjOK
<1> QED BY <1>8, <1>9, <1>11, <1>12, BufStep

(* The peer gets the next cells after the ones it has. *)
LEMMA NextCells ==
  ASSUME NEW k \in Nat, NEW n \in Nat
  PROVE  [i \in 1..k |-> i] \o [i \in 1..n |-> (k + 1) + i - 1] = [i \in 1..(k + n) |-> i]
<1> DEFINE s == [i \in 1..k |-> i]
           t == [i \in 1..n |-> (k + 1) + i - 1]
           u == [i \in 1..(k + n) |-> i]
<1>1. s \in Seq(Int) /\ Len(s) = k  OBVIOUS
<1>2. t \in Seq(Int) /\ Len(t) = n  OBVIOUS
<1>3. u \in Seq(Int) /\ Len(u) = k + n  OBVIOUS
<1>4. s \o t \in Seq(Int) /\ Len(s \o t) = k + n  BY <1>1, <1>2
<1>5. ASSUME NEW i \in 1..(k + n) PROVE (s \o t)[i] = u[i]
  <2>1. CASE i <= k
    <3>1. i \in 1..Len(s)  BY <1>1, <2>1
    <3>2. (s \o t)[i] = s[i]  BY <1>1, <1>2, <3>1
    <3> QED BY <1>1, <3>1, <3>2
  <2>2. CASE k < i
    <3>1. i - k \in 1..n /\ (k + 1) + (i - k) - 1 = i  BY <2>2
    <3>2. (s \o t)[i] = t[i - k]  BY <1>1, <1>2, <2>2
    <3> QED BY <3>1, <3>2
  <2> QED BY <2>1, <2>2
<1> HIDE DEF s, t, u
<1>6. s \o t = u  BY <1>3, <1>4, <1>5, SeqEqual
<1> QED BY <1>6 DEF s, t, u

(* Part of the rest has been sent, and what is left then is posted. *)
LEMMA SendGoesOnInv ==
  ASSUME NcInv, NEW b \in BObjs, NEW n, SendGoesOn(b, n)
  PROVE  NcInv'
<1>1. NcTypeOK /\ Pairing /\ ObjOK(b)  BY DEF NcInv
<1>2. DataLen \in Nat /\ ResponseLen \in 1..DataLen  BY NcAssumption
<1>3. at[b] = "send" /\ n \in 1..(wsaBuf[b].len - 1)  BY DEF SendGoesOn
<1>4. PICK k \in 0..DataLen : k = dwSendedCount[b]  BY <1>1 DEF NcTypeOK
<1>5. /\ dwRecvedCount[b] = ResponseLen /\ k < ResponseLen
      /\ wsaBuf[b].from = k + 1 /\ wsaBuf[b].len = ResponseLen - k
  BY <1>1, <1>3, <1>4 DEF ObjOK, SendOK
<1>6. n \in Nat \ {0} /\ k \in Nat /\ k + n < ResponseLen /\ k + n \in 0..DataLen
  BY <1>2, <1>3, <1>4, <1>5
<1>7. PICK o : o = [i \in 1..(k + n) |-> i]  OBVIOUS
<1>8. PICK w : w = [from |-> (k + n) + 1, len |-> ResponseLen - (k + n)]  OBVIOUS
<1>9. out[b] \o [i \in 1..n |-> wsaBuf[b].from + i - 1] = o
  <2>1. out[b] = [i \in 1..k |-> i]  BY <1>1, <1>4 DEF ObjOK, InOrder
  <2>2. [i \in 1..k |-> i] \o [i \in 1..n |-> (k + 1) + i - 1] = o  BY <1>6, <1>7, NextCells
  <2> QED BY <1>5, <2>1, <2>2
<1>10. /\ dwSendedCount' = [dwSendedCount EXCEPT ![b] = k + n]
       /\ out' = [out EXCEPT ![b] = o]
       /\ wsaBuf' = [wsaBuf EXCEPT ![b] = w]
       /\ UNCHANGED <<at, rel, sock, data, dwRecvedCount, peer, sweep>>
  BY <1>4, <1>5, <1>8, <1>9 DEF SendGoesOn, Nc_PostSend
<1>11. w \in [from : 1..(DataLen + 1), len : 0..DataLen]
  <2>1. (k + n) + 1 \in 1..(DataLen + 1) /\ ResponseLen - (k + n) \in 0..DataLen
    BY <1>2, <1>6
  <2> QED BY <1>8, <2>1
<1>12. o \in Seq(1..DataLen)
  <2>1. \A i \in 1..(k + n) : i \in 1..DataLen  BY <1>2, <1>6
  <2> QED BY <1>6, <1>7, <2>1
<1>13. NcTypeOK'
  <2>1. dwSendedCount' \in [BObjs -> 0..DataLen]  BY <1>1, <1>6, <1>10 DEF NcTypeOK
  <2>2. out' \in [BObjs -> Seq(1..DataLen)]  BY <1>1, <1>10, <1>12 DEF NcTypeOK
  <2>3. wsaBuf' \in [BObjs -> [from : 1..(DataLen + 1), len : 0..DataLen]]
    BY <1>1, <1>10, <1>11 DEF NcTypeOK
  <2> QED BY <1>1, <1>10, <2>1, <2>2, <2>3 DEF NcTypeOK
<1>14. OnlyBuf(b)  BY <1>1, <1>10 DEF OnlyBuf, Same, NcTypeOK
<1>15. Pairing'  BY <1>1, <1>10 DEF Pairing, Used
<1>16. ObjOK(b)'
  <2>1. at'[b] = "send" /\ dwSendedCount'[b] = k + n /\ out'[b] = o /\ wsaBuf'[b] = w
    BY <1>1, <1>3, <1>10 DEF NcTypeOK
  <2>2. at'[b] # "used" /\ FreeOK(b)' /\ RecvOK(b)' /\ TakenWhole(b)'
    BY <2>1 DEF FreeOK, RecvOK, TakenWhole, Receiving
  <2>3. SendOK(b)'
    BY <1>5, <1>6, <1>8, <1>10, <2>1 DEF SendOK
  <2>4. InOrder(b)'  BY <1>7, <2>1 DEF InOrder
  <2> QED BY <2>2, <2>3, <2>4 DEF ObjOK
<1> QED BY <1>13, <1>14, <1>15, <1>16, BufStep

-----------------------------------------------------------------------------
(* The initial state: everything is on the heap. *)
LEMMA NcInitInv == NcInit => NcInv
<1> SUFFICES ASSUME NcInit PROVE NcInv
  OBVIOUS
<1>1. BSocks \cap BObjs = {} /\ DataLen \in Nat  BY NcAssumption
<1>2. NcTypeOK
  <2>1. NoData \in [1..DataLen -> Cells]  BY DEF NoData, Cells
  <2>2. NoBuf \in [from : 1..(DataLen + 1), len : 0..DataLen]  BY <1>1 DEF NoBuf
  <2>3. <<>> \in Seq(1..DataLen)  OBVIOUS
  <2>4. /\ at \in [BSocks \cup BObjs -> {"heap", "pool", "used"} \cup InUse]
        /\ rel \in [BObjs -> BSocks \cup {None}] /\ sock \in [BSocks -> Handles]
        /\ sweep \in BSocks \cup {None}
    BY DEF NcInit, Handles
  <2>5. dwRecvedCount \in [BObjs -> 0..DataLen] /\ dwSendedCount \in [BObjs -> 0..DataLen]
    BY <1>1 DEF NcInit
  <2>6. /\ data \in [BObjs -> [1..DataLen -> Cells]]
        /\ wsaBuf \in [BObjs -> [from : 1..(DataLen + 1), len : 0..DataLen]]
        /\ peer \in [BObjs -> Requests \cup {<<>>}] /\ out \in [BObjs -> Seq(1..DataLen)]
    BY <2>1, <2>2, <2>3 DEF NcInit
  <2> QED BY <2>4, <2>5, <2>6 DEF NcTypeOK
<1>3. \A x \in BSocks \cup BObjs : at[x] = "heap"  BY DEF NcInit
<1>4. Pairing  BY <1>3 DEF Pairing, Used, InUse
<1>5. ASSUME NEW b \in BObjs PROVE ObjOK(b)
  <2>1. /\ at[b] = "heap" /\ rel[b] = None /\ peer[b] = <<>> /\ wsaBuf[b] = NoBuf
        /\ dwRecvedCount[b] = 0 /\ dwSendedCount[b] = 0 /\ out[b] = <<>>
    BY DEF NcInit
  <2>2. FreeOK(b) /\ RecvOK(b) /\ SendOK(b) /\ TakenWhole(b) /\ at[b] # "used"
    BY <2>1 DEF FreeOK, RecvOK, SendOK, TakenWhole, Receiving
  <2>3. InOrder(b)  BY <2>1, EmptyInOrder DEF InOrder
  <2> QED BY <2>2, <2>3 DEF ObjOK
<1> QED BY <1>2, <1>4, <1>5 DEF NcInv

(* Every step preserves the invariant. *)
LEMMA NcNextInv == NcInv /\ [NcNext]_ncVars => NcInv'
<1> SUFFICES ASSUME NcInv, [NcNext]_ncVars PROVE NcInv'
  OBVIOUS
<1>1. CASE UNCHANGED ncVars
  <2>1. NcTypeOK' /\ Pairing'  BY <1>1 DEF NcInv, ncVars, NcTypeOK, Pairing, Used
  <2>2. ASSUME NEW b \in BObjs PROVE ObjOK(b)'
    BY <1>1, SameObj DEF NcInv, Same, ncVars
  <2> QED BY <2>1, <2>2 DEF NcInv
<1>2. CASE \E s \in BSocks, b \in BObjs :
             \/ \E request \in Requests : Nc_PostAcceptEx(s, b, request)
             \/ PostAcceptExFails(s, b)
  BY <1>2, PostAcceptExInv, PostAcceptExFailsInv
<1>3. CASE \E b \in BObjs, c \in Commands : CommandUses(b, c)
  BY <1>3, CommandUsesInv
<1>4. ASSUME NEW b \in BObjs,
             \/ Nc_AcceptCompletionFailed(b) \/ NC_RecvZeroCompFailed(b)
             \/ NC_RecvCompFailed(b) \/ NC_SendCompFailed(b)
             \/ ResponseFails(b) \/ SendFinishes(b)
      PROVE  NcInv'
  <2>1. Used(b) /\ Ends(b)
    BY <1>4 DEF Nc_AcceptCompletionFailed, NC_RecvZeroCompFailed, NC_RecvCompFailed,
                NC_SendCompFailed, ResponseFails, SendFinishes, Used, InUse
  <2> QED BY <2>1, EndsInv
<1>5. ASSUME NEW b \in BObjs, NEW n \in 1..DataLen,
             Nc_AcceptCompletionSuccess(b, n) \/ NC_RecvCompSuccess(b, n)
      PROVE  NcInv'
  BY <1>5, DataArrivesInv DEF Nc_AcceptCompletionSuccess, NC_RecvCompSuccess
<1>6. ASSUME NEW b \in BObjs,
             \/ NC_RecvZeroCompSuccess(b) \/ doNcResponse(b)
             \/ \E n \in 1..DataLen : SendGoesOn(b, n)
      PROVE  NcInv'
  BY <1>6, RecvZeroInv, doNcResponseInv, SendGoesOnInv
<1>7. CASE SweepCloses \/ \E b \in BObjs : SweepFinds(b)
  BY <1>7, SweepInv
<1>8. CASE NcNext
  BY <1>2, <1>3, <1>4, <1>5, <1>6, <1>7, <1>8 DEF NcNext
<1> QED BY <1>1, <1>8

(* NcInv holds in every state of every behaviour. *)
THEOREM NcInvariant == NcSpec => []NcInv
<1> QED BY NcInitInv, NcNextInv, PTL DEF NcSpec

(* Counters, buffers and what the posted operations cover stay within a
   BUFFER_OBJ. *)
THEOREM NcTypes == NcSpec => []NcTypeOK
<1>1. NcInv => NcTypeOK  BY DEF NcInv
<1> QED BY <1>1, NcInvariant, PTL

(* A BUFFER_SOCK in use belongs to exactly one BUFFER_OBJ in use and the other
   way round, through every completion handler and every reuse. *)
THEOREM NcSocketsPaired == NcSpec => []NcPaired
<1>1. NcInv => NcPaired
  <2> SUFFICES ASSUME NcInv PROVE NcPaired
    OBVIOUS
  <2>1. NcTypeOK /\ Pairing /\ \A b \in BObjs : ObjOK(b)  BY DEF NcInv
  <2>2. None \notin BSocks  BY NcAssumption
  <2>3. ASSUME NEW b \in BObjs
        PROVE  IF at[b] \in InUse THEN rel[b] # None /\ at[rel[b]] = "used" ELSE rel[b] = None
    <3>1. CASE at[b] \in InUse  BY <2>1, <2>2, <3>1 DEF Pairing, Used
    <3>2. CASE at[b] \notin InUse
      <4>1. at[b] \in {"heap", "pool"}
        <5>1. at[b] \in {"heap", "pool", "used"} \cup InUse  BY <2>1 DEF NcTypeOK
        <5> QED BY <2>1, <3>2, <5>1 DEF ObjOK
      <4> QED BY <2>1, <3>2, <4>1 DEF ObjOK, FreeOK
    <3> QED BY <3>1, <3>2
  <2>4. ASSUME NEW s \in BSocks, at[s] = "used"
        PROVE  Cardinality({ b \in BObjs : rel[b] = s /\ at[b] \in InUse }) = 1
    <3>1. PICK b \in BObjs : Used(b) /\ rel[b] = s  BY <2>1, <2>4 DEF Pairing
    <3>2. \A c : c \in { x \in BObjs : rel[x] = s /\ at[x] \in InUse } <=> c \in {b}
      BY <2>1, <3>1 DEF Pairing, Used
    <3>3. { x \in BObjs : rel[x] = s /\ at[x] \in InUse } = {b}  BY <3>2
    <3> QED BY <3>3, FS_Singleton
  <2> QED BY <2>3, <2>4 DEF NcPaired
<1> QED BY <1>1, NcInvariant, PTL

(* A conforming request is taken when all of it has arrived and not before,
   whatever an earlier use left in the buffer that CheckNCData searches. *)
THEOREM NcRequestTakenWhole == NcSpec => []RequestTakenWhole
<1>1. NcInv => RequestTakenWhole
  BY DEF NcInv, ObjOK, TakenWhole, RequestTakenWhole
<1> QED BY <1>1, NcInvariant, PTL

(* However a response is cut into sends, the peer gets its cells once each and
   in order. *)
THEOREM NcResponseInOrder == NcSpec => []ResponseInOrder
<1>1. NcInv => ResponseInOrder
  BY DEF NcInv, ObjOK, InOrder, ResponseInOrder
<1> QED BY <1>1, NcInvariant, PTL
=============================================================================
