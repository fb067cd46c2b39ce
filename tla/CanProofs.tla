------------------------------- MODULE CanProofs -------------------------------
(***************************************************************************)
(* Theorems about Can, for every layout of the ids, every number of cells, *)
(* probes and retries, and every number of faults and of other nodes.      *)
(***************************************************************************)
EXTENDS Can, SequenceTheorems, TLAPS

\* How far the reader is follows from the id it asks for: the frames before this
\* one were full.
Place == /\ id \notin FirstTemp..(FirstTail - 1) => i = 0
         /\ id \in FirstTemp..(FirstCell - 1) => i = (id - FirstTemp) * PER
         /\ id \in FirstCell..(FirstTail - 1) => i = (id - FirstCell) * PER

\* Each request of a get but the first has used up a retry.
Asked == /\ pc \in {"closed", "bind", "write"} => asked = RETRIES - retries
         /\ pc = "read" => asked = RETRIES - retries + 1

CanTypes == TypeOK /\ Place /\ Asked

\* Without other nodes no frame comes empty.
NoEmpty == peers = 0 => \A m \in 1..Len(sock) : sock[m].kind # "empty"

\* What has been taken so far is the BMS's.
SizesKnown == errors = 0 /\ peers = 0 /\ id > SizesId => strings = STRINGS /\ probes = PROBES
CellsKnown == errors = 0 /\ peers = 0 =>
                 /\ id \in FirstCell..(FirstTail - 1) =>
                       \A j \in 1..LastCell : j <= i => cells[j] = "true"
                 /\ id >= FirstTail => \A j \in 1..LastCell : cells[j] = "true"

InfoInv == NoEmpty /\ SizesKnown /\ CellsKnown /\ (pc = "ok" => id = LastId)

CanInv == CanTypes /\ InfoInv

-----------------------------------------------------------------------------
(* Ids and frames. *)

\* The order of the ids.
LEMMA IdOrder ==
    /\ SizesId \in Nat \ {0} /\ FirstTemp = SizesId + 1
    /\ FirstCell \in Nat /\ FirstTemp < FirstCell
    /\ FirstTail \in Nat /\ FirstCell < FirstTail
    /\ LastId \in Nat /\ FirstTail <= LastId
    /\ FirstCell = FirstTemp + TEMPS /\ FirstTail = FirstCell + CELLS
  BY IdAssumption DEF SizesId, FirstTemp, FirstCell, FirstTail, LastId

\* Full frames: one more holds PER more items.
LEMMA Frames ==
    /\ \A n \in Nat : n * PER \in Nat /\ (n + 1) * PER = n * PER + PER
    /\ \A n, m \in Nat : n < m => n * PER + PER <= m * PER
  <1>1. PER \in Nat
    BY IdAssumption
  <1>2. \A n \in Nat : n * PER \in Nat /\ (n + 1) * PER = n * PER + PER
    BY <1>1
  <1>3. \A n, d \in Nat : (n + 1 + d) * PER = n * PER + PER + d * PER
    BY <1>1
  <1>4. ASSUME NEW n \in Nat, NEW m \in Nat, n < m PROVE n * PER + PER <= m * PER
    <2>1. PICK d \in Nat : m = n + 1 + d
      <3>1. m - n - 1 \in Nat /\ m = n + 1 + (m - n - 1)
        BY <1>4
      <3> QED BY <3>1
    <2>2. m * PER = n * PER + PER + d * PER
      BY <1>3, <2>1
    <2>3. n * PER \in Nat /\ d * PER \in Nat /\ m * PER \in Nat
      BY <1>2
    <2> QED BY <1>1, <2>2, <2>3
  <1> QED BY <1>2, <1>4

\* A frame holds PER items while there are more to come, and all that are left
\* when there are not.
LEMMA FrameItems ==
    ASSUME i \in Nat, NEW n \in Nat
    PROVE  /\ AfterFrame(n) \in Nat /\ AfterFrame(n) > i
           /\ AfterFrame(n) < n => AfterFrame(n) = i + PER
           /\ AfterFrame(n) >= n \/ AfterFrame(n) = i + PER
  BY IdAssumption DEF AfterFrame

-----------------------------------------------------------------------------
(* Types and counts. *)

\* What a frame that is accepted does to the reader's place.
LEMMA AcceptTypes ==
    ASSUME CanTypes, NEW f \in Frame, Accept(f)
    PROVE  /\ id' \in Id /\ i' \in 0..(CELLS * PER + TEMPS * PER) /\ Place'
           /\ strings' \in 0..STRINGS /\ probes' \in 0..PROBES
           /\ cells' \in [1..(CELLS * PER) -> {"none", "true", "wrong"}]
           /\ pc' \in {"write", "ok"} /\ (pc' = "ok" => id' = LastId)
           /\ retries' = RETRIES /\ asked' = 0
  <1> USE IdOrder DEF Id
  <1> DEFINE C == CELLS * PER
             T == TEMPS * PER
  <1>1. /\ id \in 1..LastId /\ i \in 0..(C + T) /\ i \in Nat
        /\ strings \in 0..STRINGS /\ probes \in 0..PROBES
        /\ cells \in [1..C -> {"none", "true", "wrong"}]
        /\ C \in Nat /\ T \in Nat /\ STRINGS \in Nat /\ PROBES \in Nat /\ PER \in Nat
    BY Frames, IdAssumption, BmsAssumption DEF CanTypes, TypeOK
  <1>2. retries' = RETRIES /\ asked' = 0
    BY DEF Accept, NextGet
  <1> HIDE DEF C, T
  <1>3. i \in Nat /\ strings \in Nat /\ probes \in Nat
    BY <1>1
  <1>4. CASE id < SizesId
    <2>1. id' = id + 1 /\ pc' = "write" /\ UNCHANGED <<i, strings, probes, cells>>
      BY <1>4 DEF Accept
    <2>2. i' = 0
      BY <1>1, <1>4, <2>1 DEF CanTypes, Place
    <2>3. Place'
      BY <1>1, <1>4, <2>1, <2>2 DEF Place
    <2> QED BY <1>1, <1>2, <1>4, <2>1, <2>2, <2>3 DEF C, T
  <1>5. CASE id = SizesId
    <2>1. TakeSizes(f) /\ id' = FirstTemp /\ i' = 0 /\ pc' = "write" /\ UNCHANGED cells
      BY <1>5 DEF Accept
    <2>2. strings' \in 0..STRINGS /\ probes' \in 0..PROBES
      BY <1>1, <2>1 DEF TakeSizes
    <2>3. Place'
      <3>1. (FirstTemp - FirstTemp) * PER = 0
        BY <1>1
      <3> QED BY <2>1, <3>1 DEF Place
    <2> QED BY <1>1, <1>2, <2>1, <2>2, <2>3 DEF C, T
  <1>6. CASE id \in FirstTemp..(FirstCell - 1)
    <2>1. /\ pc' = "write" /\ UNCHANGED <<strings, probes, cells>>
          /\ \/ id' = FirstCell /\ i' = 0
             \/ /\ AfterFrame(probes) < probes /\ id + 1 # FirstCell
                /\ id' = id + 1 /\ i' = AfterFrame(probes)
      <3>1. AfterFrame(probes) \in Nat
        BY <1>3, FrameItems
      <3> QED BY <1>1, <1>6, <3>1 DEF Accept
    <2>2. CASE id' = FirstCell /\ i' = 0
      <3>1. (FirstCell - FirstCell) * PER = 0
        BY <1>1
      <3>2. Place'
        BY <2>2, <3>1 DEF Place
      <3> QED BY <1>1, <1>2, <2>1, <2>2, <3>2 DEF C, T
    <2>3. CASE /\ AfterFrame(probes) < probes /\ id + 1 # FirstCell
               /\ id' = id + 1 /\ i' = AfterFrame(probes)
      <3>1. PICK n \in Nat : n = id - FirstTemp
        BY <1>1, <1>6
      <3>2. i = n * PER /\ i' = i + PER
        BY <1>1, <1>6, <2>3, <3>1, FrameItems DEF CanTypes, Place
      <3>3. i' = (n + 1) * PER /\ i' \in 0..(C + T)
        <4>1. n < TEMPS /\ TEMPS \in Nat
          BY <1>1, <1>6, <3>1, IdAssumption
        <4>2. i' <= T /\ i' = (n + 1) * PER
          BY <3>2, <4>1, Frames DEF T
        <4>3. i' \in Nat
          BY <1>1, <3>2
        <4> QED BY <1>1, <4>2, <4>3
      <3>4. id' - FirstTemp = n + 1 /\ id' \in FirstTemp..(FirstCell - 1)
        BY <1>1, <1>6, <2>3, <3>1
      <3>5. Place'
        <4>1. i' = (id' - FirstTemp) * PER
          BY <3>3, <3>4
        <4> QED BY <3>4, <4>1 DEF Place
      <3> QED BY <1>1, <1>2, <2>1, <3>3, <3>4, <3>5 DEF C, T
    <2> QED BY <2>1, <2>2, <2>3
  <1>7. CASE id \in FirstCell..(FirstTail - 1)
    <2>1. /\ pc' = "write" /\ UNCHANGED <<strings, probes>> /\ TakeCells(f)
          /\ \/ id' = FirstTail /\ i' = 0
             \/ /\ AfterFrame(strings) < strings /\ id + 1 # FirstTail
                /\ id' = id + 1 /\ i' = AfterFrame(strings)
      <3>1. AfterFrame(strings) \in Nat
        BY <1>3, FrameItems
      <3> QED BY <1>1, <1>7, <3>1 DEF Accept
    <2>2. cells' \in [1..C -> {"none", "true", "wrong"}]
      BY <1>1, <2>1 DEF TakeCells
    <2>3. CASE id' = FirstTail /\ i' = 0
      <3>1. Place'
        BY <2>3 DEF Place
      <3> QED BY <1>1, <1>2, <2>1, <2>2, <2>3, <3>1 DEF C, T
    <2>4. CASE /\ AfterFrame(strings) < strings /\ id + 1 # FirstTail
               /\ id' = id + 1 /\ i' = AfterFrame(strings)
      <3>1. PICK n \in Nat : n = id - FirstCell
        BY <1>1, <1>7
      <3>2. i = n * PER /\ i' = i + PER
        BY <1>1, <1>7, <2>4, <3>1, FrameItems DEF CanTypes, Place
      <3>3. i' = (n + 1) * PER /\ i' \in 0..(C + T)
        <4>1. n < CELLS /\ CELLS \in Nat
          BY <1>1, <1>7, <3>1, IdAssumption
        <4>2. i' <= C /\ i' = (n + 1) * PER
          BY <3>2, <4>1, Frames DEF C
        <4>3. i' \in Nat
          BY <1>1, <3>2
        <4> QED BY <1>1, <4>2, <4>3
      <3>4. id' - FirstCell = n + 1 /\ id' \in FirstCell..(FirstTail - 1)
        BY <1>1, <1>7, <2>4, <3>1
      <3>5. Place'
        <4>1. i' = (id' - FirstCell) * PER
          BY <3>3, <3>4
        <4> QED BY <3>4, <4>1 DEF Place
      <3> QED BY <1>1, <1>2, <2>1, <2>2, <3>3, <3>4, <3>5 DEF C, T
    <2> QED BY <2>1, <2>3, <2>4
  <1>8. CASE id >= FirstTail
    <2>1. /\ UNCHANGED <<i, strings, probes, cells>>
          /\ \/ id = LastId /\ pc' = "ok" /\ id' = id
             \/ id # LastId /\ pc' = "write" /\ id' = id + 1
      BY <1>1, <1>8 DEF Accept
    <2>2. i' = 0
      BY <1>1, <1>8, <2>1 DEF CanTypes, Place
    <2>3. id' \in 1..LastId /\ id' >= FirstTail /\ (pc' = "ok" => id' = LastId)
      BY <1>1, <1>8, <2>1
    <2>4. Place'
      BY <2>2, <2>3 DEF Place
    <2> QED BY <1>1, <1>2, <2>1, <2>2, <2>3, <2>4 DEF C, T
  <1> QED BY <1>1, <1>4, <1>5, <1>6, <1>7, <1>8

\* A get takes a frame or uses up a retry; out of retries it has failed.
LEMMA TakeTypes ==
    ASSUME CanTypes, pc = "read", NEW f \in Frame, Take(f),
           UNCHANGED <<ifup, rate, pend, peers>>,
           sock' \in Seq(Frame), skipped' \subseteq Frame,
           errors' \in 0..faults', lost' \in 0..(faults' - errors'), faults' \in 0..MaxFaults
    PROVE  CanTypes'
  <1>1. /\ ifup' \in BOOLEAN /\ rate' \in {"wanted", "other"}
        /\ pend' \in Seq(Id) /\ peers' \in 0..MaxPeer
    BY DEF CanTypes, TypeOK
  <1>2. CASE Accept(f)
    <2>1. /\ id' \in Id /\ i' \in 0..(CELLS * PER + TEMPS * PER) /\ Place'
          /\ strings' \in 0..STRINGS /\ probes' \in 0..PROBES
          /\ cells' \in [1..(CELLS * PER) -> {"none", "true", "wrong"}]
          /\ pc' \in {"write", "ok"} /\ retries' = RETRIES /\ asked' = 0
      BY <1>2, AcceptTypes
    <2>2. Asked'
      BY <2>1, BoundAssumption DEF Asked
    <2>3. asked' \in 0..(RETRIES + 1) /\ retries' \in (IF pc' = "fail" THEN -1 ELSE 0)..RETRIES
      BY <2>1, BoundAssumption
    <2>4. TypeOK'
      BY <1>1, <2>1, <2>3 DEF TypeOK
    <2> QED BY <2>1, <2>2, <2>4 DEF CanTypes
  <1>3. CASE Refuse(f)
    <2>1. /\ retries' = retries - 1 /\ UNCHANGED <<id, i, strings, probes, cells, asked>>
          /\ pc' = IF retries = 0 THEN "fail" ELSE "write"
      BY <1>3 DEF Refuse, info
    <2>2. retries \in 0..RETRIES /\ RETRIES \in Nat /\ asked = RETRIES - retries + 1
      BY BoundAssumption DEF CanTypes, TypeOK, Asked
    <2>3. Asked'
      BY <2>1, <2>2 DEF Asked
    <2>4. asked' \in 0..(RETRIES + 1) /\ retries' \in (IF pc' = "fail" THEN -1 ELSE 0)..RETRIES
      BY <2>1, <2>2
    <2>5. /\ id' \in Id /\ i' \in 0..(CELLS * PER + TEMPS * PER)
          /\ strings' \in 0..STRINGS /\ probes' \in 0..PROBES
          /\ cells' \in [1..(CELLS * PER) -> {"none", "true", "wrong"}]
      BY <2>1 DEF CanTypes, TypeOK
    <2>6. TypeOK'
      BY <1>1, <2>1, <2>4, <2>5 DEF TypeOK
    <2>7. Place'
      BY <2>1 DEF CanTypes, Place
    <2> QED BY <2>3, <2>6, <2>7 DEF CanTypes
  <1> QED BY <1>2, <1>3 DEF Take

\* A step that leaves the reader's place alone keeps the types if what it
\* changes has its type.
LEMMA PlaceKept ==
    ASSUME CanTypes, UNCHANGED <<id, i, retries, strings, probes, cells>>,
           \/ asked' = asked /\ (pc' = pc \/ pc' = "fail")
           \/ asked' = asked /\ pc = "closed" /\ pc' = "bind"
           \/ asked' = asked /\ pc = "bind" /\ pc' = "write"
           \/ asked' = asked + 1 /\ pc = "write" /\ pc' = "read",
           ifup' \in BOOLEAN, rate' \in {"wanted", "other"},
           pend' \in Seq(Id), sock' \in Seq(Frame), skipped' \subseteq Frame,
           errors' \in 0..faults', lost' \in 0..(faults' - errors'),
           faults' \in 0..MaxFaults, peers' \in 0..MaxPeer
    PROVE  CanTypes'
  <1>1. Place'
    BY DEF CanTypes, Place
  <1>2. /\ RETRIES \in Nat /\ retries \in (IF pc = "fail" THEN -1 ELSE 0)..RETRIES
        /\ asked \in 0..(RETRIES + 1)
        /\ Asked
    BY BoundAssumption DEF CanTypes, TypeOK
  <1>3. Asked'
    BY <1>2 DEF Asked
  <1>4. asked' \in 0..(RETRIES + 1) /\ retries' \in (IF pc' = "fail" THEN -1 ELSE 0)..RETRIES
    BY <1>2 DEF Asked
  <1> QED BY <1>1, <1>3, <1>4 DEF CanTypes, TypeOK

\* Types and counts hold at first, and every step keeps them.
LEMMA InitTypes == Init => CanTypes
  <1> SUFFICES ASSUME Init PROVE CanTypes
    OBVIOUS
  <1>1. CELLS * PER \in Nat /\ TEMPS * PER \in Nat
    BY Frames, IdAssumption
  <1> DEFINE C == CELLS * PER
             T == TEMPS * PER
  <1> HIDE DEF C, T
  <1>2. C \in Nat /\ T \in Nat
    BY <1>1 DEF C, T
  <1>3. TypeOK
    <2>1. pend \in Seq(Id) /\ sock \in Seq(Frame)
      BY DEF Init
    <2>2. cells \in [1..C -> {"none", "true", "wrong"}] /\ i \in 0..(C + T) /\ id \in Id
      BY <1>2, IdOrder DEF Init, Id, C
    <2> QED BY <2>1, <2>2, BmsAssumption, BoundAssumption DEF Init, TypeOK, C, T
  <1>4. Place /\ Asked
    BY IdOrder, BoundAssumption DEF Init, Place, Asked
  <1> QED BY <1>3, <1>4 DEF CanTypes

\* Types, the reader's place and the count of requests are kept by every step.
LEMMA TypesStep == CanTypes /\ [Next]_vars => CanTypes'
  <1> SUFFICES ASSUME CanTypes, [Next]_vars PROVE CanTypes'
    OBVIOUS
  <1>1. /\ ifup \in BOOLEAN /\ rate \in {"wanted", "other"}
        /\ pend \in Seq(Id) /\ sock \in Seq(Frame) /\ skipped \subseteq Frame
        /\ errors \in 0..faults /\ lost \in 0..(faults - errors)
        /\ faults \in 0..MaxFaults /\ peers \in 0..MaxPeer
        /\ MaxFaults \in Nat /\ MaxPeer \in Nat
    BY BoundAssumption DEF CanTypes, TypeOK
  <1>2. Fault => faults' \in 0..MaxFaults /\ faults' = faults + 1
    BY <1>1 DEF Fault
  <1>3. CASE Opening
    <2>1. /\ UNCHANGED Opened /\ ifup' \in BOOLEAN /\ rate' \in {"wanted", "other"}
          /\ faults' = faults \/ Fault
          /\ \/ pc = "closed" /\ pc' = "bind"
             \/ pc = "bind" /\ pc' = "write"
             \/ pc' = "fail"
      BY <1>1, <1>3 DEF Opening, UseAsIs, SetRate, SetRateBlind, SetRateFails, Bind, OpenFails, Opened
    <2>2. errors' \in 0..faults' /\ lost' \in 0..(faults' - errors') /\ faults' \in 0..MaxFaults
      BY <1>1, <1>2, <2>1 DEF Opened
    <2> QED BY <1>1, <2>1, <2>2, PlaceKept DEF Opened, info, bus
  <1>4. CASE Write
    <2>1. pend' \in Seq(Id)
      BY <1>1, <1>4 DEF Write, CanTypes, TypeOK
    <2> QED BY <1>1, <1>4, <2>1, PlaceKept DEF Write, info
  <1>5. CASE WriteFails
    <2>1. faults' = faults \/ Fault
      BY <1>5 DEF WriteFails
    <2>2. errors' \in 0..faults' /\ lost' \in 0..(faults' - errors') /\ faults' \in 0..MaxFaults
      BY <1>1, <1>2, <1>5, <2>1 DEF WriteFails
    <2> QED BY <1>1, <1>5, <2>2, PlaceKept DEF WriteFails, info, bus
  <1>6. CASE ReadOther
    <2>1. Head(sock) \in Frame /\ Tail(sock) \in Seq(Frame)
      BY <1>1, <1>6, HeadTailProperties DEF ReadOther
    <2> QED BY <1>1, <1>6, <2>1, PlaceKept DEF ReadOther, info
  <1>7. CASE ReadOurs
    <2>1. Head(sock) \in Frame /\ Tail(sock) \in Seq(Frame)
      BY <1>1, <1>7, HeadTailProperties DEF ReadOurs
    <2> QED BY <1>1, <1>7, <2>1, TakeTypes DEF ReadOurs
  <1>8. CASE ReadError
    <2>1. PICK f \in IF skipped # {} THEN skipped ELSE Frame : Take(f)
      BY <1>8 DEF ReadError
    <2>2. f \in Frame
      BY <1>1, <2>1
    <2>3. errors' \in 0..faults' /\ lost' \in 0..(faults' - errors') /\ faults' \in 0..MaxFaults
      BY <1>1, <1>2, <1>8 DEF ReadError
    <2> QED BY <1>1, <1>8, <2>1, <2>2, <2>3, TakeTypes DEF ReadError, bus
  <1>9. CASE Answer
    <2>1. Head(pend) \in Id /\ Tail(pend) \in Seq(Id)
      BY <1>1, <1>9, HeadTailProperties DEF Answer
    <2>2. /\ \E kd \in {"good", "nocrc", "bad"} : sock' = Append(sock, [id |-> Head(pend), kind |-> kd])
          /\ faults' = faults \/ Fault
      BY <1>9 DEF Answer
    <2>3. sock' \in Seq(Frame)
      <3>1. PICK kd \in {"good", "nocrc", "bad"} : sock' = Append(sock, [id |-> Head(pend), kind |-> kd])
        BY <2>2
      <3>2. [id |-> Head(pend), kind |-> kd] \in Frame
        BY <2>1 DEF Frame
      <3> QED BY <1>1, <3>1, <3>2, AppendProperties
    <2>4. errors' \in 0..faults' /\ lost' \in 0..(faults' - errors') /\ faults' \in 0..MaxFaults
      BY <1>1, <1>2, <1>9, <2>2 DEF Answer
    <2> QED BY <1>1, <1>9, <2>1, <2>3, <2>4, PlaceKept DEF Answer, info
  <1>10. CASE Silent
    <2>1. Tail(pend) \in Seq(Id)
      BY <1>1, <1>10, HeadTailProperties DEF Silent
    <2>2. errors' \in 0..faults' /\ lost' \in 0..(faults' - errors') /\ faults' \in 0..MaxFaults
      BY <1>1, <1>2, <1>10 DEF Silent
    <2> QED BY <1>1, <1>10, <2>1, <2>2, PlaceKept DEF Silent, info
  <1>11. CASE Peer
    <2>1. PICK n \in Id : /\ sock' = Append(sock, [id |-> n, kind |-> "empty"])
                          /\ pend' = Append(pend, n)
      BY <1>11 DEF Peer
    <2>2. [id |-> n, kind |-> "empty"] \in Frame
      BY DEF Frame
    <2>3. sock' \in Seq(Frame) /\ pend' \in Seq(Id)
      BY <1>1, <2>1, <2>2, AppendProperties
    <2>4. peers' \in 0..MaxPeer
      BY <1>1, <1>11 DEF Peer
    <2> QED BY <1>1, <1>11, <2>3, <2>4, PlaceKept DEF Peer, info
  <1>12. CASE UNCHANGED vars
    BY <1>1, <1>12, PlaceKept DEF vars, info, bus
  <1> QED BY <1>3, <1>4, <1>5, <1>6, <1>7, <1>8, <1>9, <1>10, <1>11, <1>12 DEF Next, Getting, Bus

-----------------------------------------------------------------------------
(* What has been taken is the BMS's. *)

\* Without other nodes only the BMS puts frames on the bus, none of them empty.
LEMMA NoEmptyStep == CanTypes /\ NoEmpty /\ [Next]_vars => NoEmpty'
  <1> SUFFICES ASSUME CanTypes, NoEmpty, [Next]_vars, peers' = 0
               PROVE  \A m \in 1..Len(sock') : sock'[m].kind # "empty"
    BY DEF NoEmpty
  <1>1. sock \in Seq(Frame) /\ peers \in Nat
    BY BoundAssumption DEF CanTypes, TypeOK
  <1>2. CASE sock' = sock /\ peers' = peers
    BY <1>2 DEF NoEmpty
  <1>3. CASE sock # <<>> /\ sock' = Tail(sock) /\ peers' = peers
    <2>1. /\ Len(sock') = Len(sock) - 1 /\ Len(sock) \in Nat
          /\ \A m \in 1..Len(sock') : sock'[m] = sock[m + 1]
      BY <1>1, <1>3, HeadTailProperties
    <2>2. \A m \in 1..Len(sock') : m + 1 \in 1..Len(sock)
      BY <2>1
    <2> QED BY <1>3, <2>1, <2>2 DEF NoEmpty
  <1>4. CASE Answer
    <2>1. PICK f : sock' = Append(sock, f) /\ f.kind # "empty"
      BY <1>4 DEF Answer
    <2>2. /\ Len(sock') = Len(sock) + 1 /\ Len(sock) \in Nat
          /\ \A m \in 1..Len(sock) : sock'[m] = sock[m]
          /\ sock'[Len(sock) + 1] = f
      BY <1>1, <2>1
    <2>3. \A m \in 1..Len(sock') : m \in 1..Len(sock) \/ m = Len(sock) + 1
      BY <2>2
    <2>4. peers = 0
      BY <1>4 DEF Answer
    <2> QED BY <2>1, <2>2, <2>3, <2>4 DEF NoEmpty
  <1>5. CASE Opening
    BY <1>5, <1>2 DEF Opening, UseAsIs, SetRate, SetRateBlind, SetRateFails, Bind, OpenFails,
                      Opened, bus
  <1>6. CASE Getting
    BY <1>6, <1>2, <1>3 DEF Getting, Write, WriteFails, ReadOther, ReadOurs, ReadError, bus
  <1>7. CASE Silent \/ Peer
    BY <1>1, <1>2, <1>7 DEF Silent, Peer
  <1>8. CASE UNCHANGED vars
    BY <1>2, <1>8 DEF vars, bus
  <1> QED BY <1>4, <1>5, <1>6, <1>7, <1>8 DEF Next, Bus

\* An answer of the BMS carries the sizes, and the cells after those taken.
LEMMA AcceptTrue ==
    ASSUME CanTypes, InfoInv, errors = 0, peers = 0,
           NEW f \in Frame, f.id = id, f.kind # "empty", Accept(f)
    PROVE  SizesKnown' /\ CellsKnown'
  <1> USE IdOrder DEF Id
  <1> DEFINE C == CELLS * PER
  <1>1. /\ id \in 1..LastId /\ i \in Nat
        /\ cells \in [1..C -> {"none", "true", "wrong"}]
        /\ C \in Nat /\ STRINGS \in Nat /\ PER \in Nat
    BY Frames, IdAssumption, BmsAssumption DEF CanTypes, TypeOK
  <1>2. LastCell \in Nat /\ LastCell <= STRINGS /\ LastCell <= C
    BY <1>1 DEF LastCell
  <1>3. id > SizesId => strings = STRINGS /\ probes = PROBES
    BY DEF InfoInv, SizesKnown
  <1> HIDE DEF C
  <1>4. CASE id < SizesId
    <2>1. id' = id + 1
      BY <1>4 DEF Accept
    <2> QED BY <1>1, <1>4, <2>1 DEF SizesKnown, CellsKnown
  <1>5. CASE id = SizesId
    <2>1. strings' = STRINGS /\ probes' = PROBES /\ id' = FirstTemp
      BY <1>5 DEF Accept, TakeSizes
    <2> QED BY <2>1 DEF SizesKnown, CellsKnown
  <1>6. CASE id \in FirstTemp..(FirstCell - 1)
    <2>1. /\ UNCHANGED <<strings, probes, cells>>
          /\ \/ id' = FirstCell /\ i' = 0
             \/ id + 1 # FirstCell /\ id' = id + 1
      BY <1>1, <1>6 DEF Accept
    <2>2. SizesKnown'
      BY <1>1, <1>3, <1>6, <2>1 DEF SizesKnown
    <2>3. CellsKnown'
      <3>1. CASE id' = FirstCell /\ i' = 0
        <4>1. \A j \in 1..LastCell : ~(j <= i')
          BY <1>2, <3>1
        <4> QED BY <3>1, <4>1 DEF CellsKnown
      <3>2. CASE id + 1 # FirstCell /\ id' = id + 1
        BY <1>1, <1>6, <3>2 DEF CellsKnown
      <3> QED BY <2>1, <3>1, <3>2
    <2> QED BY <2>2, <2>3
  <1>7. CASE id \in FirstCell..(FirstTail - 1)
    <2> DEFINE a == AfterFrame(strings)
    <2>1. /\ TakeCells(f) /\ UNCHANGED <<strings, probes>>
          /\ \/ id' = FirstTail /\ (a >= strings \/ id + 1 = FirstTail)
             \/ id' = id + 1 /\ i' = a /\ id' \in FirstCell..(FirstTail - 1)
      BY <1>1, <1>7 DEF Accept
    <2>2. /\ a \in Nat /\ a > i
          /\ a >= STRINGS \/ a = i + PER
      <3>1. strings = STRINGS /\ strings \in Nat
        BY <1>1, <1>3, <1>7
      <3>2. a \in Nat /\ a > i /\ (a >= strings \/ a = i + PER)
        BY <1>1, <3>1, FrameItems
      <3> QED BY <3>1, <3>2
    <2>3. f.kind \in {"good", "nocrc"}
      <3>1. Usable(f) /\ Checked(id)
        BY <1>1, <1>7 DEF Accept, Checked
      <3> QED BY <3>1 DEF Usable, Frame
    <2> HIDE DEF a
    <2>4. \A j \in 1..LastCell : j <= i => cells[j] = "true"
      BY <1>7 DEF InfoInv, CellsKnown
    <2>5. \A j \in 1..LastCell : j <= a => cells'[j] = "true"
      <3> SUFFICES ASSUME NEW j \in 1..LastCell, j <= a PROVE cells'[j] = "true"
        OBVIOUS
      <3>1. j \in DOMAIN cells
        BY <1>1, <1>2
      <3>2. cells'[j] = IF j \in (i + 1)..a THEN "true" ELSE cells[j]
        BY <2>1, <2>3, <3>1 DEF TakeCells, a
      <3>3. j \in (i + 1)..a \/ j <= i
        BY <1>1, <2>2
      <3> QED BY <2>4, <3>2, <3>3
    <2>6. ASSUME id' = FirstTail PROVE \A j \in 1..LastCell : j <= a
      <3>1. CASE a >= STRINGS
        BY <1>1, <1>2, <2>2, <3>1
      <3>2. CASE a = i + PER /\ id + 1 = FirstTail
        <4>1. PICK n \in Nat : CELLS = n + 1
          <5>1. CELLS - 1 \in Nat /\ CELLS = (CELLS - 1) + 1
            BY IdAssumption
          <5> QED BY <5>1
        <4>2. id - FirstCell = n
          BY <1>1, <3>2, <4>1
        <4>3. i = n * PER
          BY <1>7, <4>2 DEF CanTypes, Place
        <4>4. a = C
          BY <3>2, <4>1, <4>3, Frames DEF C
        <4> QED BY <1>1, <1>2, <4>4
      <3>3. a >= strings \/ id + 1 = FirstTail
        BY <1>1, <1>7, <2>1, <2>6
      <3> QED BY <1>3, <1>7, <2>2, <3>1, <3>2, <3>3
    <2>7. SizesKnown'
      BY <1>1, <1>3, <1>7, <2>1 DEF SizesKnown
    <2>8. CellsKnown'
      BY <2>1, <2>5, <2>6 DEF CellsKnown, LastCell
    <2> QED BY <2>7, <2>8
  <1>8. CASE id >= FirstTail
    <2>1. UNCHANGED <<strings, probes, cells>> /\ id' \in {id, id + 1}
      BY <1>1, <1>8 DEF Accept
    <2> QED BY <1>1, <1>3, <1>8, <2>1 DEF SizesKnown, CellsKnown, InfoInv, LastCell
  <1> QED BY <1>1, <1>4, <1>5, <1>6, <1>7, <1>8

\* Every step keeps it.
LEMMA InfoStep == CanTypes /\ InfoInv /\ [Next]_vars => InfoInv'
  <1> SUFFICES ASSUME CanTypes, InfoInv, [Next]_vars PROVE InfoInv'
    OBVIOUS
  <1>1. NoEmpty'
    BY NoEmptyStep DEF InfoInv
  <1>2. errors \in Nat /\ peers \in Nat /\ sock \in Seq(Frame)
    BY BoundAssumption DEF CanTypes, TypeOK
  <1>3. ASSUME UNCHANGED <<id, i, strings, probes, cells>>,
               errors' = 0 => errors = 0, peers' = 0 => peers = 0
        PROVE  SizesKnown' /\ CellsKnown'
    BY <1>3 DEF InfoInv, SizesKnown, CellsKnown
  <1>4. CASE Opening
    <2>1. UNCHANGED <<id, i, strings, probes, cells, errors, peers>> /\ pc' # "ok"
      BY <1>4 DEF Opening, UseAsIs, SetRate, SetRateBlind, SetRateFails, Bind, OpenFails, Opened, info
    <2> QED BY <1>1, <1>3, <2>1 DEF InfoInv
  <1>5. CASE Write \/ WriteFails \/ ReadOther
    <2>1. UNCHANGED <<id, i, strings, probes, cells, errors, peers>> /\ pc' # "ok"
      BY <1>5 DEF Write, WriteFails, ReadOther, info
    <2> QED BY <1>1, <1>3, <2>1 DEF InfoInv
  <1>6. CASE ReadOurs
    <2> DEFINE f == Head(sock)
    <2>1. /\ f \in Frame /\ f.id = id /\ Take(f) /\ errors' = errors /\ peers' = peers
          /\ sock # <<>> /\ Len(sock) \in Nat /\ f = sock[1]
      BY <1>2, <1>6, HeadTailProperties DEF ReadOurs, Ours
    <2> HIDE DEF f
    <2>2. CASE Accept(f)
      <3>1. pc' = "ok" => id' = LastId
        BY <2>1, <2>2, AcceptTypes
      <3>2. SizesKnown' /\ CellsKnown'
        <4>1. CASE errors = 0 /\ peers = 0
          <5>1. f.kind # "empty"
            BY <1>2, <2>1, <4>1 DEF InfoInv, NoEmpty
          <5> QED BY <2>1, <2>2, <4>1, <5>1, AcceptTrue
        <4>2. CASE ~(errors = 0 /\ peers = 0)
          BY <2>1, <4>2 DEF SizesKnown, CellsKnown
        <4> QED BY <4>1, <4>2
      <3> QED BY <1>1, <3>1, <3>2 DEF InfoInv
    <2>3. CASE Refuse(f)
      <3>1. UNCHANGED <<id, i, strings, probes, cells>> /\ pc' # "ok"
        BY <2>3 DEF Refuse, info
      <3> QED BY <1>1, <1>3, <2>1, <3>1 DEF InfoInv
    <2> QED BY <2>1, <2>2, <2>3 DEF Take
  <1>7. CASE ReadError
    <2>1. PICK f \in IF skipped # {} THEN skipped ELSE Frame : Take(f)
      BY <1>7 DEF ReadError
    <2>2. f \in Frame /\ errors' # 0
      BY <1>2, <1>7, <2>1 DEF ReadError, CanTypes, TypeOK
    <2>3. pc' = "ok" => id' = LastId
      <3>1. CASE Accept(f)
        BY <2>2, <3>1, AcceptTypes
      <3>2. CASE Refuse(f)
        BY <3>2 DEF Refuse
      <3> QED BY <2>1, <3>1, <3>2 DEF Take
    <2> QED BY <1>1, <2>2, <2>3 DEF InfoInv, SizesKnown, CellsKnown
  <1>8. CASE Answer \/ Silent
    <2>1. UNCHANGED <<pc, id, i, strings, probes, cells, errors, peers>>
      BY <1>8 DEF Answer, Silent, info
    <2> QED BY <1>1, <1>3, <2>1 DEF InfoInv, LastId, FirstTail
  <1>9. CASE Peer
    <2>1. UNCHANGED <<pc, id, i, strings, probes, cells, errors>> /\ peers' # 0
      BY <1>2, <1>9 DEF Peer, info
    <2> QED BY <1>1, <1>3, <2>1 DEF InfoInv
  <1>10. CASE UNCHANGED vars
    <2>1. UNCHANGED <<pc, id, i, strings, probes, cells, errors, peers>>
      BY <1>10 DEF vars, info
    <2> QED BY <1>1, <1>3, <2>1 DEF InfoInv
  <1> QED BY <1>4, <1>5, <1>6, <1>7, <1>8, <1>9, <1>10 DEF Next, Getting, Bus

-----------------------------------------------------------------------------
(* The theorems. *)

\* The invariant of reading the information over the bus.
THEOREM CanInvariant == Spec => []CanInv
  <1>1. Init => CanInv
    <2> SUFFICES ASSUME Init PROVE CanInv
      OBVIOUS
    <2>1. CanTypes
      BY InitTypes
    <2>2. InfoInv
      BY IdOrder DEF Init, InfoInv, NoEmpty, SizesKnown, CellsKnown
    <2> QED BY <2>1, <2>2 DEF CanInv
  <1>2. CanInv /\ [Next]_vars => CanInv'
    BY TypesStep, InfoStep DEF CanInv
  <1> QED BY <1>1, <1>2, PTL DEF Spec

\* No get makes more than RETRIES + 1 requests, and the reader stays within the
\* arrays of the information, whatever comes over the bus.
THEOREM CanTypeCorrect == Spec => []TypeOK
  <1>1. CanInv => TypeOK
    BY DEF CanInv, CanTypes
  <1> QED BY CanInvariant, <1>1, PTL

\* With success and without other nodes and read errors, the sizes and every
\* cell there is an id for are the BMS's, whatever was lost, late or damaged.
THEOREM InfoIsComplete == Spec => []InfoComplete
  <1>1. CanInv => InfoComplete
    BY IdOrder DEF CanInv, InfoInv, SizesKnown, CellsKnown, InfoComplete
  <1> QED BY CanInvariant, <1>1, PTL

\* can_open() never takes down an interface that is as it wants it.
THEOREM BusIsLeftAlone == Spec => BusLeftAlone
  <1>1. [Next]_vars => [ifup /\ rate = "wanted" => ifup' /\ rate' = "wanted"]_vars
    BY DEF Next, Opening, Getting, Bus, UseAsIs, SetRate, SetRateBlind, SetRateFails, Bind,
           OpenFails, Settled, Write, WriteFails, ReadOther, ReadOurs, ReadError, Answer,
           Silent, Peer, vars
  <1> QED BY <1>1, PTL DEF Spec, BusLeftAlone
===============================================================================
