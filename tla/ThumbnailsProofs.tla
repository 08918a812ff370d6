-------------------------- MODULE ThumbnailsProofs --------------------------
(***************************************************************************)
(* For any number of calls, images, slots, places and decode threads: the  *)
(* thumbnail pass neither leaks nor duplicates a slot or a place, the pool *)
(* holds each waiting image once, and a thumbnail stays in its batch.      *)
(***************************************************************************)
EXTENDS Thumbnails, TLAPS, FiniteSetTheorems, SequenceTheorems

Types ==
  /\ task \in [Calls -> [Images -> Stages]]
  /\ slots \in [Calls -> 0 .. Concurrency]
  /\ gate \in 0 .. MaxFetches
  /\ gateQueue \in Seq(Tasks)
  /\ poolQueue \in Seq(Tasks \cup {Nobody})
  /\ decoding \in SUBSET Tasks
  /\ orphans \in Nat
  /\ begun \in 0 .. MaxBatches

(* Who is in the gate's queue is waiting for it, and is in it once.        *)
GateQueueSound ==
  /\ \A n \in 1 .. Len(gateQueue) : Stage(gateQueue[n]) = "gate"
  /\ \A m, n \in 1 .. Len(gateQueue) : gateQueue[m] = gateQueue[n] => m = n

(* The images at the decode stage are the pool's, each of them once.       *)
PoolSound ==
  /\ \A n \in 1 .. Len(poolQueue) :
       poolQueue[n] # Nobody => Stage(poolQueue[n]) = "decode" /\ poolQueue[n] \notin decoding
  /\ \A m, n \in 1 .. Len(poolQueue) :
       poolQueue[m] = poolQueue[n] /\ poolQueue[m] # Nobody => m = n
  /\ \A t \in decoding : Stage(t) = "decode"
  /\ \A t \in Tasks : Stage(t) = "decode" =>
       t \in decoding \/ \E n \in 1 .. Len(poolQueue) : poolQueue[n] = t

(* Calls may be infinite: it is the holders and the decodes that are few.  *)
PlacesCounted == IsFiniteSet(Holders) /\ gate + Cardinality(Holders) = MaxFetches

SlotsCounted == \A c \in Calls : slots[c] + SlotsTaken(c) = Concurrency

WorkersCounted == IsFiniteSet(decoding) /\ Cardinality(decoding) + orphans <= Workers

FetchInv ==
  /\ Types
  /\ GateQueueSound
  /\ PoolSound
  /\ PlacesCounted
  /\ SlotsCounted
  /\ WorkersCounted

----------------------------------------------------------------------------
(* What one image's next stage does to the counts of images: an image in   *)
(* one of these stages counts for one.                                     *)
Took(stage) == IF stage \in Holding \cup {"gate"} THEN 1 ELSE 0

Held(stage) == IF stage \in Holding THEN 1 ELSE 0

LEMMA TaskIsPair ==
  ASSUME NEW t \in Tasks
  PROVE  t[1] \in Calls /\ t[2] \in Images /\ t = <<t[1], t[2]>>
BY DEF Tasks

LEMMA GoesEffect ==
  ASSUME Types, NEW t \in Tasks, NEW s \in Stages, Goes(t, s)
  PROVE  /\ task' \in [Calls -> [Images -> Stages]]
         /\ \A c \in Calls, i \in Images :
              task'[c][i] = IF <<c, i>> = t THEN s ELSE task[c][i]
         /\ \A u \in Tasks : task'[u[1]][u[2]] = IF u = t THEN s ELSE task[u[1]][u[2]]
<1>1. t[1] \in Calls /\ t[2] \in Images /\ t = <<t[1], t[2]>>
  BY TaskIsPair
<1>2. task' = [task EXCEPT ![t[1]][t[2]] = s]
  BY DEF Goes
<1>3. task' \in [Calls -> [Images -> Stages]]
  BY <1>1, <1>2 DEF Types
<1>4. ASSUME NEW c \in Calls, NEW i \in Images
      PROVE  task'[c][i] = IF c = t[1] /\ i = t[2] THEN s ELSE task[c][i]
  BY <1>1, <1>2 DEF Types
<1>5. ASSUME NEW c \in Calls, NEW i \in Images
      PROVE  <<c, i>> = t <=> c = t[1] /\ i = t[2]
  BY <1>1
<1>6. ASSUME NEW u \in Tasks
      PROVE  /\ u[1] \in Calls /\ u[2] \in Images
             /\ u = t <=> u[1] = t[1] /\ u[2] = t[2]
  BY <1>1, TaskIsPair
<1> QED BY <1>3, <1>4, <1>5, <1>6

LEMMA ImagesFinite ==
  ASSUME NEW S \in SUBSET Images
  PROVE  IsFiniteSet(S) /\ Cardinality(S) \in Nat
<1>1. IsFiniteSet(Images)
  BY FS_Interval, ThumbnailsAssumption DEF Images
<1>2. IsFiniteSet(S)
  BY <1>1, FS_Subset
<1> QED BY <1>2, FS_CardinalityType

LEMMA SlotsTakenType ==
  ASSUME NEW c \in Calls
  PROVE  SlotsTaken(c) \in Nat /\ HeldBy(c) \in Nat
BY ImagesFinite DEF SlotsTaken, HeldBy

LEMMA SlotsMoved ==
  ASSUME Types, NEW t \in Tasks, NEW s \in Stages, Goes(t, s), NEW c \in Calls
  PROVE  SlotsTaken(c)' = IF c = t[1] THEN SlotsTaken(c) - Took(Stage(t)) + Took(s)
                                      ELSE SlotsTaken(c)
<1> DEFINE X == Holding \cup {"gate"}
           A == {i \in Images : task[c][i] \in X}
           B == {i \in Images : task'[c][i] \in X}
<1>1. SlotsTaken(c) = Cardinality(A) /\ SlotsTaken(c)' = Cardinality(B)
  BY DEF SlotsTaken
<1>2. \A i \in Images : task'[c][i] = IF <<c, i>> = t THEN s ELSE task[c][i]
  BY GoesEffect
<1>3. t[1] \in Calls /\ t[2] \in Images /\ t = <<t[1], t[2]>> /\ Stage(t) = task[t[1]][t[2]]
  BY TaskIsPair DEF Stage
<1>4. A \in SUBSET Images
  OBVIOUS
<1>5. IsFiniteSet(A) /\ Cardinality(A) \in Nat
  BY <1>4, ImagesFinite
<1>6. CASE c # t[1]
  <2>1. B = A
    BY <1>2, <1>3, <1>6
  <2> QED BY <1>1, <1>6, <2>1
<1>7. CASE c = t[1]
  <2> HIDE DEF X
  <2>1. t[2] \in A <=> Stage(t) \in X
    BY <1>3, <1>7
  <2>2. B = IF s \in X THEN A \cup {t[2]} ELSE A \ {t[2]}
    BY <1>2, <1>3, <1>7
  <2> HIDE DEF A, B
  <2>3. Cardinality(A \cup {t[2]}) = IF t[2] \in A THEN Cardinality(A) ELSE Cardinality(A) + 1
    BY <1>5, FS_AddElement
  <2>4. Cardinality(A \ {t[2]}) = IF t[2] \in A THEN Cardinality(A) - 1 ELSE Cardinality(A)
    BY <1>5, FS_RemoveElement
  <2>5. Took(s) = IF s \in X THEN 1 ELSE 0
    BY DEF Took, X
  <2>6. Took(Stage(t)) = IF t[2] \in A THEN 1 ELSE 0
    BY <2>1 DEF Took, X
  <2> QED BY <1>1, <1>5, <1>7, <2>2, <2>3, <2>4, <2>5, <2>6
<1> QED BY <1>6, <1>7

LEMMA HoldersMoved ==
  ASSUME Types, PlacesCounted, NEW t \in Tasks, NEW s \in Stages, Goes(t, s)
  PROVE  /\ IsFiniteSet(Holders')
         /\ Cardinality(Holders') = Cardinality(Holders) - Held(Stage(t)) + Held(s)
         /\ Cardinality(Holders) \in Nat /\ Cardinality(Holders') \in Nat
<1>1. \A u \in Tasks : task'[u[1]][u[2]] = IF u = t THEN s ELSE task[u[1]][u[2]]
  BY GoesEffect
<1>2. Holders' = {u \in Tasks : task'[u[1]][u[2]] \in Holding}
  BY DEF Holders, Stage
<1>3. Holders = {u \in Tasks : task[u[1]][u[2]] \in Holding} /\ Stage(t) = task[t[1]][t[2]]
  BY DEF Holders, Stage
<1>4. t \in Holders <=> Stage(t) \in Holding
  BY <1>3
<1>5. Holders' = IF s \in Holding THEN Holders \cup {t} ELSE Holders \ {t}
  BY <1>1, <1>2, <1>3
<1>6. IsFiniteSet(Holders) /\ Cardinality(Holders) \in Nat
  BY FS_CardinalityType DEF PlacesCounted
<1>7. /\ IsFiniteSet(Holders \cup {t})
      /\ Cardinality(Holders \cup {t}) =
           IF t \in Holders THEN Cardinality(Holders) ELSE Cardinality(Holders) + 1
  BY <1>6, FS_AddElement
<1>8. /\ IsFiniteSet(Holders \ {t})
      /\ Cardinality(Holders \ {t}) =
           IF t \in Holders THEN Cardinality(Holders) - 1 ELSE Cardinality(Holders)
  BY <1>6, FS_RemoveElement
<1>9. Held(s) = IF s \in Holding THEN 1 ELSE 0
  BY DEF Held
<1>10. Held(Stage(t)) = IF t \in Holders THEN 1 ELSE 0
  BY <1>4 DEF Held
<1>11. IsFiniteSet(Holders')
  BY <1>5, <1>7, <1>8
<1>12. Cardinality(Holders') \in Nat
  BY <1>11, FS_CardinalityType
<1> QED BY <1>5, <1>6, <1>7, <1>8, <1>9, <1>10, <1>11, <1>12

----------------------------------------------------------------------------
(* The parts of the invariant that one image's step leaves alone.          *)
LEMMA GateQueueKeeps ==
  ASSUME Types, GateQueueSound, NEW t \in Tasks, NEW s \in Stages, Goes(t, s),
         Stage(t) # "gate", gateQueue' = gateQueue
  PROVE  GateQueueSound'
<1>1. \A u \in Tasks : task'[u[1]][u[2]] = IF u = t THEN s ELSE task[u[1]][u[2]]
  BY GoesEffect
<1>2. \A n \in 1 .. Len(gateQueue) : gateQueue[n] \in Tasks
  BY ElementOfSeq DEF Types
<1> QED BY <1>1, <1>2 DEF GateQueueSound, Stage

LEMMA PoolKeeps ==
  ASSUME Types, PoolSound, NEW t \in Tasks, NEW s \in Stages, Goes(t, s),
         Stage(t) # "decode", s # "decode", poolQueue' = poolQueue, decoding' = decoding
  PROVE  PoolSound'
<1>1. \A u \in Tasks : task'[u[1]][u[2]] = IF u = t THEN s ELSE task[u[1]][u[2]]
  BY GoesEffect
<1>2. \A n \in 1 .. Len(poolQueue) : poolQueue[n] \in Tasks \/ poolQueue[n] = Nobody
  BY ElementOfSeq DEF Types
<1>3. decoding \in SUBSET Tasks
  BY DEF Types
<1>4. \A n \in 1 .. Len(poolQueue) :
        poolQueue[n] # Nobody =>
          task'[poolQueue[n][1]][poolQueue[n][2]] = "decode" /\ poolQueue[n] \notin decoding
  BY <1>1, <1>2 DEF PoolSound, Stage
<1>5. \A u \in decoding : task'[u[1]][u[2]] = "decode"
  BY <1>1, <1>3 DEF PoolSound, Stage
<1>6. \A u \in Tasks : task'[u[1]][u[2]] = "decode" =>
        u \in decoding \/ \E n \in 1 .. Len(poolQueue) : poolQueue[n] = u
  BY <1>1 DEF PoolSound, Stage
<1>7. poolQueue' = poolQueue /\ decoding' = decoding
  OBVIOUS
<1> QED BY <1>4, <1>5, <1>6, <1>7 DEF PoolSound, Stage

(* A slot is given back, taken, or kept as the image's stage says.         *)
LEMMA SlotsKeep ==
  ASSUME Types, SlotsCounted, NEW t \in Tasks, NEW s \in Stages, Goes(t, s),
         NEW back \in Int, back = Took(Stage(t)) - Took(s), slots[t[1]] + back >= 0,
         slots' = [slots EXCEPT ![t[1]] = slots[t[1]] + back]
  PROVE  SlotsCounted' /\ slots' \in [Calls -> 0 .. Concurrency]
<1> USE ThumbnailsAssumption
<1>1. t[1] \in Calls
  BY TaskIsPair
<1>2. \A c \in Calls : slots'[c] = IF c = t[1] THEN slots[c] + back ELSE slots[c]
  BY <1>1 DEF Types
<1>3. ASSUME NEW c \in Calls
      PROVE  slots'[c] + SlotsTaken(c)' = Concurrency /\ slots'[c] \in Int
  <2>1. SlotsTaken(c) \in Nat /\ slots[c] \in Int /\ slots[c] + SlotsTaken(c) = Concurrency
    BY SlotsTakenType DEF Types, SlotsCounted
  <2>2. SlotsTaken(c)' = IF c = t[1] THEN SlotsTaken(c) - Took(Stage(t)) + Took(s)
                                     ELSE SlotsTaken(c)
    BY SlotsMoved
  <2>3. Took(Stage(t)) \in Int /\ Took(s) \in Int
    BY DEF Took
  <2>4. CASE c = t[1]
    <3>1. slots'[c] = slots[c] + back /\ SlotsTaken(c)' = SlotsTaken(c) - Took(Stage(t)) + Took(s)
      BY <1>2, <2>2, <2>4
    <3> QED BY <2>1, <2>3, <3>1
  <2>5. CASE c # t[1]
    BY <1>2, <2>1, <2>2, <2>5
  <2> QED BY <2>4, <2>5
<1>4. ASSUME NEW c \in Calls
      PROVE  slots'[c] \in 0 .. Concurrency
  <2>1. SlotsTaken(c)' \in Nat
    <3>1. {i \in Images : task'[c][i] \in Holding \cup {"gate"}} \in SUBSET Images
      OBVIOUS
    <3> QED BY <3>1, ImagesFinite DEF SlotsTaken
  <2>2. slots'[c] >= 0
    BY <1>2 DEF Types
  <2> QED BY <1>3, <2>1, <2>2
<1>5. slots' \in [Calls -> 0 .. Concurrency]
  BY <1>4 DEF Types
<1>6. SlotsCounted'
  BY <1>3 DEF SlotsCounted
<1> QED BY <1>5, <1>6

LEMMA PlacesKeep ==
  ASSUME Types, PlacesCounted, NEW t \in Tasks, NEW s \in Stages, Goes(t, s),
         NEW back \in Int, back = Held(Stage(t)) - Held(s), gate + back >= 0,
         gate' = gate + back
  PROVE  PlacesCounted' /\ gate' \in 0 .. MaxFetches
<1> USE ThumbnailsAssumption
<1>1. /\ IsFiniteSet(Holders')
      /\ Cardinality(Holders') = Cardinality(Holders) - Held(Stage(t)) + Held(s)
      /\ Cardinality(Holders) \in Nat /\ Cardinality(Holders') \in Nat
  BY HoldersMoved
<1>2. Held(Stage(t)) \in Int /\ Held(s) \in Int
  BY DEF Held
<1>3. gate + Cardinality(Holders) = MaxFetches /\ gate \in Int
  BY DEF PlacesCounted, Types
<1>4. gate' + Cardinality(Holders') = MaxFetches
  BY <1>1, <1>2, <1>3
<1>5. PlacesCounted'
  BY <1>1, <1>4 DEF PlacesCounted
<1> QED BY <1>1, <1>3, <1>4, <1>5

LEMMA StageFacts ==
  /\ \A s \in {"slot", "gate", "download", "decode", "thumbnail", "dropped"} : s \in Stages
  /\ Took("slot") = 0 /\ Held("slot") = 0
  /\ Took("gate") = 1 /\ Held("gate") = 0
  /\ Took("download") = 1 /\ Held("download") = 1
  /\ Took("decode") = 1 /\ Held("decode") = 1
  /\ Took("thumbnail") = 0 /\ Held("thumbnail") = 0
  /\ Took("dropped") = 0 /\ Held("dropped") = 0
BY DEF Stages, Waiting, Holding, Ended, Took, Held

----------------------------------------------------------------------------
(* The images' own steps.                                                  *)
LEMMA TakeSlotStep ==
  ASSUME FetchInv, NEW c \in Calls, TakeSlot(c)
  PROVE  FetchInv'
<1> USE DEF FetchInv
<1>1. PICK i \in Images : /\ task[c][i] = "slot" /\ slots[c] > 0
                          /\ slots' = [slots EXCEPT ![c] = @ - 1]
                          /\ Goes(<<c, i>>, "gate")
                          /\ gateQueue' = Append(gateQueue, <<c, i>>)
  BY DEF TakeSlot
<1>2. PICK t \in Tasks : t = <<c, i>>
  BY DEF Tasks
<1>3. t[1] = c /\ t[2] = i /\ Stage(t) = "slot" /\ Goes(t, "gate")
  BY <1>1, <1>2 DEF Stage
<1>4. /\ gate' = gate /\ poolQueue' = poolQueue /\ decoding' = decoding
      /\ orphans' = orphans /\ begun' = begun
  BY <1>1 DEF TakeSlot
<1>5. /\ task' \in [Calls -> [Images -> Stages]]
      /\ \A u \in Tasks : task'[u[1]][u[2]] = IF u = t THEN "gate" ELSE task[u[1]][u[2]]
  BY <1>3, StageFacts, GoesEffect
<1>6. SlotsCounted' /\ slots' \in [Calls -> 0 .. Concurrency]
  <2> PICK back \in Int : back = 0 - 1
    OBVIOUS
  <2>1. back = Took(Stage(t)) - Took("gate")
    BY <1>3, StageFacts
  <2>2. slots[c] \in Int /\ slots[c] - 1 = slots[c] + back
    BY DEF Types
  <2>3. slots' = [slots EXCEPT ![t[1]] = slots[t[1]] + back]
    BY <1>1, <1>3, <2>2
  <2>4. slots[t[1]] + back >= 0
    BY <1>1, <1>3, <2>2
  <2> QED BY <1>3, <2>1, <2>3, <2>4, StageFacts, SlotsKeep
<1>7. PlacesCounted'
  BY <1>3, <1>4, StageFacts, PlacesKeep DEF Types
<1>8. PoolSound'
  BY <1>3, <1>4, StageFacts, PoolKeeps
<1>9. /\ gateQueue' \in Seq(Tasks) /\ Len(gateQueue') = Len(gateQueue) + 1
      /\ \A n \in 1 .. Len(gateQueue) : gateQueue'[n] = gateQueue[n]
      /\ gateQueue'[Len(gateQueue) + 1] = t
  BY <1>1, <1>2, AppendProperties DEF Types
<1>10. Len(gateQueue) \in Nat /\ \A n \in 1 .. Len(gateQueue) : gateQueue[n] \in Tasks
  BY ElementOfSeq, LenProperties DEF Types
<1>11. \A n \in 1 .. Len(gateQueue) : gateQueue[n] # t
  BY <1>3 DEF GateQueueSound
<1>12. \A n \in 1 .. Len(gateQueue') : n \in 1 .. Len(gateQueue) \/ n = Len(gateQueue) + 1
  BY <1>9, <1>10
<1>13. \A m, n \in 1 .. Len(gateQueue') : gateQueue'[m] = gateQueue'[n] => m = n
  BY <1>9, <1>11, <1>12 DEF GateQueueSound
<1>14. ASSUME NEW n \in 1 .. Len(gateQueue')
       PROVE  task'[gateQueue'[n][1]][gateQueue'[n][2]] = "gate"
  <2>1. CASE n = Len(gateQueue) + 1
    BY <1>5, <1>9, <2>1
  <2>2. CASE n \in 1 .. Len(gateQueue)
    <3>1. gateQueue'[n] = gateQueue[n] /\ gateQueue[n] \in Tasks /\ Stage(gateQueue[n]) = "gate"
      BY <1>9, <1>10, <2>2 DEF GateQueueSound
    <3> QED BY <1>5, <3>1 DEF Stage
  <2> QED BY <1>12, <2>1, <2>2
<1>15. GateQueueSound'
  BY <1>13, <1>14 DEF GateQueueSound, Stage
<1>16. Types'
  BY <1>4, <1>5, <1>6, <1>9 DEF Types
<1>17. WorkersCounted'
  BY <1>4 DEF WorkersCounted
<1> QED BY <1>6, <1>7, <1>8, <1>15, <1>16, <1>17

LEMMA PassGateStep ==
  ASSUME FetchInv, PassGate
  PROVE  FetchInv'
<1> USE DEF FetchInv
<1>1. gateQueue \in Seq(Tasks) /\ gateQueue # <<>> /\ Len(gateQueue) \in Nat
  BY LenProperties DEF PassGate, Types
<1>2. /\ Head(gateQueue) \in Tasks /\ gateQueue' \in Seq(Tasks)
      /\ Len(gateQueue') = Len(gateQueue) - 1
      /\ \A n \in 1 .. Len(gateQueue') : gateQueue'[n] = gateQueue[n + 1]
  BY <1>1, HeadTailProperties DEF PassGate
<1>3. PICK t \in Tasks : t = Head(gateQueue)
  BY <1>2
<1>4. t = gateQueue[1] /\ 1 \in 1 .. Len(gateQueue)
  BY <1>1, <1>3, EmptySeq
<1>5. /\ Stage(t) = "gate" /\ gate > 0 /\ gate' = gate - 1 /\ Goes(t, "download")
      /\ slots' = slots /\ poolQueue' = poolQueue /\ decoding' = decoding
      /\ orphans' = orphans /\ begun' = begun
  BY <1>3 DEF PassGate
<1>6. /\ task' \in [Calls -> [Images -> Stages]]
      /\ \A u \in Tasks : task'[u[1]][u[2]] = IF u = t THEN "download" ELSE task[u[1]][u[2]]
  BY <1>5, StageFacts, GoesEffect
<1>7. SlotsCounted' /\ slots' \in [Calls -> 0 .. Concurrency]
  <2>1. slots[t[1]] \in 0 .. Concurrency /\ t[1] \in Calls
    BY TaskIsPair DEF Types
  <2> PICK back \in Int : back = 0
    OBVIOUS
  <2>2. slots' = [slots EXCEPT ![t[1]] = slots[t[1]] + back]
    BY <1>5, <2>1 DEF Types
  <2>3. back = Took(Stage(t)) - Took("download") /\ slots[t[1]] + back >= 0
    BY <1>5, <2>1, StageFacts
  <2>4. Types /\ SlotsCounted /\ "download" \in Stages /\ Goes(t, "download")
    BY <1>5, StageFacts
  <2> QED BY <2>2, <2>3, <2>4, SlotsKeep
<1>8. PlacesCounted' /\ gate' \in 0 .. MaxFetches
  <2> PICK back \in Int : back = 0 - 1
    OBVIOUS
  <2>1. back = Held(Stage(t)) - Held("download")
    BY <1>5, StageFacts
  <2>2. gate' = gate + back /\ gate + back >= 0
    BY <1>5 DEF Types
  <2> QED BY <1>5, <2>1, <2>2, StageFacts, PlacesKeep
<1>9. PoolSound'
  BY <1>5, StageFacts, PoolKeeps
<1>10. ASSUME NEW n \in 1 .. Len(gateQueue')
       PROVE  /\ n + 1 \in 1 .. Len(gateQueue) /\ gateQueue'[n] = gateQueue[n + 1]
              /\ task'[gateQueue'[n][1]][gateQueue'[n][2]] = "gate"
  <2>1. n + 1 \in 1 .. Len(gateQueue) /\ n + 1 # 1
    BY <1>1, <1>2
  <2>2. gateQueue[n + 1] # t /\ Stage(gateQueue[n + 1]) = "gate"
    BY <1>4, <2>1 DEF GateQueueSound
  <2>3. gateQueue[n + 1] \in Tasks
    BY <1>1, <2>1, ElementOfSeq
  <2> QED BY <1>2, <1>6, <2>1, <2>2, <2>3 DEF Stage
<1>11. \A m, n \in 1 .. Len(gateQueue') : gateQueue'[m] = gateQueue'[n] => m = n
  <2> SUFFICES ASSUME NEW m \in 1 .. Len(gateQueue'), NEW n \in 1 .. Len(gateQueue'),
                      gateQueue'[m] = gateQueue'[n]
               PROVE  m = n
    OBVIOUS
  <2>1. m + 1 = n + 1
    BY <1>10 DEF GateQueueSound
  <2> QED BY <2>1
<1>12. GateQueueSound'
  BY <1>10, <1>11 DEF GateQueueSound, Stage
<1>13. Types'
  BY <1>2, <1>5, <1>6, <1>7, <1>8 DEF Types
<1>14. WorkersCounted'
  BY <1>5 DEF WorkersCounted
<1> QED BY <1>7, <1>8, <1>9, <1>12, <1>13, <1>14

LEMMA DownloadDroppedStep ==
  ASSUME FetchInv, NEW t \in Tasks, DownloadDropped(t)
  PROVE  FetchInv'
<1> USE DEF FetchInv
<1>1. /\ Stage(t) = "download" /\ Goes(t, "dropped") /\ gate' = gate + 1
      /\ slots' = [slots EXCEPT ![t[1]] = slots[t[1]] + 1]
      /\ gateQueue' = gateQueue /\ poolQueue' = poolQueue /\ decoding' = decoding
      /\ orphans' = orphans /\ begun' = begun
  BY DEF DownloadDropped
<1>2. task' \in [Calls -> [Images -> Stages]]
  BY <1>1, StageFacts, GoesEffect
<1>3. SlotsCounted' /\ slots' \in [Calls -> 0 .. Concurrency]
  <2> PICK back \in Int : back = 1
    OBVIOUS
  <2>1. slots[t[1]] + back >= 0
    BY TaskIsPair DEF Types
  <2>2. slots' = [slots EXCEPT ![t[1]] = slots[t[1]] + back]
    BY <1>1
  <2>3. back = Took(Stage(t)) - Took("dropped")
    BY <1>1, StageFacts
  <2> QED BY <1>1, <2>1, <2>2, <2>3, StageFacts, SlotsKeep
<1>4. PlacesCounted' /\ gate' \in 0 .. MaxFetches
  BY <1>1, StageFacts, PlacesKeep DEF Types
<1>5. PoolSound'
  BY <1>1, StageFacts, PoolKeeps
<1>6. GateQueueSound'
  BY <1>1, StageFacts, GateQueueKeeps
<1>7. Types'
  BY <1>1, <1>2, <1>3, <1>4 DEF Types
<1>8. WorkersCounted'
  BY <1>1 DEF WorkersCounted
<1> QED BY <1>3, <1>4, <1>5, <1>6, <1>7, <1>8

(* The pool's queue, whose items are images or nobody's.                   *)
LEMMA PoolItems ==
  ASSUME Types
  PROVE  /\ Len(poolQueue) \in Nat /\ Nobody \notin Tasks
         /\ \A n \in 1 .. Len(poolQueue) : poolQueue[n] \in Tasks \/ poolQueue[n] = Nobody
<1>1. Len(poolQueue) \in Nat
  BY LenProperties DEF Types
<1>2. Nobody \notin Tasks
  BY ThumbnailsAssumption DEF Tasks, Images
<1>3. \A n \in 1 .. Len(poolQueue) : poolQueue[n] \in Tasks \/ poolQueue[n] = Nobody
  BY ElementOfSeq DEF Types
<1> QED BY <1>1, <1>2, <1>3

LEMMA DownloadDoneStep ==
  ASSUME FetchInv, NEW t \in Tasks, DownloadDone(t)
  PROVE  FetchInv'
<1> USE DEF FetchInv
<1>1. /\ Stage(t) = "download" /\ Goes(t, "decode") /\ poolQueue' = Append(poolQueue, t)
      /\ slots' = slots /\ gate' = gate /\ gateQueue' = gateQueue /\ decoding' = decoding
      /\ orphans' = orphans /\ begun' = begun
  BY DEF DownloadDone
<1>2. /\ task' \in [Calls -> [Images -> Stages]]
      /\ \A u \in Tasks : task'[u[1]][u[2]] = IF u = t THEN "decode" ELSE task[u[1]][u[2]]
  BY <1>1, StageFacts, GoesEffect
<1>3. SlotsCounted' /\ slots' \in [Calls -> 0 .. Concurrency]
  <2> PICK back \in Int : back = 0
    OBVIOUS
  <2>1. slots[t[1]] \in 0 .. Concurrency /\ t[1] \in Calls
    BY TaskIsPair DEF Types
  <2>2. slots' = [slots EXCEPT ![t[1]] = slots[t[1]] + back]
    BY <1>1, <2>1 DEF Types
  <2>3. back = Took(Stage(t)) - Took("decode") /\ slots[t[1]] + back >= 0
    BY <1>1, <2>1, StageFacts
  <2>4. Types /\ SlotsCounted /\ "decode" \in Stages /\ Goes(t, "decode")
    BY <1>1, StageFacts
  <2> QED BY <2>2, <2>3, <2>4, SlotsKeep
<1>4. PlacesCounted' /\ gate' \in 0 .. MaxFetches
  <2> PICK back \in Int : back = 0
    OBVIOUS
  <2>1. back = Held(Stage(t)) - Held("decode")
    BY <1>1, StageFacts
  <2>2. gate' = gate + back /\ gate + back >= 0
    BY <1>1 DEF Types
  <2>3. "decode" \in Stages
    BY StageFacts
  <2> QED BY <1>1, <2>1, <2>2, <2>3, PlacesKeep
<1>5. GateQueueSound'
  BY <1>1, StageFacts, GateQueueKeeps
<1>6. /\ poolQueue' \in Seq(Tasks \cup {Nobody}) /\ Len(poolQueue') = Len(poolQueue) + 1
      /\ \A n \in 1 .. Len(poolQueue) : poolQueue'[n] = poolQueue[n]
      /\ poolQueue'[Len(poolQueue) + 1] = t
  BY <1>1, AppendProperties DEF Types
<1>7. \A n \in 1 .. Len(poolQueue') : n \in 1 .. Len(poolQueue) \/ n = Len(poolQueue) + 1
  BY <1>6, PoolItems
<1>8. t \notin decoding /\ t # Nobody /\ \A n \in 1 .. Len(poolQueue) : poolQueue[n] # t
  BY <1>1, PoolItems DEF PoolSound
<1>9. ASSUME NEW n \in 1 .. Len(poolQueue'), poolQueue'[n] # Nobody
      PROVE  /\ task'[poolQueue'[n][1]][poolQueue'[n][2]] = "decode"
             /\ poolQueue'[n] \notin decoding'
  <2>1. CASE n = Len(poolQueue) + 1
    BY <1>1, <1>2, <1>6, <1>8, <2>1
  <2>2. CASE n \in 1 .. Len(poolQueue)
    <3>1. /\ poolQueue'[n] = poolQueue[n] /\ poolQueue[n] \in Tasks
          /\ Stage(poolQueue[n]) = "decode" /\ poolQueue[n] \notin decoding
      BY <1>6, <1>9, <2>2, PoolItems DEF PoolSound
    <3> QED BY <1>1, <1>2, <3>1 DEF Stage
  <2> QED BY <1>7, <2>1, <2>2
<1>10. \A m, n \in 1 .. Len(poolQueue') :
         poolQueue'[m] = poolQueue'[n] /\ poolQueue'[m] # Nobody => m = n
  BY <1>6, <1>7, <1>8 DEF PoolSound
<1>11. \A u \in decoding' : task'[u[1]][u[2]] = "decode"
  BY <1>1, <1>2 DEF PoolSound, Stage, Types
<1>12. ASSUME NEW u \in Tasks, task'[u[1]][u[2]] = "decode"
       PROVE  u \in decoding' \/ \E n \in 1 .. Len(poolQueue') : poolQueue'[n] = u
  <2>1. CASE u = t
    <3>1. Len(poolQueue) + 1 \in 1 .. Len(poolQueue')
      BY <1>6, PoolItems
    <3> QED BY <1>6, <2>1, <3>1
  <2>2. CASE u # t
    <3>1. Stage(u) = "decode"
      BY <1>2, <1>12, <2>2 DEF Stage
    <3>2. u \in decoding \/ \E n \in 1 .. Len(poolQueue) : poolQueue[n] = u
      BY <3>1 DEF PoolSound
    <3>3. 1 .. Len(poolQueue) \subseteq 1 .. Len(poolQueue')
      BY <1>6, PoolItems
    <3> QED BY <1>1, <1>6, <3>2, <3>3
  <2> QED BY <2>1, <2>2
<1>13. PoolSound'
  BY <1>9, <1>10, <1>11, <1>12 DEF PoolSound, Stage
<1>14. Types'
  BY <1>1, <1>2, <1>3, <1>4, <1>6 DEF Types
<1>15. WorkersCounted'
  BY <1>1 DEF WorkersCounted
<1> QED BY <1>3, <1>4, <1>5, <1>13, <1>14, <1>15

LEMMA StartDecodeStep ==
  ASSUME FetchInv, StartDecode
  PROVE  FetchInv'
<1> USE DEF FetchInv
<1>1. /\ poolQueue # <<>> /\ Cardinality(decoding) + orphans < Workers
      /\ poolQueue' = Tail(poolQueue)
      /\ task' = task /\ slots' = slots /\ gate' = gate /\ gateQueue' = gateQueue
      /\ orphans' = orphans /\ begun' = begun
  BY DEF StartDecode, WorkerFree
<1>2. poolQueue \in Seq(Tasks \cup {Nobody})
  BY DEF Types
<1>3. PICK first \in Tasks \cup {Nobody} : first = Head(poolQueue)
  BY <1>1, <1>2, HeadTailProperties
<1>4. /\ poolQueue' \in Seq(Tasks \cup {Nobody}) /\ Len(poolQueue') = Len(poolQueue) - 1
      /\ \A n \in 1 .. Len(poolQueue') : poolQueue'[n] = poolQueue[n + 1]
  BY <1>1, <1>2, HeadTailProperties
<1>5. first = poolQueue[1] /\ 1 \in 1 .. Len(poolQueue)
  BY <1>1, <1>2, <1>3, PoolItems, EmptySeq
<1>6. decoding' = decoding \cup ({first} \ {Nobody})
  BY <1>3 DEF StartDecode
<1>7. ASSUME NEW n \in 1 .. Len(poolQueue')
      PROVE  n + 1 \in 1 .. Len(poolQueue) /\ n + 1 # 1 /\ poolQueue'[n] = poolQueue[n + 1]
  BY <1>4, PoolItems
<1>8. first # Nobody => first \in Tasks /\ first \notin decoding /\ Stage(first) = "decode"
  BY <1>5 DEF PoolSound
<1>9. ASSUME NEW n \in 1 .. Len(poolQueue'), poolQueue'[n] # Nobody
      PROVE  Stage(poolQueue'[n]) = "decode" /\ poolQueue'[n] \notin decoding'
  <2>1. n + 1 \in 1 .. Len(poolQueue) /\ n + 1 # 1 /\ poolQueue'[n] = poolQueue[n + 1]
    BY <1>7
  <2>2. poolQueue[n + 1] # first
    BY <1>5, <1>9, <2>1 DEF PoolSound
  <2> QED BY <1>6, <1>9, <2>1, <2>2 DEF PoolSound
<1>10. ASSUME NEW m \in 1 .. Len(poolQueue'), NEW n \in 1 .. Len(poolQueue'),
              poolQueue'[m] = poolQueue'[n], poolQueue'[m] # Nobody
       PROVE  m = n
  <2>1. m + 1 = n + 1
    BY <1>7, <1>10 DEF PoolSound
  <2> QED BY <2>1
<1>11. \A u \in decoding' : Stage(u) = "decode"
  BY <1>6, <1>8 DEF PoolSound
<1>12. ASSUME NEW u \in Tasks, Stage(u) = "decode", u \notin decoding'
       PROVE  \E n \in 1 .. Len(poolQueue') : poolQueue'[n] = u
  <2>1. PICK n \in 1 .. Len(poolQueue) : poolQueue[n] = u
    BY <1>6, <1>12 DEF PoolSound
  <2>2. n # 1
    BY <1>5, <1>6, <1>12, <2>1, PoolItems
  <2>3. n - 1 \in 1 .. Len(poolQueue') /\ (n - 1) + 1 = n
    BY <1>4, <2>2, PoolItems
  <2> QED BY <1>4, <2>1, <2>3
<1>13. PoolSound'
  BY <1>1, <1>9, <1>10, <1>11, <1>12 DEF PoolSound, Stage
<1>14. WorkersCounted'
  <2>1. IsFiniteSet(decoding) /\ Cardinality(decoding) \in Nat /\ orphans \in Nat
    BY FS_CardinalityType DEF WorkersCounted, Types
  <2>2. CASE first = Nobody
    <3>1. decoding' = decoding
      BY <1>6, <2>2
    <3> QED BY <1>1, <3>1 DEF WorkersCounted
  <2>3. CASE first # Nobody
    <3>1. decoding' = decoding \cup {first}
      BY <1>6, <2>3
    <3>2. IsFiniteSet(decoding') /\ Cardinality(decoding') = Cardinality(decoding) + 1
      BY <1>8, <2>1, <2>3, <3>1, FS_AddElement
    <3> QED BY <1>1, <2>1, <3>2, ThumbnailsAssumption DEF WorkersCounted
  <2> QED BY <2>2, <2>3
<1>15. Types'
  BY <1>1, <1>4, <1>6, <1>8 DEF Types
<1>16. GateQueueSound' /\ PlacesCounted' /\ SlotsCounted'
  BY <1>1 DEF GateQueueSound, PlacesCounted, SlotsCounted, Holders, SlotsTaken, Stage
<1> QED BY <1>13, <1>14, <1>15, <1>16

LEMMA EndDecodeStep ==
  ASSUME FetchInv, NEW t \in Tasks, EndDecode(t)
  PROVE  FetchInv'
<1> USE DEF FetchInv
<1>1. PICK s \in {"thumbnail", "dropped"} : Goes(t, s)
  BY DEF EndDecode
<1>2. /\ t \in decoding /\ decoding' = decoding \ {t} /\ gate' = gate + 1
      /\ slots' = [slots EXCEPT ![t[1]] = slots[t[1]] + 1]
      /\ gateQueue' = gateQueue /\ poolQueue' = poolQueue
      /\ orphans' = orphans /\ begun' = begun
  BY DEF EndDecode
<1>3. Stage(t) = "decode" /\ s \in Stages /\ Took(s) = 0 /\ Held(s) = 0 /\ s # "decode"
  BY <1>1, <1>2, StageFacts DEF PoolSound
<1>4. /\ task' \in [Calls -> [Images -> Stages]]
      /\ \A u \in Tasks : task'[u[1]][u[2]] = IF u = t THEN s ELSE task[u[1]][u[2]]
  BY <1>1, <1>3, GoesEffect
<1>5. SlotsCounted' /\ slots' \in [Calls -> 0 .. Concurrency]
  <2> PICK back \in Int : back = 1
    OBVIOUS
  <2>1. slots[t[1]] + back >= 0
    BY TaskIsPair DEF Types
  <2>2. slots' = [slots EXCEPT ![t[1]] = slots[t[1]] + back]
    BY <1>2
  <2>3. back = Took(Stage(t)) - Took(s)
    BY <1>3, StageFacts
  <2> QED BY <1>1, <1>3, <2>1, <2>2, <2>3, SlotsKeep
<1>6. PlacesCounted' /\ gate' \in 0 .. MaxFetches
  <2> PICK back \in Int : back = 1
    OBVIOUS
  <2>1. back = Held(Stage(t)) - Held(s)
    BY <1>3, StageFacts
  <2>2. gate' = gate + back /\ gate + back >= 0
    BY <1>2 DEF Types
  <2> QED BY <1>1, <1>3, <2>1, <2>2, PlacesKeep
<1>7. GateQueueSound'
  BY <1>1, <1>2, <1>3, GateQueueKeeps
<1>8. ASSUME NEW n \in 1 .. Len(poolQueue), poolQueue[n] # Nobody
      PROVE  /\ task'[poolQueue[n][1]][poolQueue[n][2]] = "decode"
             /\ poolQueue[n] \notin decoding'
  <2>1. poolQueue[n] \in Tasks /\ Stage(poolQueue[n]) = "decode" /\ poolQueue[n] \notin decoding
    BY <1>8, PoolItems DEF PoolSound
  <2> QED BY <1>2, <1>4, <2>1 DEF Stage
<1>9. \A u \in decoding' : task'[u[1]][u[2]] = "decode"
  BY <1>2, <1>4 DEF PoolSound, Stage, Types
<1>10. \A u \in Tasks : task'[u[1]][u[2]] = "decode" =>
         u \in decoding' \/ \E n \in 1 .. Len(poolQueue) : poolQueue[n] = u
  BY <1>2, <1>3, <1>4 DEF PoolSound, Stage
<1>11. PoolSound'
  BY <1>2, <1>8, <1>9, <1>10 DEF PoolSound, Stage
<1>12. Types'
  BY <1>2, <1>4, <1>5, <1>6 DEF Types
<1>13. WorkersCounted'
  <2>1. IsFiniteSet(decoding) /\ Cardinality(decoding) \in Nat /\ orphans \in Nat
    BY FS_CardinalityType DEF WorkersCounted, Types
  <2>2. IsFiniteSet(decoding') /\ Cardinality(decoding') = Cardinality(decoding) - 1
    BY <1>2, <2>1, FS_RemoveElement
  <2> QED BY <1>2, <2>1, <2>2, ThumbnailsAssumption DEF WorkersCounted
<1> QED BY <1>5, <1>6, <1>7, <1>11, <1>12, <1>13

LEMMA EndOrphanStep ==
  ASSUME FetchInv, EndOrphan
  PROVE  FetchInv'
<1> USE DEF FetchInv
<1>1. WorkersCounted' /\ orphans' \in Nat
  <2>1. Cardinality(decoding) \in Nat /\ orphans \in Nat
    BY FS_CardinalityType DEF WorkersCounted, Types
  <2> QED BY <2>1, ThumbnailsAssumption DEF WorkersCounted, EndOrphan
<1>2. Types' /\ GateQueueSound' /\ PoolSound' /\ PlacesCounted' /\ SlotsCounted'
  BY <1>1 DEF Types, GateQueueSound, PoolSound, PlacesCounted, SlotsCounted, Holders,
              SlotsTaken, Stage, EndOrphan
<1> QED BY <1>1, <1>2

----------------------------------------------------------------------------
(* Steps of a whole batch: none of its images is inside slot or gate       *)
(* afterwards, and other batches do not change.                            *)
OnlyOf(c) ==
  /\ task' \in [Calls -> [Images -> Stages]]
  /\ \A d \in Calls : d # c => task'[d] = task[d]
  /\ \A i \in Images : task'[c][i] \notin Waiting \cup Holding \/ task'[c][i] = "slot"

LEMMA HeldPairs ==
  ASSUME NEW c \in Calls
  PROVE  /\ IsFiniteSet({t \in Holders : t[1] = c})
         /\ Cardinality({t \in Holders : t[1] = c}) = HeldBy(c)
<1> DEFINE S == {i \in Images : task[c][i] \in Holding}
           T == {t \in Holders : t[1] = c}
           f == [i \in S |-> <<c, i>>]
<1>1. \A i \in S : <<c, i>> \in T
  BY DEF Holders, Tasks, Stage
<1>2. \A t \in T : t[2] \in S /\ t = <<c, t[2]>>
  BY TaskIsPair DEF Holders, Stage
<1>3. f \in Bijection(S, T)
  <2>1. f \in [S -> T]
    BY <1>1
  <2>2. \A i, j \in S : f[i] = f[j] => i = j
    OBVIOUS
  <2>3. \A t \in T : \E i \in S : f[i] = t
    BY <1>2
  <2> HIDE DEF S, T, f
  <2> QED BY <2>1, <2>2, <2>3 DEF Bijection, Injection, Surjection, IsInjective
<1>4. IsFiniteSet(S)
  BY ImagesFinite
<1>5. ExistsBijection(S, T)
  BY <1>3 DEF ExistsBijection
<1>6. IsFiniteSet(T) /\ Cardinality(T) = Cardinality(S)
  BY <1>4, <1>5, FS_Bijection
<1> QED BY <1>6 DEF HeldBy

LEMMA BatchCounts ==
  ASSUME FetchInv, NEW c \in Calls, OnlyOf(c),
         slots' = [slots EXCEPT ![c] = Concurrency], gate' = gate + HeldBy(c)
  PROVE  /\ SlotsCounted' /\ slots' \in [Calls -> 0 .. Concurrency]
         /\ PlacesCounted' /\ gate' \in 0 .. MaxFetches
<1> USE DEF FetchInv
<1> USE ThumbnailsAssumption
<1>1. slots' \in [Calls -> 0 .. Concurrency]
  BY DEF Types
<1>2. ASSUME NEW d \in Calls
      PROVE  slots'[d] + SlotsTaken(d)' = Concurrency
  <2>1. CASE d = c
    <3> DEFINE taken == {i \in Images : task'[c][i] \in Holding \cup {"gate"}}
    <3>1. taken = {}
      BY DEF OnlyOf, Waiting, Holding
    <3>2. Cardinality(taken) = 0
      BY <3>1, FS_EmptySet
    <3>3. SlotsTaken(d)' = Cardinality(taken)
      BY <2>1 DEF SlotsTaken
    <3>4. slots'[d] = Concurrency
      BY <2>1 DEF Types
    <3> QED BY <3>2, <3>3, <3>4
  <2>2. CASE d # c
    <3>1. SlotsTaken(d)' = SlotsTaken(d)
      BY <2>2 DEF OnlyOf, SlotsTaken
    <3>2. slots'[d] = slots[d]
      BY <2>2 DEF Types
    <3> QED BY <3>1, <3>2 DEF SlotsCounted
  <2> QED BY <2>1, <2>2
<1>3. SlotsCounted'
  BY <1>2 DEF SlotsCounted
<1> DEFINE mine == {t \in Holders : t[1] = c}
<1>4. IsFiniteSet(mine) /\ Cardinality(mine) = HeldBy(c) /\ HeldBy(c) \in Nat
  BY HeldPairs, SlotsTakenType
<1>5. Holders' = Holders \ mine
  <2>1. ASSUME NEW t \in Tasks
        PROVE  task'[t[1]][t[2]] \in Holding <=> task[t[1]][t[2]] \in Holding /\ t[1] # c
    BY TaskIsPair DEF OnlyOf, Waiting, Holding
  <2>2. Holders' = {t \in Tasks : task'[t[1]][t[2]] \in Holding}
    BY DEF Holders, Stage
  <2>3. Holders = {t \in Tasks : task[t[1]][t[2]] \in Holding}
    BY DEF Holders, Stage
  <2> QED BY <2>1, <2>2, <2>3
<1>6. Holders \cap mine = mine
  OBVIOUS
<1> HIDE DEF mine
<1>7. IsFiniteSet(Holders) /\ Cardinality(Holders) \in Nat /\ gate + Cardinality(Holders) = MaxFetches
  BY FS_CardinalityType DEF PlacesCounted
<1>8. /\ IsFiniteSet(Holders')
      /\ Cardinality(Holders') = Cardinality(Holders) - HeldBy(c)
  BY <1>4, <1>5, <1>6, <1>7, FS_Difference
<1>9. Cardinality(Holders') \in Nat
  BY <1>8, FS_CardinalityType
<1>10. gate \in Nat
  BY DEF Types
<1>11. gate' + Cardinality(Holders') = MaxFetches /\ gate' \in 0 .. MaxFetches
  BY <1>4, <1>7, <1>8, <1>9, <1>10
<1>12. PlacesCounted'
  BY <1>8, <1>11 DEF PlacesCounted
<1> QED BY <1>1, <1>3, <1>11, <1>12

LEMMA BatchQuiet ==
  ASSUME FetchInv, NEW c \in Calls, OnlyOf(c),
         \A i \in Images : task[c][i] \notin {"gate", "decode"},
         gateQueue' = gateQueue, poolQueue' = poolQueue, decoding' = decoding
  PROVE  GateQueueSound' /\ PoolSound'
<1> USE DEF FetchInv
<1>1. ASSUME NEW t \in Tasks
      PROVE  /\ Stage(t) = "gate" <=> task'[t[1]][t[2]] = "gate"
             /\ Stage(t) = "decode" <=> task'[t[1]][t[2]] = "decode"
  BY TaskIsPair DEF OnlyOf, Stage, Waiting, Holding
<1>2. \A n \in 1 .. Len(gateQueue) : gateQueue[n] \in Tasks
  BY ElementOfSeq DEF Types
<1>3. GateQueueSound'
  BY <1>1, <1>2 DEF GateQueueSound, Stage
<1>4. ASSUME NEW n \in 1 .. Len(poolQueue), poolQueue[n] # Nobody
      PROVE  /\ task'[poolQueue[n][1]][poolQueue[n][2]] = "decode"
             /\ poolQueue[n] \notin decoding
  BY <1>1, <1>4, PoolItems DEF PoolSound
<1>5. \A u \in decoding : task'[u[1]][u[2]] = "decode"
  BY <1>1 DEF PoolSound, Types
<1>6. \A u \in Tasks : task'[u[1]][u[2]] = "decode" =>
        u \in decoding \/ \E n \in 1 .. Len(poolQueue) : poolQueue[n] = u
  BY <1>1 DEF PoolSound
<1>7. PoolSound'
  BY <1>4, <1>5, <1>6 DEF PoolSound, Stage
<1> QED BY <1>3, <1>7

LEMMA NoneHeld ==
  ASSUME NEW c \in Calls, \A i \in Images : task[c][i] \notin Holding \cup {"gate"}
  PROVE  HeldBy(c) = 0 /\ SlotsTaken(c) = 0
<1>1. {i \in Images : task[c][i] \in Holding} = {}
  OBVIOUS
<1>2. {i \in Images : task[c][i] \in Holding \cup {"gate"}} = {}
  OBVIOUS
<1> QED BY <1>1, <1>2, FS_EmptySet DEF HeldBy, SlotsTaken

LEMMA BeginStep ==
  ASSUME FetchInv, NEW c \in Calls, NEW wanted \in Images, Begin(c, wanted)
  PROVE  FetchInv'
<1> USE DEF FetchInv
<1>1. /\ task' = [task EXCEPT ![c] = [i \in Images |-> IF i <= wanted THEN "slot" ELSE "none"]]
      /\ slots' = [slots EXCEPT ![c] = Concurrency] /\ begun' = begun + 1 /\ begun < MaxBatches
      /\ gate' = gate /\ gateQueue' = gateQueue /\ poolQueue' = poolQueue
      /\ decoding' = decoding /\ orphans' = orphans
  BY DEF Begin
<1>2. \A i \in Images : task[c][i] = "none"
  BY DEF Begin, Running
<1>3. HeldBy(c) = 0
  BY <1>2, NoneHeld DEF Holding
<1>4. OnlyOf(c)
  BY <1>1 DEF OnlyOf, Types, Stages, Waiting, Holding
<1>5. gate' = gate + HeldBy(c)
  BY <1>1, <1>3 DEF Types
<1>6. /\ SlotsCounted' /\ slots' \in [Calls -> 0 .. Concurrency]
      /\ PlacesCounted' /\ gate' \in 0 .. MaxFetches
  BY <1>1, <1>4, <1>5, BatchCounts
<1>7. GateQueueSound' /\ PoolSound'
  BY <1>1, <1>2, <1>4, BatchQuiet
<1>8. begun' \in 0 .. MaxBatches
  BY <1>1, ThumbnailsAssumption DEF Types
<1>9. Types'
  BY <1>1, <1>4, <1>6, <1>8 DEF Types, OnlyOf
<1>10. WorkersCounted'
  BY <1>1 DEF WorkersCounted
<1> QED BY <1>6, <1>7, <1>9, <1>10

LEMMA ReturnStep ==
  ASSUME FetchInv, NEW c \in Calls, Return(c)
  PROVE  FetchInv'
<1> USE DEF FetchInv
<1>1. /\ task' = [task EXCEPT ![c] = [i \in Images |-> "none"]]
      /\ slots' = slots /\ begun' = begun
      /\ gate' = gate /\ gateQueue' = gateQueue /\ poolQueue' = poolQueue
      /\ decoding' = decoding /\ orphans' = orphans
  BY DEF Return
<1>2. \A i \in Images : task[c][i] \notin Waiting \cup Holding
  BY DEF Return, Unfinished
<1>3. HeldBy(c) = 0 /\ SlotsTaken(c) = 0
  BY <1>2, NoneHeld DEF Waiting
<1>4. OnlyOf(c)
  BY <1>1 DEF OnlyOf, Types, Stages, Waiting, Holding, Ended
<1>5. gate' = gate + HeldBy(c)
  BY <1>1, <1>3 DEF Types
<1>6. slots[c] = Concurrency
  BY <1>3 DEF SlotsCounted, Types
<1>7. slots' = [slots EXCEPT ![c] = Concurrency]
  BY <1>1, <1>6 DEF Types
<1>8. /\ SlotsCounted' /\ slots' \in [Calls -> 0 .. Concurrency]
      /\ PlacesCounted' /\ gate' \in 0 .. MaxFetches
  BY <1>4, <1>5, <1>7, BatchCounts
<1>9. GateQueueSound' /\ PoolSound'
  BY <1>1, <1>2, <1>4, BatchQuiet DEF Waiting, Holding
<1>10. Types'
  BY <1>1, <1>4, <1>8 DEF Types, OnlyOf
<1>11. WorkersCounted'
  BY <1>1 DEF WorkersCounted
<1> QED BY <1>8, <1>9, <1>10, <1>11

(* An abandoned batch leaves the gate's queue; the others keep their order.*)
LEMMA AbandonGateQueue ==
  ASSUME FetchInv, NEW c \in Calls, OnlyOf(c), GateQueueLeft(c)
  PROVE  GateQueueSound' /\ gateQueue' \in Seq(Tasks)
<1> USE DEF FetchInv
<1> DEFINE K == WaitersBut(c)
           k == Cardinality(K)
<1>1. /\ Len(gateQueue) \in Nat /\ DOMAIN gateQueue = 1 .. Len(gateQueue)
      /\ \A n \in 1 .. Len(gateQueue) : gateQueue[n] \in Tasks
  BY ElementOfSeq, LenProperties DEF Types
<1>2. K \in SUBSET (1 .. Len(gateQueue)) /\ \A n \in K : gateQueue[n][1] # c
  BY <1>1 DEF WaitersBut
<1>3. k \in Nat
  <2>1. IsFiniteSet(1 .. Len(gateQueue))
    BY <1>1, FS_Interval
  <2>2. IsFiniteSet(K)
    BY <1>2, <2>1, FS_Subset
  <2> QED BY <2>2, FS_CardinalityType
<1>4. PICK place \in [1 .. k -> K] :
        /\ \A m, n \in DOMAIN place : m < n => place[m] < place[n]
        /\ gateQueue' = [n \in DOMAIN place |-> gateQueue[place[n]]]
  BY DEF GateQueueLeft
<1> HIDE DEF k
<1>5. /\ gateQueue' = [n \in 1 .. k |-> gateQueue[place[n]]]
      /\ \A n \in 1 .. k : place[n] \in K
      /\ \A m, n \in 1 .. k : m < n => place[m] < place[n]
  BY <1>4
<1>6. \A n \in 1 .. k : place[n] \in 1 .. Len(gateQueue) /\ gateQueue[place[n]][1] # c
  BY <1>2, <1>5
<1> HIDE DEF K
<1>7. \A n \in 1 .. k : gateQueue'[n] = gateQueue[place[n]] /\ gateQueue'[n] \in Tasks
  BY <1>1, <1>5, <1>6
<1>8. gateQueue' \in [1 .. k -> Tasks]
  BY <1>1, <1>5, <1>6
<1>9. gateQueue' \in Seq(Tasks) /\ Len(gateQueue') = k
  BY <1>3, <1>8, SeqDef, LenProperties
<1>10. ASSUME NEW m \in 1 .. k, NEW n \in 1 .. k, gateQueue'[m] = gateQueue'[n]
       PROVE  m = n
  <2>1. place[m] \in 1 .. Len(gateQueue) /\ place[n] \in 1 .. Len(gateQueue)
    BY <1>6
  <2>2. gateQueue[place[m]] = gateQueue[place[n]]
    BY <1>7, <1>10
  <2>3. place[m] = place[n]
    BY <2>1, <2>2 DEF GateQueueSound
  <2>4. ~(m < n) /\ ~(n < m)
    BY <1>5, <2>1, <2>3
  <2> QED BY <1>3, <2>4
<1>11. ASSUME NEW n \in 1 .. k
       PROVE  task'[gateQueue'[n][1]][gateQueue'[n][2]] = "gate"
  <2>1. PICK t \in Tasks : t = gateQueue'[n]
    BY <1>7
  <2>2. t[1] # c /\ Stage(t) = "gate"
    BY <1>6, <1>7, <2>1 DEF GateQueueSound
  <2>3. task'[t[1]] = task[t[1]]
    BY <2>2, TaskIsPair DEF OnlyOf
  <2> QED BY <2>1, <2>2, <2>3 DEF Stage
<1>12. GateQueueSound'
  BY <1>9, <1>10, <1>11 DEF GateQueueSound, Stage
<1> QED BY <1>9, <1>12

(* Its bodies are nobody's, in the queue and in the threads.               *)
LEMMA AbandonPool ==
  ASSUME FetchInv, NEW c \in Calls, OnlyOf(c), Abandon(c),
         \A i \in Images : task'[c][i] \notin Waiting \cup Holding
  PROVE  PoolSound' /\ poolQueue' \in Seq(Tasks \cup {Nobody}) /\ decoding' \in SUBSET Tasks
<1> USE DEF FetchInv
<1>1. /\ Len(poolQueue) \in Nat /\ DOMAIN poolQueue = 1 .. Len(poolQueue)
      /\ \A n \in 1 .. Len(poolQueue) : poolQueue[n] \in Tasks \/ poolQueue[n] = Nobody
  BY PoolItems, LenProperties DEF Types
<1>2. poolQueue' = [n \in 1 .. Len(poolQueue) |->
        IF poolQueue[n] # Nobody /\ poolQueue[n] \in {c} \X Images THEN Nobody ELSE poolQueue[n]]
  BY <1>1 DEF Abandon
<1>3. decoding' = {t \in decoding : t[1] # c}
  BY DEF Abandon
<1>4. poolQueue' \in [1 .. Len(poolQueue) -> Tasks \cup {Nobody}]
  BY <1>1, <1>2
<1>5. poolQueue' \in Seq(Tasks \cup {Nobody}) /\ Len(poolQueue') = Len(poolQueue)
  BY <1>1, <1>4, SeqDef, LenProperties
<1>6. ASSUME NEW n \in 1 .. Len(poolQueue), poolQueue'[n] # Nobody
      PROVE  /\ poolQueue'[n] = poolQueue[n] /\ poolQueue[n] \in Tasks /\ poolQueue[n][1] # c
             /\ Stage(poolQueue[n]) = "decode" /\ poolQueue[n] \notin decoding
  <2>1. poolQueue'[n] = poolQueue[n] /\ ~(poolQueue[n] \in {c} \X Images) /\ poolQueue[n] \in Tasks
    BY <1>1, <1>2, <1>6
  <2>2. poolQueue[n][1] # c
    BY <2>1 DEF Tasks
  <2> QED BY <1>6, <2>1, <2>2 DEF PoolSound
<1>7. ASSUME NEW t \in Tasks, t[1] # c
      PROVE  task'[t[1]][t[2]] = task[t[1]][t[2]]
  BY <1>7, TaskIsPair DEF OnlyOf
<1>8. ASSUME NEW n \in 1 .. Len(poolQueue), poolQueue'[n] # Nobody
      PROVE  /\ task'[poolQueue'[n][1]][poolQueue'[n][2]] = "decode"
             /\ poolQueue'[n] \notin decoding'
  <2>1. PICK t \in Tasks : t = poolQueue[n] /\ t = poolQueue'[n]
    BY <1>6, <1>8
  <2>2. t[1] # c /\ Stage(t) = "decode" /\ t \notin decoding
    BY <1>6, <1>8, <2>1
  <2> QED BY <1>3, <1>7, <2>1, <2>2 DEF Stage
<1>9. ASSUME NEW m \in 1 .. Len(poolQueue), NEW n \in 1 .. Len(poolQueue),
             poolQueue'[m] = poolQueue'[n], poolQueue'[m] # Nobody
      PROVE  m = n
  <2>1. poolQueue[m] = poolQueue[n] /\ poolQueue[m] # Nobody
    BY <1>6, <1>9
  <2> QED BY <2>1 DEF PoolSound
<1>10. \A t \in decoding' : task'[t[1]][t[2]] = "decode"
  BY <1>3, <1>7 DEF PoolSound, Stage, Types
<1>11. ASSUME NEW t \in Tasks, task'[t[1]][t[2]] = "decode"
       PROVE  t \in decoding' \/ \E n \in 1 .. Len(poolQueue) : poolQueue'[n] = t
  <2>1. t[1] # c
    BY <1>11, TaskIsPair DEF Holding
  <2>2. t \in decoding \/ \E n \in 1 .. Len(poolQueue) : poolQueue[n] = t
    BY <1>7, <1>11, <2>1 DEF PoolSound, Stage
  <2>3. t \notin {c} \X Images
    BY <2>1
  <2> QED BY <1>2, <1>3, <2>1, <2>2, <2>3
<1>12. PoolSound'
  BY <1>5, <1>8, <1>9, <1>10, <1>11 DEF PoolSound, Stage
<1> QED BY <1>3, <1>5, <1>12 DEF Types

LEMMA AbandonStep ==
  ASSUME FetchInv, NEW c \in Calls, Abandon(c),
         task' \in [Calls -> [Images -> Stages]],
         \A d \in Calls : d # c => task'[d] = task[d],
         \A i \in Images : task'[c][i] \notin Waiting \cup Holding
  PROVE  FetchInv'
<1> USE DEF FetchInv
<1>1. OnlyOf(c)
  BY DEF OnlyOf
<1>2. /\ slots' = [slots EXCEPT ![c] = slots[c] + SlotsTaken(c)]
      /\ gate' = gate + HeldBy(c) /\ GateQueueLeft(c)
      /\ decoding' = {t \in decoding : t[1] # c}
      /\ orphans' = orphans + Cardinality({t \in decoding : t[1] = c})
      /\ begun' = begun
  BY DEF Abandon, GateGivenBack
<1>3. slots[c] + SlotsTaken(c) = Concurrency
  BY DEF SlotsCounted
<1>4. slots' = [slots EXCEPT ![c] = Concurrency]
  BY <1>2, <1>3
<1>5. /\ SlotsCounted' /\ slots' \in [Calls -> 0 .. Concurrency]
      /\ PlacesCounted' /\ gate' \in 0 .. MaxFetches
  BY <1>1, <1>2, <1>4, BatchCounts
<1>6. GateQueueSound' /\ gateQueue' \in Seq(Tasks)
  BY <1>1, <1>2, AbandonGateQueue
<1>7. PoolSound' /\ poolQueue' \in Seq(Tasks \cup {Nobody}) /\ decoding' \in SUBSET Tasks
  BY <1>1, AbandonPool
<1>8. WorkersCounted' /\ orphans' \in Nat
  <2> DEFINE mine == {t \in decoding : t[1] = c}
  <2>1. decoding' = decoding \ mine /\ decoding \cap mine = mine /\ mine \in SUBSET decoding
    BY <1>2
  <2> HIDE DEF mine
  <2>2. /\ IsFiniteSet(decoding) /\ Cardinality(decoding) + orphans <= Workers
        /\ Cardinality(decoding) \in Nat /\ orphans \in Nat
    BY FS_CardinalityType DEF WorkersCounted, Types
  <2>3. IsFiniteSet(mine) /\ Cardinality(mine) \in Nat
    BY <2>1, <2>2, FS_Subset, FS_CardinalityType
  <2>4. /\ IsFiniteSet(decoding')
        /\ Cardinality(decoding') = Cardinality(decoding) - Cardinality(mine)
    BY <2>1, <2>2, FS_Difference
  <2>5. orphans' = orphans + Cardinality(mine)
    BY <1>2 DEF mine
  <2>6. Cardinality(decoding') + orphans' = Cardinality(decoding) + orphans
    BY <2>2, <2>3, <2>4, <2>5
  <2>7. WorkersCounted'
    BY <2>2, <2>4, <2>6 DEF WorkersCounted
  <2> QED BY <2>2, <2>3, <2>5, <2>7
<1>9. Types'
  BY <1>2, <1>5, <1>6, <1>7, <1>8 DEF Types
<1> QED BY <1>5, <1>6, <1>7, <1>8, <1>9

LEMMA DeadlineStep ==
  ASSUME FetchInv, NEW c \in Calls, Deadline(c)
  PROVE  FetchInv'
<1>1. task' = [task EXCEPT ![c] = DeadlineKeepsLanded(c)] /\ Abandon(c)
  BY DEF Deadline
<1>2. DeadlineKeepsLanded(c) \in [Images -> Stages]
  BY DEF DeadlineKeepsLanded, FetchInv, Types, Stages, Ended
<1>3. \A i \in Images : DeadlineKeepsLanded(c)[i] \notin Waiting \cup Holding
  BY DEF DeadlineKeepsLanded, Unfinished, Waiting, Holding
<1> QED BY <1>1, <1>2, <1>3, AbandonStep DEF FetchInv, Types

LEMMA CancelStep ==
  ASSUME FetchInv, NEW c \in Calls, Cancel(c)
  PROVE  FetchInv'
<1> DEFINE empty == [i \in Images |-> "none"]
<1>1. task' = [task EXCEPT ![c] = empty] /\ Abandon(c)
  BY DEF Cancel
<1>2. empty \in [Images -> Stages] /\ \A i \in Images : empty[i] \notin Waiting \cup Holding
  BY DEF Stages, Waiting, Holding
<1> HIDE DEF empty
<1> QED BY <1>1, <1>2, AbandonStep DEF FetchInv, Types

----------------------------------------------------------------------------
LEMMA FetchInvInit == Init => FetchInv
<1> SUFFICES ASSUME Init PROVE FetchInv
  OBVIOUS
<1> USE ThumbnailsAssumption
<1>1. Types
  BY EmptySeq DEF Init, Types, Stages
<1>2. Len(gateQueue) = 0 /\ Len(poolQueue) = 0
  BY EmptySeq DEF Init
<1>3. GateQueueSound
  BY <1>2 DEF GateQueueSound
<1>4. \A t \in Tasks : Stage(t) = "none"
  BY TaskIsPair DEF Init, Stage
<1>5. PoolSound
  BY <1>2, <1>4 DEF Init, PoolSound
<1>6. Holders = {}
  BY <1>4 DEF Holders, Holding
<1>7. PlacesCounted
  BY <1>6, FS_EmptySet DEF PlacesCounted, Init
<1>8. \A c \in Calls : SlotsTaken(c) = 0 /\ slots[c] = Concurrency
  BY NoneHeld DEF Init, Holding
<1>9. SlotsCounted
  BY <1>8 DEF SlotsCounted
<1>10. WorkersCounted
  BY FS_EmptySet DEF Init, WorkersCounted
<1> QED BY <1>1, <1>3, <1>5, <1>7, <1>9, <1>10 DEF FetchInv

(* The counters and the places they count agree, and each queue holds what *)
(* waits in it, under every interleaving of batches, deadlines and         *)
(* cancellations.                                                          *)
THEOREM FetchInvariant == Spec => []FetchInv
<1>1. Init => FetchInv
  BY FetchInvInit
<1>2. FetchInv /\ [Next]_vars => FetchInv'
  <2> SUFFICES ASSUME FetchInv, [Next]_vars PROVE FetchInv'
    OBVIOUS
  <2>1. ASSUME NEW c \in Calls, NEW wanted \in Images, Begin(c, wanted) PROVE FetchInv'
    BY <2>1, BeginStep
  <2>2. ASSUME NEW c \in Calls, TakeSlot(c) PROVE FetchInv'
    BY <2>2, TakeSlotStep
  <2>3. ASSUME NEW c \in Calls, Deadline(c) PROVE FetchInv'
    BY <2>3, DeadlineStep
  <2>4. ASSUME NEW c \in Calls, Cancel(c) PROVE FetchInv'
    BY <2>4, CancelStep
  <2>5. ASSUME NEW c \in Calls, Return(c) PROVE FetchInv'
    BY <2>5, ReturnStep
  <2>6. ASSUME PassGate PROVE FetchInv'
    BY <2>6, PassGateStep
  <2>7. ASSUME NEW t \in Tasks, DownloadDropped(t) PROVE FetchInv'
    BY <2>7, DownloadDroppedStep
  <2>8. ASSUME NEW t \in Tasks, DownloadDone(t) PROVE FetchInv'
    BY <2>8, DownloadDoneStep
  <2>9. ASSUME NEW t \in Tasks, EndDecode(t) PROVE FetchInv'
    BY <2>9, EndDecodeStep
  <2>10. ASSUME StartDecode PROVE FetchInv'
    BY <2>10, StartDecodeStep
  <2>11. ASSUME EndOrphan PROVE FetchInv'
    BY <2>11, EndOrphanStep
  <2>12. ASSUME UNCHANGED vars PROVE FetchInv'
    BY <2>12 DEF vars, FetchInv, Types, GateQueueSound, PoolSound, PlacesCounted,
                 SlotsCounted, WorkersCounted, Holders, SlotsTaken, Stage
  <2> QED BY <2>1, <2>2, <2>3, <2>4, <2>5, <2>6, <2>7, <2>8, <2>9, <2>10, <2>11, <2>12 DEF Next
<1> QED BY <1>1, <1>2, PTL DEF Spec

(* Every counter of the thumbnail pass stays in its range, and an image is *)
(* in the gate's queue once.                                               *)
THEOREM ThumbnailsTypeCorrect == Spec => []TypeOK
<1>1. FetchInv => TypeOK
  <2> SUFFICES ASSUME FetchInv PROVE TypeOK
    OBVIOUS
  <2>1. DOMAIN gateQueue = 1 .. Len(gateQueue)
    BY LenProperties DEF FetchInv, Types
  <2>2. IsInjective(gateQueue)
    BY <2>1 DEF FetchInv, GateQueueSound, IsInjective
  <2> QED BY <2>2 DEF FetchInv, Types, TypeOK
<1> QED BY <1>1, FetchInvariant, PTL

(* No way out of a fetch leaks or duplicates a slot or a place.            *)
THEOREM SlotsAreConserved == Spec => []SlotsConserved
<1>1. FetchInv => SlotsConserved
  BY DEF FetchInv, PlacesCounted, SlotsCounted, SlotsConserved
<1> QED BY <1>1, FetchInvariant, PTL

(* The decodes fit the pool, orphans included, and every image at the      *)
(* decode stage is in it exactly once.                                     *)
THEOREM PoolIsConsistent == Spec => []PoolConsistent
<1>1. FetchInv => PoolConsistent
  <2> SUFFICES ASSUME FetchInv PROVE PoolConsistent
    OBVIOUS
  <2> USE DEF FetchInv
  <2>1. Len(poolQueue) \in Nat /\ DOMAIN poolQueue = 1 .. Len(poolQueue) /\ Nobody \notin Tasks
    BY PoolItems, LenProperties DEF Types
  <2>2. \A x : x \in ToSet(poolQueue) <=> \E n \in 1 .. Len(poolQueue) : poolQueue[n] = x
    BY <2>1 DEF ToSet
  <2>3. decoding \cap ToSet(poolQueue) = {}
    BY <2>1, <2>2 DEF PoolSound, Types
  <2>4. decoding \cup (ToSet(poolQueue) \ {Nobody}) = {t \in Tasks : Stage(t) = "decode"}
    BY <2>1, <2>2, PoolItems DEF PoolSound, Types
  <2>5. ASSUME NEW t \in Tasks
        PROVE  Cardinality({n \in DOMAIN poolQueue : poolQueue[n] = t}) <= 1
    <3> DEFINE at == {n \in DOMAIN poolQueue : poolQueue[n] = t}
    <3>1. \A m, n \in at : m = n
      BY <2>1 DEF PoolSound
    <3>2. CASE at = {}
      BY <3>2, FS_EmptySet
    <3>3. CASE at # {}
      <4>1. PICK n : at = {n}
        BY <3>1, <3>3
      <4>2. Cardinality({n}) = 1
        BY FS_Singleton
      <4>3. Cardinality(at) <= 1
        BY <4>1, <4>2
      <4> QED BY <4>3
    <3> QED BY <3>2, <3>3
  <2> QED BY <2>3, <2>4, <2>5 DEF WorkersCounted, PoolConsistent
<1> QED BY <1>1, FetchInvariant, PTL

(* A thumbnail, once made, stays in its batch until the batch is answered. *)
THEOREM LandedStay == Spec => LandedAreKept
<1>1. FetchInv /\ [Next]_vars =>
        [\A c \in Calls, i \in Images :
           task[c][i] = "thumbnail" => task'[c][i] = "thumbnail" \/ ~Running(c)']_vars
  <2> SUFFICES ASSUME FetchInv, Next, NEW c \in Calls, NEW i \in Images, task[c][i] = "thumbnail"
               PROVE  task'[c][i] = "thumbnail" \/ ~Running(c)'
    OBVIOUS
  <2> USE DEF FetchInv
  <2>1. ASSUME NEW t \in Tasks, NEW s \in Stages, Goes(t, s), Stage(t) # "thumbnail"
        PROVE  task'[c][i] = "thumbnail"
    <3>1. task'[c][i] = IF <<c, i>> = t THEN s ELSE task[c][i]
      BY <2>1, GoesEffect
    <3>2. <<c, i>> # t
      BY <2>1 DEF Stage
    <3> QED BY <3>1, <3>2
  <2>2. ASSUME NEW d \in Calls, NEW row, task' = [task EXCEPT ![d] = row],
               d = c => row[i] = "thumbnail" \/ row = [j \in Images |-> "none"]
        PROVE  task'[c][i] = "thumbnail" \/ ~Running(c)'
    <3>1. CASE d # c
      BY <2>2, <3>1 DEF Types
    <3>2. CASE d = c
      <4>1. task'[c] = row
        BY <2>2, <3>2 DEF Types
      <4> QED BY <2>2, <3>2, <4>1 DEF Running
    <3> QED BY <3>1, <3>2
  <2>3. ASSUME NEW d \in Calls, NEW wanted \in Images, Begin(d, wanted)
        PROVE  task'[c][i] = "thumbnail" \/ ~Running(c)'
    <3>1. d # c
      BY <2>3 DEF Begin, Running
    <3> QED BY <2>2, <2>3, <3>1 DEF Begin
  <2>4. ASSUME NEW d \in Calls, TakeSlot(d)
        PROVE  task'[c][i] = "thumbnail"
    <3>1. PICK j \in Images : task[d][j] = "slot" /\ Goes(<<d, j>>, "gate")
      BY <2>4 DEF TakeSlot
    <3>2. PICK t \in Tasks : t = <<d, j>>
      BY DEF Tasks
    <3>3. Stage(t) = "slot" /\ Goes(t, "gate")
      BY <3>1, <3>2 DEF Stage
    <3> QED BY <2>1, <3>3, StageFacts
  <2>5. ASSUME NEW d \in Calls, Deadline(d)
        PROVE  task'[c][i] = "thumbnail" \/ ~Running(c)'
    <3>1. DeadlineKeepsLanded(c)[i] = "thumbnail"
      BY DEF DeadlineKeepsLanded, Unfinished, Waiting, Holding
    <3> QED BY <2>2, <2>5, <3>1 DEF Deadline
  <2>6. ASSUME NEW d \in Calls, Cancel(d) \/ Return(d)
        PROVE  task'[c][i] = "thumbnail" \/ ~Running(c)'
    BY <2>2, <2>6 DEF Cancel, Return
  <2>7. ASSUME PassGate
        PROVE  task'[c][i] = "thumbnail"
    <3>1. Head(gateQueue) \in Tasks
      BY <2>7, HeadTailProperties DEF PassGate, Types
    <3>2. PICK t \in Tasks : t = Head(gateQueue)
      BY <3>1
    <3>3. Stage(t) = "gate" /\ Goes(t, "download")
      BY <2>7, <3>2 DEF PassGate
    <3> QED BY <2>1, <3>3, StageFacts
  <2>8. ASSUME NEW t \in Tasks, DownloadDropped(t) \/ DownloadDone(t)
        PROVE  task'[c][i] = "thumbnail"
    BY <2>1, <2>8, StageFacts DEF DownloadDropped, DownloadDone
  <2>9. ASSUME NEW t \in Tasks, EndDecode(t)
        PROVE  task'[c][i] = "thumbnail"
    <3>1. PICK s \in {"thumbnail", "dropped"} : Goes(t, s)
      BY <2>9 DEF EndDecode
    <3>2. Stage(t) = "decode" /\ s \in Stages
      BY <2>9, StageFacts DEF EndDecode, PoolSound
    <3> QED BY <2>1, <3>1, <3>2
  <2>10. CASE StartDecode \/ EndOrphan
    BY <2>10 DEF StartDecode, EndOrphan
  <2> QED BY <2>3, <2>4, <2>5, <2>6, <2>7, <2>8, <2>9, <2>10 DEF Next
<1> QED BY <1>1, FetchInvariant, PTL DEF Spec, LandedAreKept

=============================================================================
