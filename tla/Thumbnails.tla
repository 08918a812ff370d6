----------------------------- MODULE Thumbnails -----------------------------
(***************************************************************************)
(* The base64 thumbnail pass of image_fetch.py: any number of tool calls   *)
(* each fetch a batch of images, under a per-call semaphore, a             *)
(* process-wide gate, and a pool of decode threads, with one deadline per  *)
(* batch.                                                                  *)
(*                                                                         *)
(* An image's task waits for a slot of its call, then for the gate, then   *)
(* downloads, then waits for the decode pool, holding slot and gate until  *)
(* it ends.  Event-loop tasks can be cancelled at any await; a decode      *)
(* that a thread has started cannot, and a queued one leaves the executor  *)
(* queue only when a worker reaches it.                                    *)
(*                                                                         *)
(* A download is abstracted to its outcome: a body, or nothing (a refused  *)
(* origin, too many hops, an HTTP error, a status, an oversized or empty   *)
(* body).  Both asyncio semaphores serve their waiters in order.           *)
(***************************************************************************)
EXTENDS Integers, Sequences, FiniteSets, SequencesExt

CONSTANTS Calls,        \* tool calls that opted in to base64 images
          MaxImages,    \* MAX_IMAGES
          Concurrency,  \* _CONCURRENCY, per call
          MaxFetches,   \* _MAX_CONCURRENT_FETCHES, per process
          Workers,      \* _DECODE_WORKERS
          MaxBatches,   \* bound: batches begun
          Nobody        \* the owner of a body whose task was cancelled

ASSUME ThumbnailsAssumption ==
  /\ MaxImages \in Nat \ {0} /\ Concurrency \in Nat \ {0}
  /\ MaxFetches \in Nat \ {0} /\ Workers \in Nat \ {0} /\ MaxBatches \in Nat
  /\ Nobody \notin Calls \X (1 .. MaxImages)

VARIABLES task,       \* per call, the stage of each of its images
          slots,      \* per call, the free slots of its semaphore
          gate,       \* the free places of the process-wide gate
          gateQueue,  \* the images waiting for it, in order
          poolQueue,  \* the executor's queue: images, or Nobody's bodies
          decoding,   \* the images being decoded by a thread
          orphans,    \* threads decoding a body for nobody
          begun       \* batches begun

vars == <<task, slots, gate, gateQueue, poolQueue, decoding, orphans, begun>>

Images == 1 .. MaxImages
Tasks  == Calls \X Images

Holding == {"download", "decode"}           \* inside slot and gate
Waiting == {"slot", "gate"}
Ended   == {"thumbnail", "dropped", "late"}

Stages == {"none"} \cup Waiting \cup Holding \cup Ended

(* Every counter within its range; the queues hold each image once.        *)
TypeOK ==
  /\ task \in [Calls -> [Images -> Stages]]
  /\ slots \in [Calls -> 0 .. Concurrency]
  /\ gate \in 0 .. MaxFetches
  /\ gateQueue \in Seq(Tasks) /\ IsInjective(gateQueue)
  /\ poolQueue \in Seq(Tasks \cup {Nobody})
  /\ decoding \in SUBSET Tasks
  /\ orphans \in Nat
  /\ begun \in 0 .. MaxBatches

Init ==
  /\ task = [c \in Calls |-> [i \in Images |-> "none"]]
  /\ slots = [c \in Calls |-> Concurrency]
  /\ gate = MaxFetches
  /\ gateQueue = <<>>
  /\ poolQueue = <<>>
  /\ decoding = {}
  /\ orphans = 0
  /\ begun = 0

----------------------------------------------------------------------------
Running(c) == \E i \in Images : task[c][i] # "none"

HeldBy(c) == Cardinality({i \in Images : task[c][i] \in Holding})

SlotsTaken(c) == Cardinality({i \in Images : task[c][i] \in Holding \cup {"gate"}})

Stage(t) == task[t[1]][t[2]]

Goes(t, stage) == task' = [task EXCEPT ![t[1]][t[2]] = stage]

(* fetch_thumbnails: a task per wanted URL, and a fresh semaphore.         *)
Begin(c, wanted) ==
  /\ ~Running(c)
  /\ begun < MaxBatches
  /\ begun' = begun + 1
  /\ task' = [task EXCEPT ![c] = [i \in Images |-> IF i <= wanted THEN "slot" ELSE "none"]]
  /\ slots' = [slots EXCEPT ![c] = Concurrency]
  /\ UNCHANGED <<gate, gateQueue, poolQueue, decoding, orphans>>

(* The per-call semaphore serves the batch in order; the gate is next.     *)
TakeSlot(c) ==
  \E i \in Images :
    /\ task[c][i] = "slot"
    /\ \A j \in Images : task[c][j] = "slot" => i <= j
    /\ slots[c] > 0
    /\ slots' = [slots EXCEPT ![c] = @ - 1]
    /\ Goes(<<c, i>>, "gate")
    /\ gateQueue' = Append(gateQueue, <<c, i>>)
    /\ UNCHANGED <<gate, poolQueue, decoding, orphans, begun>>

PassGate ==
  /\ gateQueue # <<>>
  /\ Stage(Head(gateQueue)) = "gate"
  /\ gate > 0
  /\ gate' = gate - 1
  /\ gateQueue' = Tail(gateQueue)
  /\ Goes(Head(gateQueue), "download")
  /\ UNCHANGED <<slots, poolQueue, decoding, orphans, begun>>

(* _fetch_one returns None: the context managers give both places back.    *)
DownloadDropped(t) ==
  /\ Stage(t) = "download"
  /\ Goes(t, "dropped")
  /\ slots' = [slots EXCEPT ![t[1]] = @ + 1]
  /\ gate' = gate + 1
  /\ UNCHANGED <<gateQueue, poolQueue, decoding, orphans, begun>>

DownloadDone(t) ==
  /\ Stage(t) = "download"
  /\ Goes(t, "decode")
  /\ poolQueue' = Append(poolQueue, t)
  /\ UNCHANGED <<slots, gate, gateQueue, decoding, orphans, begun>>

----------------------------------------------------------------------------
WorkerFreeIgnoringOrphans == Cardinality(decoding) < Workers

WorkerFree == Cardinality(decoding) + orphans < Workers

(* A free worker takes the next item; a cancelled one is thrown away.      *)
StartDecode ==
  /\ poolQueue # <<>> /\ WorkerFree
  /\ poolQueue' = Tail(poolQueue)
  /\ decoding' = decoding \cup ({Head(poolQueue)} \ {Nobody})
  /\ UNCHANGED <<task, slots, gate, gateQueue, orphans, begun>>

(* _encode returns a thumbnail, returns None or raises; gather keeps the   *)
(* exception to itself, so each costs this image alone.                    *)
EndDecode(t) ==
  /\ t \in decoding
  /\ decoding' = decoding \ {t}
  /\ \E stage \in {"thumbnail", "dropped"} : Goes(t, stage)
  /\ slots' = [slots EXCEPT ![t[1]] = @ + 1]
  /\ gate' = gate + 1
  /\ UNCHANGED <<gateQueue, poolQueue, orphans, begun>>

EndOrphan ==
  /\ orphans > 0
  /\ orphans' = orphans - 1
  /\ UNCHANGED <<task, slots, gate, gateQueue, poolQueue, decoding, begun>>

----------------------------------------------------------------------------
(* Every unfinished image of c is cancelled: it gives back what it holds,  *)
(* and the body it handed to the pool is nobody's.                         *)
Unfinished(c) == {i \in Images : task[c][i] \in Waiting \cup Holding}

GateKeptByDecode(c) ==
  gate' = gate + Cardinality({i \in Images : task[c][i] = "download"})

GateGivenByWaiters(c) == gate' = gate + SlotsTaken(c)

GateGivenBack(c) == gate' = gate + HeldBy(c)

GateQueueKept(c) == gateQueue' = gateQueue

WaitersBut(c) == {n \in DOMAIN gateQueue : gateQueue[n][1] # c}

(* The waiters of other calls stay, in their order.                        *)
GateQueueLeft(c) ==
  \E place \in [1 .. Cardinality(WaitersBut(c)) -> WaitersBut(c)] :
    /\ \A m, n \in DOMAIN place : m < n => place[m] < place[n]
    /\ gateQueue' = [n \in DOMAIN place |-> gateQueue[place[n]]]

Abandon(c) ==
  /\ slots' = [slots EXCEPT ![c] = @ + SlotsTaken(c)]
  /\ GateGivenBack(c)
  /\ GateQueueLeft(c)
  /\ poolQueue' = [n \in DOMAIN poolQueue |->
       IF poolQueue[n] # Nobody /\ poolQueue[n] \in {c} \X Images
       THEN Nobody ELSE poolQueue[n]]
  /\ decoding' = {t \in decoding : t[1] # c}
  /\ orphans' = orphans + Cardinality({t \in decoding : t[1] = c})
  /\ UNCHANGED begun

(* The batch's deadline: the images that landed are kept.                  *)
DeadlineLosesAll(c) == [i \in Images |-> IF task[c][i] = "none" THEN "none" ELSE "late"]

DeadlineKeepsLanded(c) ==
  [i \in Images |-> IF i \in Unfinished(c) THEN "late" ELSE task[c][i]]

Deadline(c) ==
  /\ Unfinished(c) # {}
  /\ task' = [task EXCEPT ![c] = DeadlineKeepsLanded(c)]
  /\ Abandon(c)

(* The tool call is cancelled, at shutdown.                                *)
Cancel(c) ==
  /\ Unfinished(c) # {}
  /\ task' = [task EXCEPT ![c] = [i \in Images |-> "none"]]
  /\ Abandon(c)

(* gather has every result: the thumbnails are attached to the answer.     *)
Return(c) ==
  /\ Running(c) /\ Unfinished(c) = {}
  /\ task' = [task EXCEPT ![c] = [i \in Images |-> "none"]]
  /\ UNCHANGED <<slots, gate, gateQueue, poolQueue, decoding, orphans, begun>>

Next ==
  \/ \E c \in Calls, wanted \in Images : Begin(c, wanted)
  \/ \E c \in Calls : TakeSlot(c) \/ Deadline(c) \/ Cancel(c) \/ Return(c)
  \/ PassGate
  \/ \E t \in Tasks : DownloadDropped(t) \/ DownloadDone(t) \/ EndDecode(t)
  \/ StartDecode
  \/ EndOrphan

(* The event loop runs what is ready; a download ends, for each read is    *)
(* timed and max_bytes bounds their number; a decode ends.  No deadline is *)
(* needed for that.                                                        *)
Fairness ==
  /\ \A c \in Calls : WF_vars(TakeSlot(c)) /\ WF_vars(Return(c))
  /\ WF_vars(PassGate) /\ WF_vars(StartDecode) /\ WF_vars(EndOrphan)
  /\ \A t \in Tasks :
       /\ WF_vars(DownloadDropped(t) \/ DownloadDone(t))
       /\ WF_vars(EndDecode(t))

Spec == Init /\ [][Next]_vars /\ Fairness

----------------------------------------------------------------------------
Holders == {t \in Tasks : Stage(t) \in Holding}

(* No path out of a fetch leaks or duplicates a place: what is free and    *)
(* what is held always make up the per-call and the process-wide width.    *)
SlotsConserved ==
  /\ gate + Cardinality(Holders) = MaxFetches
  /\ \A c \in Calls :
       Running(c) => slots[c] + SlotsTaken(c) = Concurrency

(* Decodes never outnumber the pool, those nobody waits for included, and  *)
(* every image at the decode stage is in the pool exactly once.            *)
PoolConsistent ==
  /\ Cardinality(decoding) + orphans <= Workers
  /\ decoding \cap ToSet(poolQueue) = {}
  /\ decoding \cup (ToSet(poolQueue) \ {Nobody}) = {t \in Tasks : Stage(t) = "decode"}
  /\ \A t \in Tasks : Cardinality({n \in DOMAIN poolQueue : poolQueue[n] = t}) <= 1

(* "The images that did land are kept": a thumbnail, once made, stays in   *)
(* its batch until the batch is answered; a neighbour that fails or a      *)
(* deadline does not take it away.                                         *)
LandedAreKept ==
  [][\A c \in Calls, i \in Images :
       task[c][i] = "thumbnail" =>
         task'[c][i] = "thumbnail" \/ ~Running(c)']_vars

(* Every batch is answered, without help from its deadline: the two        *)
(* semaphores and the pool never wait on one another for ever, whatever    *)
(* deadlines and cancellations strike other batches.                       *)
BatchesAnswered == \A c \in Calls : Running(c) ~> ~Running(c)

(* "12 x the 8 MB default is ~96 MB of raw bytes at the worst case": the   *)
(* bodies in memory never outnumber the gate.                              *)
Bodies ==
  Cardinality(Holders) + orphans
    + Cardinality({n \in DOMAIN poolQueue : poolQueue[n] = Nobody})

BodiesWithinGate == Bodies <= MaxFetches

=============================================================================
