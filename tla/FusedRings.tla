----------------------------- MODULE FusedRings -----------------------------
(***************************************************************************)
(* The inductive invariant of FusedBackward that its safety theorems rest  *)
(* on.  Each barrier is waited on step by step, so how often a waiter has  *)
(* observed it, and how often it was completed, can be read off the places *)
(* of the threads and off the work in flight.  The slots of a ring serve   *)
(* the NumStages steps from the oldest one whose row vectors the TMA warp  *)
(* has not seen released.                                                  *)
(***************************************************************************)
EXTENDS FusedBackward, RingWindow

Waiters == 0 .. NumEw + 2
Ops == ToSet(tc)
-----------------------------------------------------------------------------
\* How far each thread is, as the number of steps it is past a place.  The TMA
\* warp: steps loaded, slots whose consumed and aux_consumed it has observed.
Requested == IF tmaPc \in {"drain", "drain_aux", "done"} THEN n ELSE tmaStep
CFree ==
  CASE tmaPc \in {"kv", "load"} ->
         IF tmaStep >= NumStages THEN tmaStep - NumStages + 1 ELSE 0
    [] tmaPc = "consumed" -> tmaStep - NumStages
    [] tmaPc = "aux" -> tmaStep - NumStages + 1
    [] tmaPc = "drain" -> tmaStep
    [] tmaPc = "drain_aux" -> tmaStep + 1
    [] tmaPc = "done" -> n
AFree == IF tmaPc \in {"aux", "drain_aux"} THEN CFree - 1 ELSE CFree
Window == AFree .. AFree + NumStages - 1

\* The MMA warp: steps whose P it has observed, whose dK it has issued.
PastDk == \/ mmaPc \in {"dq_free", "dq"}
          \/ call.early /\ mmaPc \in {"order", "scores"} /\ mmaScores > 0
DkIssued == IF PastDk THEN mmaStep + 1 ELSE mmaStep
PSeen == IF mmaPc = "ds" THEN mmaStep + 1 ELSE DkIssued
DsSeen == IF call.split THEN DkIssued ELSE 0
OrderIssued == IF call.serialize THEN DkIssued ELSE 0
OrderSeen ==
  CASE ~call.serialize \/ mmaPc = "kv" -> 0
    [] call.serialize /\ mmaPc = "scores" -> mmaScores
    [] call.serialize /\ mmaPc = "done" -> n
    [] OTHER -> mmaScores - 1
DqFreeSeen == CASE mmaPc = "dq" -> mmaStep
                [] mmaPc \in {"last_order", "done"} -> n
                [] OTHER -> IF mmaStep > 0 THEN mmaStep - 1 ELSE 0
Ending == mmaPc \in {"last_free", "last_order"} \/ (mmaPc = "done" /\ n > 0)

\* The warpgroup e: its step counts as past a place at the later ones.
Past(e, pcs) == IF ewPc[e] \in pcs THEN ewStep[e] + 1 ELSE ewStep[e]
AfterMask == {"store_p", "store_ds", "ready"}
AfterLoaded == {"mask"} \cup AfterMask
AfterLoad == {"loaded"} \cup AfterLoaded
AfterS == {"load"} \cup AfterLoad
AfterQ == {"s"} \cup AfterS
AuxArrived == [e \in Ew |-> Past(e, {"ready"})]
PArrived == [e \in Ew |-> IF call.split THEN Past(e, {"store_ds", "ready"})
                                        ELSE ewStep[e]]
DsArrived == [e \in Ew |-> IF call.split THEN ewStep[e] ELSE 0]
LoadedBy == [e \in Ew |-> IF Meet THEN Past(e, AfterLoad) ELSE 0]
LoadedSeen(e) == IF Meet THEN Past(e, AfterLoaded) ELSE 0
DoneSeen(e) == IF ewPc[e] \in {"write", "exit"} /\ n > 0 THEN 1 ELSE 0

\* The dQ writer: steps whose dQ it has seen, whose accumulator it has freed.
DqSeen == IF dqPc \in {"load", "store"} THEN dqStep + 1 ELSE dqStep
DqFreed == IF dqPc = "store" THEN dqStep + 1 ELSE dqStep
-----------------------------------------------------------------------------
\* What a program counter says of the steps and of the specialisation.
TmaFacts ==
  /\ tmaPc = "kv" => tmaStep = 0
  /\ tmaPc \in {"load", "consumed", "aux", "drain", "drain_aux"} => tmaStep < n
  /\ tmaPc \in {"consumed", "aux"} => tmaStep >= NumStages
  /\ tmaPc \in {"drain", "drain_aux"} => tmaStep + NumStages >= n
  /\ tmaPc = "done" => tmaStep = n
MmaFacts ==
  /\ mmaPc = "kv" => mmaStep = 0 /\ mmaScores = 0
  /\ mmaPc = "order" => call.serialize /\ mmaScores > 0
  /\ mmaPc \in {"order", "scores"} =>
       /\ mmaScores < n
       /\ mmaScores = IF call.early /\ mmaScores > 0 THEN mmaStep + 1 ELSE mmaStep
  /\ mmaPc \in {"p", "ds"} => mmaStep < n /\ mmaScores = mmaStep + 1
  /\ mmaPc \in {"dq_free", "dq"} =>
       /\ mmaStep < n
       /\ mmaScores = IF call.early /\ mmaStep + 1 < n THEN mmaStep + 2 ELSE mmaStep + 1
  /\ mmaPc = "ds" => call.split
  /\ mmaPc = "dq_free" => mmaStep > 0
  /\ mmaPc = "last_order" => call.serialize
  /\ mmaPc \in {"end", "last_free", "last_order"} => n > 0
  /\ mmaPc \in {"end", "last_free", "last_order", "done"} => mmaStep = n /\ mmaScores = n
EwFacts(e) ==
  /\ ewPc[e] = "kv" => ewStep[e] = 0
  /\ ewPc[e] \in {"q"} \cup AfterQ => ewStep[e] < n
  /\ ewPc[e] \in {"done", "write", "exit"} => ewStep[e] = n
  /\ ewPc[e] = "done" => n > 0
  /\ ewPc[e] = "loaded" => Meet
  /\ ewPc[e] = "mask" => ewStep[e] \in call.partial
  /\ ewPc[e] = "store_p" => call.split
DqFacts == /\ dqPc \in {"wait", "load", "store"} => dqStep < n
           /\ dqPc \in {"drain", "exit"} => dqStep = n
PcFacts == TmaFacts /\ MmaFacts /\ (\A e \in Ew : EwFacts(e)) /\ DqFacts
-----------------------------------------------------------------------------
\* The tensor-core queue.  Key is the order of issue; of the commits that a
\* thread waits for step by step, only the newest may be queued.
Key(op) ==
  12 * op[2] +
    CASE op[1] = "scores" -> 0 [] op[1] = "s_ready" -> 1
      [] op[1] = "dv" -> 5 [] op[1] = "dk" -> 6 [] op[1] = "mma_order" -> 7
      [] op[1] = "dq" -> (IF call.early THEN 14 ELSE 8)
      [] op[1] = "dq_ready" -> (IF call.early THEN 15 ELSE 9)
      [] op[1] = "consumed" -> (IF call.early THEN 16 ELSE 10)
      [] op[1] = "done" -> 11
Issued(op) ==
  CASE op[1] \in {"scores", "s_ready"} -> op[2] \in 0 .. mmaScores - 1
    [] op[1] = "dv" -> op[2] \in 0 .. PSeen - 1
    [] op[1] = "dk" -> op[2] \in 0 .. DkIssued - 1
    [] op[1] = "mma_order" -> op[2] \in 0 .. OrderIssued - 1
    [] op[1] \in {"dq", "dq_ready", "consumed"} -> op[2] \in 0 .. mmaStep - 1
    [] op[1] = "done" -> Ending /\ op[2] = n
Newest(op) ==
  /\ op[1] = "s_ready" => op[2] = mmaScores - 1
  /\ op[1] = "mma_order" => op[2] = OrderIssued - 1
  /\ op[1] = "dq_ready" => op[2] = mmaStep - 1
  /\ op[1] = "consumed" => op[2] >= CFree
Sorted == \A i, j \in DOMAIN tc : i < j => Key(tc[i]) < Key(tc[j])
Queue == Sorted /\ \A op \in Ops : Issued(op) /\ Newest(op)

\* A commit completes after the MMAs issued before it.
Fifo ==
  \A op \in Ops : op[1] \notin Commits =>
    \A c \in Commits \X (0 .. n) : Issued(c) /\ c \notin Ops => Key(c) < Key(op)
-----------------------------------------------------------------------------
\* Barriers of their own, completed by one arrival.
Queued(name) == IF \E op \in Ops : op[1] = name THEN 1 ELSE 0
KvLanded == tmaPc # "kv" /\ KV \notin copies
Counts ==
  /\ KV \in copies => tmaPc # "kv"
  /\ done[KV] = IF KvLanded THEN 1 ELSE 0
  /\ done[Only("s_ready")] = mmaScores - Queued("s_ready")
  /\ done[Only("mma_order")] = OrderIssued - Queued("mma_order")
  /\ done[Only("dq_ready")] = mmaStep - Queued("dq_ready")
  /\ done[Only("dq_free")] = DqFreed
  /\ done[Only("done")] = IF Ending THEN 1 - Queued("done") ELSE 0
Seen ==
  /\ seen[Mma][KV] = IF mmaPc = "kv" THEN 0 ELSE 1
  /\ seen[Mma][Only("p_ready")] = PSeen
  /\ seen[Mma][Only("ds_ready")] = DsSeen
  /\ seen[Mma][Only("dq_free")] = DqFreeSeen
  /\ seen[Mma][Only("mma_order")] = OrderSeen
  /\ seen[Dq][Only("dq_ready")] = DqSeen
  /\ \A e \in Ew :
       /\ seen[e][KV] = IF ewPc[e] = "kv" THEN 0 ELSE 1
       /\ seen[e][Only("s_ready")] = Past(e, AfterS)
       /\ seen[e][Only("loaded")] = LoadedSeen(e)
       /\ seen[e][Only("done")] = DoneSeen(e)

\* Barriers of their own on which every warpgroup arrives: those that have
\* arrived in the current phase are one ahead.
Ahead(k, at) == {e \in Ew : at[e] > k}
Met(name, at) ==
  LET k == done[Only(name)] IN
  /\ \A e \in Ew : at[e] \in {k, k + 1}
  /\ left[Only(name)] = NumEw - Cardinality(Ahead(k, at))
Meetings == /\ Met("p_ready", PArrived) /\ Met("ds_ready", DsArrived)
            /\ Met("loaded", LoadedBy)

SingleBarriers ==
  {KV} \cup {Only(name) : name \in {"s_ready", "p_ready", "ds_ready", "loaded",
                                    "dq_ready", "dq_free", "done", "mma_order"}}
Singles ==
  /\ \A name \in {"kv", "s_ready", "dq_ready", "dq_free", "done", "mma_order"} :
       left[Only(name)] = 1
  /\ \A b \in SingleBarriers : \A w \in WaitersOf(b) : seen[w][b] <= done[b]
-----------------------------------------------------------------------------
\* The rings: a step's barrier is a phase ahead of a waiter that has not
\* observed the step once it is signalled.
InFlight(f, s) == <<f, s>> \in copies
HalfLoaded(s) == InFlight("q_do", s) # InFlight("row", s)
QUp(s) == s < Requested /\ ~InFlight("q_do", s) /\ ~InFlight("row", s)
MaskUp(s) == s < Requested /\ s \in call.partial /\ ~InFlight("mask", s)
ConsumedUp(s) == s < mmaStep /\ <<"consumed", s>> \notin Ops
AuxUp(s) == \A e \in Ew : AuxArrived[e] > s
Flag(p) == IF p THEN 1 ELSE 0
AuxLeft(s) == IF AuxUp(s) THEN NumEw ELSE NumEw - Cardinality(Ahead(s, AuxArrived))

QRing(s) ==
  /\ left[Ring("q", s)] = 2 - Flag(HalfLoaded(s))
  /\ Lag(Mma, Ring("q", s)) = Flag(s >= mmaScores /\ QUp(s))
  /\ \A e \in Ew : Lag(e, Ring("q", s)) = Flag(s >= Past(e, AfterQ) /\ QUp(s))
MaskRing(s) ==
  /\ left[Ring("mask", s)] = 1
  /\ \A e \in Ew : Lag(e, Ring("mask", s)) = Flag(s >= Past(e, AfterMask) /\ MaskUp(s))
ConsumedRing(s) ==
  /\ left[Ring("consumed", s)] = 1
  /\ Lag(Tma, Ring("consumed", s)) = Flag(s >= CFree /\ ConsumedUp(s))
AuxRing(s) ==
  /\ left[Ring("aux_consumed", s)] = AuxLeft(s)
  /\ Lag(Tma, Ring("aux_consumed", s)) = Flag(AuxUp(s))
Rings == \A s \in Window : QRing(s) /\ MaskRing(s) /\ ConsumedRing(s) /\ AuxRing(s)

\* Copies in flight are for a step that is loaded and that no waiter has seen.
Flights ==
  \A c \in copies \ {KV} :
    /\ c[2] < Requested
    /\ c[1] \in {"q_do", "row"} =>
         mmaScores <= c[2] /\ \A e \in Ew : Past(e, AfterQ) <= c[2]
    /\ c[1] = "mask" =>
         c[2] \in call.partial /\ \A e \in Ew : Past(e, AfterMask) <= c[2]

\* The order of the threads' progress.
Order ==
  /\ CFree <= mmaStep /\ mmaScores <= Requested
  /\ \A e \in Ew : AFree <= AuxArrived[e] /\ Past(e, AfterQ) <= Requested

RingInv == /\ PcFacts /\ Queue /\ Fifo /\ Counts /\ Seen /\ Meetings /\ Singles
           /\ Rings /\ Flights /\ Order
FInv == TypeOK /\ RingInv
=============================================================================
