------------------------- MODULE NPFStatistics_proof -------------------------
(***************************************************************************)
(* For any number of packets, calls, applications, processors and changes  *)
(* of power: the counters of statistics mode lose no packet unnoticed, and *)
(* the clock of the driver runs while an instance is open.                 *)
(***************************************************************************)
EXTENDS NPFStatistics, FiniteSetTheorems, SequenceTheorems, TLAPS

(*************************** statistics mode *******************************)
StatTypeOK ==
  /\ counter \in [lo : 0 .. Half - 1, hi : Nat, mode : {"capt", "stat"}]
  /\ tap \in {"idle", "counting"}
  /\ read \in [pc : {"idle", "high", "reset", "mode"}, lo : 0 .. Half - 1, hi : Nat]
  /\ counted \in [seen : Nat, reported : Nat, lost : Nat, torn : BOOLEAN]
  /\ statLeft \in [packets : Nat, calls : Nat, power : Nat]

(* What the counters amount to for NPF_Read at each of its steps: the two  *)
(* halves it has copied, the low half and the upper one it will copy, or   *)
(* the counter itself.                                                     *)
StatCountInv ==
  ~counted.torn =>
    /\ read.pc = "idle" =>
         counted.seen = counted.reported + counted.lost + Value(counter.lo, counter.hi)
    /\ read.pc = "high" =>
         counted.seen = counted.reported + counted.lost + Value(read.lo, counter.hi)
    /\ read.pc = "reset" =>
         counted.seen = counted.reported + counted.lost + Value(read.lo, read.hi)

StatInv == StatTypeOK /\ StatCountInv

(******************************** the clock ********************************)
ClockTypeOK ==
  /\ clock \in [mode : TimestampModes, reference : {0, 1}, synced : SUBSET ClockCpus,
                instances : Nat, zeroed : BOOLEAN, skipped : BOOLEAN]
  /\ client \in [Actors -> [at : {"closed", "tests", "syncs", "open", "last", "gone",
                                  "idle", "wakes"}, step : Nat \ {0}]]
  /\ client[Power].at \in {"idle", "wakes", "tests", "syncs"}
  /\ \A o \in Openers : client[o].at \in {"closed", "tests", "syncs", "open", "last", "gone"}

\* instances that NPF_Open has counted and NPF_Cleanup has not counted off
Counted == {o \in Openers : client[o].at \in {"tests", "syncs", "open"}}

(* The last change of power has been answered by NPF_PowerChange itself.   *)
Settled == ClientAt(Power, "idle") /\ ~clock.skipped

AllSynced == clock.synced = ClockCpus

(* The offsets stored by a TIME_SYNCHRONIZE under way.                     *)
Stored(a) ==
  /\ clock.mode = "percpu" => \A i \in ClockCpus : i < client[a].step => i \in clock.synced
  /\ clock.mode = "kqpc" /\ client[a].step > 1 => AllSynced
  /\ clock.mode = "rdtsc" /\ client[a].step > 2 => AllSynced

\* the offsets come first: who finds the reference finds the offsets
OffsetsFirst ==
  /\ clock.mode \in {"kqpc", "percpu"}
  /\ Settled
  /\ clock.reference # 0 \/ \E o \in Openers : ClientAt(o, "open")
  => AllSynced

\* the reference comes first: its owner is about to store the offset
ReferenceOwned ==
  clock.mode = "rdtsc" =>
    /\ Settled /\ clock.reference # 0 =>
         AllSynced \/ \E o \in Openers : ClientAt(o, "syncs") /\ client[o].step = 2
    /\ (\E o \in Openers : ClientAt(o, "open") \/ (ClientAt(o, "syncs") /\ client[o].step > 1)) =>
         \/ clock.reference # 0 \/ clock.zeroed
         \/ ClientAt(Power, "tests")
         \/ ClientAt(Power, "syncs") /\ client[Power].step = 1

ClockInv ==
  /\ ClockTypeOK
  /\ clock.instances = Cardinality(Counted)
  /\ \A a \in Actors : ClientAt(a, "syncs") /\ (a = Power \/ Settled) => Stored(a)
  /\ OffsetsFirst /\ ReferenceOwned

-------------------------------------------------------------------------------
(* One packet more, with or without a carry between the halves.            *)
LEMMA ValueIncremented ==
  ASSUME NEW lo \in 0 .. Half - 1, NEW hi \in Nat, StatAssumption
  PROVE  /\ Value(lo, hi) \in Nat
         /\ Value(lo + 1, hi) = Value(lo, hi) + 1
         /\ lo = Half - 1 => Value(0, hi + 1) = Value(lo, hi) + 1
         /\ Value(0, 0) = 0
<1>1. Half \in Nat \ {0}
  BY DEF StatAssumption
<1>2. Half * hi \in Nat /\ Half * (hi + 1) = Half * hi + Half /\ Half * 0 = 0
  BY <1>1
<1> QED
  BY <1>1, <1>2 DEF Value

CounterRecord == [lo : 0 .. Half - 1, hi : Nat, mode : {"capt", "stat"}]
CountedRecord == [seen : Nat, reported : Nat, lost : Nat, torn : BOOLEAN]

LEMMA CounterIncremented ==
  ASSUME StatAssumption, NEW r \in CounterRecord
  PROVE  LET s == Incremented(r)
             carry == r.lo = Half - 1
         IN
         /\ s.lo = IF carry THEN 0 ELSE r.lo + 1
         /\ s.hi = IF carry THEN r.hi + 1 ELSE r.hi
         /\ s \in CounterRecord
<1>1. Half \in Nat \ {0} /\ r.lo \in 0 .. Half - 1 /\ r.hi \in Nat
  BY DEF StatAssumption, CounterRecord
<1>2. CASE r.lo = Half - 1
  <2> DEFINE h == r.hi + 1
             s == Incremented(r)
  <2>1. s = [r EXCEPT !.lo = 0, !.hi = h]
    BY <1>2 DEF Incremented
  <2>2. 0 \in 0 .. Half - 1 /\ h \in Nat
    BY <1>1
  <2> HIDE DEF h, s
  <2>3. s.lo = 0 /\ s.hi = h /\ s \in CounterRecord
    BY <2>1, <2>2 DEF CounterRecord
  <2> QED
    BY <1>2, <2>3 DEF h, s
<1>3. CASE r.lo # Half - 1
  BY <1>1, <1>3 DEF Incremented, CounterRecord
<1> QED
  BY <1>2, <1>3

(* A packet that NPF_tap counts.                                           *)
LEMMA TapCountsKeeps ==
  ASSUME StatAssumption, StatInv, TapCounts
  PROVE  StatInv'
<1>1. /\ counter \in [lo : 0 .. Half - 1, hi : Nat, mode : {"capt", "stat"}]
      /\ read \in [pc : {"idle", "high", "reset", "mode"}, lo : 0 .. Half - 1, hi : Nat]
      /\ counted \in [seen : Nat, reported : Nat, lost : Nat, torn : BOOLEAN]
      /\ Half \in Nat \ {0}
  BY DEF StatInv, StatTypeOK, StatAssumption
<1> DEFINE carry == counter.lo = Half - 1
           between == read.pc \in {"high", "reset"}
<1>2. /\ counter'.lo = IF carry THEN 0 ELSE counter.lo + 1
      /\ counter'.hi = IF carry THEN counter.hi + 1 ELSE counter.hi
      /\ counter' \in CounterRecord
  <2>1. counter \in CounterRecord
    BY <1>1 DEF CounterRecord
  <2>2. counter' = Incremented(counter)
    BY DEF TapCounts
  <2> QED
    BY StatAssumption, <2>1, <2>2, CounterIncremented
<1>3. /\ counted'.seen = counted.seen + 1 /\ counted'.reported = counted.reported
      /\ counted'.lost = IF between THEN counted.lost + 1 ELSE counted.lost
      /\ counted'.torn <=> (counted.torn \/ (read.pc = "high" /\ carry))
      /\ counted' \in CountedRecord
  <2> DEFINE a == counted.seen + 1
             b == IF between THEN counted.lost + 1 ELSE counted.lost
             c == counted.torn \/ (read.pc = "high" /\ carry)
  <2>1. a \in Nat /\ b \in Nat /\ c \in BOOLEAN /\ counted \in CountedRecord
    BY <1>1 DEF CountedRecord
  <2>2. counted' = [counted EXCEPT !.seen = a, !.lost = b, !.torn = c]
    BY DEF TapCounts
  <2> HIDE DEF a, b, c
  <2>3. /\ counted'.seen = a /\ counted'.reported = counted.reported
        /\ counted'.lost = b /\ (counted'.torn <=> c) /\ counted' \in CountedRecord
    BY <2>1, <2>2 DEF CountedRecord
  <2> QED
    BY <2>3 DEF a, b, c
<1>4. read' = read /\ tap' = "idle" /\ statLeft' = statLeft
  BY DEF TapCounts
<1>5. StatTypeOK'
  BY <1>2, <1>3, <1>4 DEF StatInv, StatTypeOK, CounterRecord, CountedRecord
<1>6. StatCountInv'
  <2> SUFFICES ASSUME ~counted'.torn
               PROVE  /\ read.pc = "idle" =>
                           counted'.seen = counted'.reported + counted'.lost
                                             + Value(counter'.lo, counter'.hi)
                      /\ read.pc = "high" =>
                           counted'.seen = counted'.reported + counted'.lost
                                             + Value(read.lo, counter'.hi)
                      /\ read.pc = "reset" =>
                           counted'.seen = counted'.reported + counted'.lost
                                             + Value(read.lo, read.hi)
    BY <1>4 DEF StatCountInv
  <2>1. ~counted.torn /\ StatCountInv
    BY <1>1, <1>3 DEF StatInv
  <2>2. /\ Value(counter'.lo, counter'.hi) = Value(counter.lo, counter.hi) + 1
        /\ Value(counter.lo, counter.hi) \in Nat
        /\ Value(read.lo, counter.hi) \in Nat /\ Value(read.lo, read.hi) \in Nat
    <3>1. counter.lo \in 0 .. Half - 1 /\ counter.hi \in Nat /\ read.lo \in 0 .. Half - 1
          /\ read.hi \in Nat
      BY <1>1
    <3>2. /\ Value(counter.lo, counter.hi) \in Nat /\ Value(read.lo, counter.hi) \in Nat
          /\ Value(read.lo, read.hi) \in Nat
          /\ Value(counter.lo + 1, counter.hi) = Value(counter.lo, counter.hi) + 1
          /\ carry => Value(0, counter.hi + 1) = Value(counter.lo, counter.hi) + 1
      BY <3>1, StatAssumption, ValueIncremented
    <3> QED
      BY <1>2, <3>2
  <2>3. CASE read.pc = "idle"
    BY <1>1, <1>3, <2>1, <2>2, <2>3 DEF StatCountInv
  <2>4. CASE read.pc = "high"
    <3>1. counter'.hi = counter.hi
      BY <1>2, <1>3, <2>4
    <3> QED
      BY <1>1, <1>3, <2>1, <2>2, <2>4, <3>1 DEF StatCountInv
  <2>5. CASE read.pc = "reset"
    BY <1>1, <1>3, <2>1, <2>2, <2>5 DEF StatCountInv
  <2> QED
    BY <2>3, <2>4, <2>5
<1> QED
  BY <1>5, <1>6 DEF StatInv

(* The calls of the application.                                           *)
LEMMA StatCallsKeep ==
  ASSUME StatAssumption, StatInv,
         \/ TapSeesStat \/ StatReadLow \/ StatReadHigh \/ StatReadResets
         \/ SetModeCapt \/ SetModeStat \/ SetModeResets
  PROVE  StatInv'
<1>1. /\ counter \in [lo : 0 .. Half - 1, hi : Nat, mode : {"capt", "stat"}]
      /\ read \in [pc : {"idle", "high", "reset", "mode"}, lo : 0 .. Half - 1, hi : Nat]
      /\ counted \in [seen : Nat, reported : Nat, lost : Nat, torn : BOOLEAN]
      /\ statLeft \in [packets : Nat, calls : Nat, power : Nat]
      /\ tap \in {"idle", "counting"}
      /\ Half \in Nat \ {0} /\ StatCountInv
  BY DEF StatInv, StatTypeOK, StatAssumption
<1>2. Value(0, 0) = 0 /\ Value(read.lo, read.hi) \in Nat
  BY <1>1, ValueIncremented
<1> DEFINE reads(r) == r \in [pc : {"idle", "high", "reset", "mode"}, lo : 0 .. Half - 1, hi : Nat]
<1>3. CASE TapSeesStat
  <2>1. /\ statLeft' = [statLeft EXCEPT !.packets = @ - 1] /\ statLeft.packets > 0
        /\ tap' = "counting" /\ UNCHANGED <<counter, read, counted>>
    BY <1>3 DEF TapSeesStat
  <2>2. statLeft' \in [packets : Nat, calls : Nat, power : Nat]
    BY <1>1, <2>1
  <2> QED
    BY <1>1, <2>1, <2>2 DEF StatInv, StatTypeOK, StatCountInv
<1>4. ASSUME statLeft' = [statLeft EXCEPT !.calls = @ - 1], statLeft.calls > 0
      PROVE  statLeft' \in [packets : Nat, calls : Nat, power : Nat]
  BY <1>1, <1>4, SMTT(30)
<1>5. CASE StatReadLow
  <2>1. statLeft' \in [packets : Nat, calls : Nat, power : Nat]
    BY <1>4, <1>5 DEF StatReadLow
  <2>2. /\ read' = [read EXCEPT !.pc = "high", !.lo = counter.lo] /\ read.pc = "idle"
        /\ UNCHANGED <<counter, tap, counted>>
    BY <1>5 DEF StatReadLow
  <2>3. read'.pc = "high" /\ read'.lo = counter.lo /\ reads(read')
    BY <1>1, <2>2
  <2> QED
    BY <1>1, <2>1, <2>2, <2>3 DEF StatInv, StatTypeOK, StatCountInv
<1>6. CASE StatReadHigh
  <2>1. /\ read' = [read EXCEPT !.pc = "reset", !.hi = counter.hi] /\ read.pc = "high"
        /\ UNCHANGED <<counter, tap, counted, statLeft>>
    BY <1>6 DEF StatReadHigh
  <2>2. read'.pc = "reset" /\ read'.lo = read.lo /\ read'.hi = counter.hi /\ reads(read')
    BY <1>1, <2>1
  <2> QED
    BY <1>1, <2>1, <2>2 DEF StatInv, StatTypeOK, StatCountInv
<1>7. 0 \in 0 .. Half - 1
  BY <1>1
<1>8. ASSUME ZeroCounters
      PROVE  /\ counter' \in [lo : 0 .. Half - 1, hi : Nat, mode : {"capt", "stat"}]
             /\ counter'.lo = 0 /\ counter'.hi = 0
  BY <1>1, <1>7, <1>8 DEF ZeroCounters
<1>9. ASSUME read' = NoRead
      PROVE  reads(read') /\ read'.pc = "idle"
  BY <1>7, <1>9 DEF NoRead
<1>10. CASE StatReadResets
  <2> DEFINE n == Value(read.lo, read.hi)
  <2>1. /\ counted' = [counted EXCEPT !.reported = @ + n] /\ read.pc = "reset"
        /\ tap' = tap /\ statLeft' = statLeft
    BY <1>10 DEF StatReadResets
  <2>2. n \in Nat
    BY <1>2
  <2> HIDE DEF n
  <2>3. /\ counted'.seen = counted.seen /\ counted'.reported = counted.reported + n
        /\ counted'.lost = counted.lost /\ (counted'.torn <=> counted.torn)
        /\ counted' \in [seen : Nat, reported : Nat, lost : Nat, torn : BOOLEAN]
    BY <1>1, <2>1, <2>2, SMTT(30)
  <2>4. StatTypeOK'
    BY <1>1, <1>8, <1>9, <1>10, <2>1, <2>3 DEF StatReadResets, StatTypeOK
  <2>5. ~counted.torn => counted'.seen = counted'.reported + counted'.lost
    BY <1>1, <2>1, <2>2, <2>3 DEF StatCountInv, n
  <2>6. /\ counter'.lo = 0 /\ counter'.hi = 0 /\ read'.pc = "idle"
    BY <1>8, <1>9, <1>10 DEF StatReadResets
  <2>7. StatCountInv'
    BY <1>1, <1>2, <2>3, <2>5, <2>6 DEF StatCountInv
  <2> QED
    BY <2>4, <2>7 DEF StatInv
<1>11. CASE SetModeCapt
  <2>1. /\ counter' = [counter EXCEPT !.mode = "capt"]
        /\ UNCHANGED <<tap, read, counted>>
    BY <1>11 DEF SetModeCapt
  <2>2. /\ counter'.lo = counter.lo /\ counter'.hi = counter.hi
        /\ counter' \in [lo : 0 .. Half - 1, hi : Nat, mode : {"capt", "stat"}]
    BY <1>1, <2>1
  <2>3. statLeft' \in [packets : Nat, calls : Nat, power : Nat]
    BY <1>4, <1>11 DEF SetModeCapt
  <2> QED
    BY <1>1, <2>1, <2>2, <2>3 DEF StatInv, StatTypeOK, StatCountInv
<1>12. CASE SetModeStat
  <2>1. /\ counter' = [counter EXCEPT !.mode = "stat"] /\ read' = [read EXCEPT !.pc = "mode"]
        /\ UNCHANGED <<tap, counted>>
    BY <1>12 DEF SetModeStat
  <2>2. counter' \in [lo : 0 .. Half - 1, hi : Nat, mode : {"capt", "stat"}]
    BY <1>1, <2>1
  <2>3. read'.pc = "mode" /\ reads(read')
    BY <1>1, <2>1
  <2>4. statLeft' \in [packets : Nat, calls : Nat, power : Nat]
    BY <1>4, <1>12 DEF SetModeStat
  <2> QED
    BY <1>1, <2>1, <2>2, <2>3, <2>4 DEF StatInv, StatTypeOK, StatCountInv
<1>13. CASE SetModeResets
  <2>1. counted' = NothingCounted /\ tap' = tap /\ statLeft' = statLeft
    BY <1>13 DEF SetModeResets
  <2>2. StatTypeOK'
    BY <1>1, <1>8, <1>9, <1>13, <2>1 DEF SetModeResets, NothingCounted, StatTypeOK
  <2>3. /\ counter'.lo = 0 /\ counter'.hi = 0 /\ read'.pc = "idle"
        /\ counted'.seen = 0 /\ counted'.reported = 0 /\ counted'.lost = 0
    BY <1>8, <1>9, <1>13, <2>1 DEF SetModeResets, NothingCounted
  <2>4. StatCountInv'
    BY <1>2, <2>3 DEF StatCountInv
  <2> QED
    BY <2>2, <2>4 DEF StatInv
<1> QED
  BY <1>3, <1>5, <1>6, <1>10, <1>11, <1>12, <1>13

(* Nothing of the clock counts packets.                                    *)
LEMMA ClockKeepsStat ==
  ASSUME StatInv, ClockNext
  PROVE  StatInv'
<1>1. UNCHANGED <<counter, tap, read, counted>>
  BY DEF ClockNext, OpenCounts, CleanupCounts, CleanupDesyncs, TestsReference, SyncStep,
         SyncReturns, PowerEvent, NPF_PowerChange, KeepStatistics
<1>2. statLeft' = statLeft \/ PowerEvent
  BY DEF ClockNext, OpenCounts, CleanupCounts, CleanupDesyncs, TestsReference, SyncStep,
         SyncReturns, NPF_PowerChange
<1>3. statLeft' \in [packets : Nat, calls : Nat, power : Nat]
  BY <1>2 DEF StatInv, StatTypeOK, PowerEvent
<1> QED
  BY <1>1, <1>3 DEF StatInv, StatTypeOK, StatCountInv

LEMMA StatInvariance == StatisticsSpec => []StatInv
<1>1. StatisticsInit => StatInv
  <2>1. Value(0, 0) = 0
    BY StatAssumption, ValueIncremented DEF StatAssumption
  <2> QED
    BY StatAssumption, <2>1 DEF StatisticsInit, StatInit, NoRead, NothingCounted, StatInv, StatTypeOK,
                          StatCountInv, StatAssumption
<1>2. StatInv /\ [StatNext \/ ClockNext]_statVars => StatInv'
  <2> SUFFICES ASSUME StatInv, [StatNext \/ ClockNext]_statVars PROVE StatInv'
    OBVIOUS
  <2>1. CASE StatNext
    BY <2>1, StatAssumption, TapCountsKeeps, StatCallsKeep DEF StatNext
  <2>2. CASE ClockNext
    BY <2>2, ClockKeepsStat
  <2>3. CASE UNCHANGED statVars
    BY <2>3 DEF statVars, StatInv, StatTypeOK, StatCountInv
  <2> QED
    BY <2>1, <2>2, <2>3
<1> QED
  BY <1>1, <1>2, PTL DEF StatisticsSpec

(* NPF_Read copies the halves of the counters without CountersLock and     *)
(* zeroes them with it (Read.c:188-195), while NPF_tap counts              *)
(* (Read.c:557-569): the only packets it loses are those counted in        *)
(* between, and it reports none twice.                                     *)
THEOREM StatisticsAreCounted == StatisticsSpec => []StatisticsCount
<1>1. StatInv => StatisticsCount
  BY DEF StatInv, StatCountInv, StatisticsCount
<1> QED
  BY <1>1, StatInvariance, PTL

-------------------------------------------------------------------------------
(* The steps of TIME_SYNCHRONIZE in each mode (time_calls.h).              *)
Last == Len(TIME_SYNCHRONIZE)

LEMMA SyncSteps ==
  ASSUME StatAssumption, clock.mode \in TimestampModes
  PROVE  LET n == Cardinality(ClockCpus) IN
         /\ n \in Nat \ {0} /\ ClockCpus = 1 .. n
         /\ clock.mode = "qst" => Last = 1 /\ TIME_SYNCHRONIZE[1] = "reference"
         /\ clock.mode = "rdtsc" => /\ Last = 2 /\ TIME_SYNCHRONIZE[1] = "reference"
                                    /\ TIME_SYNCHRONIZE[2] = "offset"
         /\ clock.mode = "kqpc" => /\ Last = 2 /\ TIME_SYNCHRONIZE[1] = "offset"
                                   /\ TIME_SYNCHRONIZE[2] = "reference"
         /\ clock.mode = "percpu" => /\ Last = n + 1 /\ TIME_SYNCHRONIZE[n + 1] = "reference"
                                     /\ \A i \in 1 .. n : TIME_SYNCHRONIZE[i] = "offset"
<1> DEFINE n == Cardinality(ClockCpus)
<1>1. n \in Nat \ {0} /\ ClockCpus = 1 .. n
  <2>1. n \in Nat /\ (n = 0 => ClockCpus = {})
    BY FS_CardinalityType, FS_EmptySet DEF StatAssumption
  <2> QED
    BY <2>1 DEF StatAssumption
<1>2. CASE clock.mode = "qst"
  <2>1. TIME_SYNCHRONIZE = <<"reference">>
    BY <1>2 DEF TIME_SYNCHRONIZE
  <2> QED
    BY <1>1, <1>2, <2>1 DEF Last
<1> DEFINE Kinds == {"reference", "offset"}
           ref == <<"reference">>
           one == <<"offset">>
<1>6. /\ ref \in Seq(Kinds) /\ Len(ref) = 1 /\ ref[1] = "reference"
      /\ one \in Seq(Kinds) /\ Len(one) = 1 /\ one[1] = "offset"
  OBVIOUS
<1>3. CASE clock.mode = "rdtsc"
  <2>1. TIME_SYNCHRONIZE = ref \o one
    BY <1>3 DEF TIME_SYNCHRONIZE, Offsets
  <2> HIDE DEF ref, one, Kinds
  <2>2. Len(ref \o one) = 2 /\ (ref \o one)[1] = "reference" /\ (ref \o one)[2] = "offset"
    BY <1>6, ConcatProperties
  <2> QED
    BY <1>1, <1>3, <2>1, <2>2 DEF Last
<1>4. CASE clock.mode = "kqpc"
  <2>1. TIME_SYNCHRONIZE = one \o ref
    BY <1>4 DEF TIME_SYNCHRONIZE, Offsets
  <2> HIDE DEF ref, one, Kinds
  <2>2. Len(one \o ref) = 2 /\ (one \o ref)[1] = "offset" /\ (one \o ref)[2] = "reference"
    BY <1>6, ConcatProperties
  <2> QED
    BY <1>1, <1>4, <2>1, <2>2 DEF Last
<1>5. CASE clock.mode = "percpu"
  <2> DEFINE off == [i \in 1 .. n |-> "offset"]
  <2>1. TIME_SYNCHRONIZE = off \o ref
    BY <1>5 DEF TIME_SYNCHRONIZE, Offsets
  <2>2. off \in Seq(Kinds)
    BY <1>1
  <2>4. Len(off) = n /\ \A i \in 1 .. n : off[i] = "offset"
    BY <1>1
  <2>5. n + 1 \in 1 .. n + 1 /\ ~(n + 1 <= n) /\ \A i \in 1 .. n : i \in 1 .. n + 1 /\ i <= n
    BY <1>1
  <2> HIDE DEF off, ref, Kinds, n
  <2>6. /\ Len(off \o ref) = n + 1
        /\ \A i \in 1 .. n + 1 : (off \o ref)[i] = IF i <= n THEN off[i] ELSE ref[i - n]
    <3>1. /\ Len(off \o ref) = Len(off) + Len(ref)
          /\ \A i \in 1 .. Len(off) + Len(ref) :
               (off \o ref)[i] = IF i <= Len(off) THEN off[i] ELSE ref[i - Len(off)]
      BY <1>6, <2>2, ConcatProperties, ZenonT(40)
    <3> QED
      BY <1>6, <2>4, <3>1
  <2>7. (n + 1) - n = 1
    BY <1>1
  <2>3. /\ Len(off \o ref) = n + 1 /\ (off \o ref)[n + 1] = "reference"
        /\ \A i \in 1 .. n : (off \o ref)[i] = "offset"
    BY <1>6, <2>4, <2>5, <2>6, <2>7
  <2> QED
    BY <1>1, <1>5, <2>1, <2>3 DEF Last, n
<1> QED
  BY <1>1, <1>2, <1>3, <1>4, <1>5 DEF TimestampModes

-------------------------------------------------------------------------------
(* What a step leaves of the other actors, and of the number of instances. *)
LEMMA ActorFacts ==
  ASSUME StatAssumption
  PROVE  Power \in Actors /\ Openers \subseteq Actors /\ Power \notin Openers
         /\ \A a \in Actors : a = Power \/ a \in Openers
BY DEF StatAssumption, Actors, Power

OpenerPlaces == {"closed", "tests", "syncs", "open", "last", "gone"}
PowerPlaces == {"idle", "wakes", "tests", "syncs"}

LEMMA Goes ==
  ASSUME StatAssumption, ClockTypeOK, NEW a \in Actors, NEW place, ClientGoes(a, place),
         place \in IF a = Power THEN PowerPlaces ELSE OpenerPlaces
  PROVE  /\ client'[a].at = place /\ client'[a].step = 1
         /\ \A b \in Actors \ {a} : client'[b] = client[b]
         /\ client' \in [Actors -> [at : {"closed", "tests", "syncs", "open", "last", "gone",
                                          "idle", "wakes"}, step : Nat \ {0}]]
         /\ client'[Power].at \in PowerPlaces
         /\ \A o \in Openers : client'[o].at \in OpenerPlaces
<1>1. /\ client' = [client EXCEPT ![a] = [at |-> place, step |-> 1]]
      /\ client \in [Actors -> [at : {"closed", "tests", "syncs", "open", "last", "gone",
                                      "idle", "wakes"}, step : Nat \ {0}]]
      /\ client[Power].at \in PowerPlaces
      /\ \A o \in Openers : client[o].at \in OpenerPlaces
  BY DEF ClientGoes, ClockTypeOK, PowerPlaces, OpenerPlaces
<1>2. /\ client'[a].at = place /\ client'[a].step = 1
      /\ \A b \in Actors \ {a} : client'[b] = client[b]
  BY <1>1
<1>3. place \in {"closed", "tests", "syncs", "open", "last", "gone", "idle", "wakes"}
  BY DEF PowerPlaces, OpenerPlaces
<1>4. [at |-> place, step |-> 1] \in
        [at : {"closed", "tests", "syncs", "open", "last", "gone", "idle", "wakes"},
         step : Nat \ {0}]
  BY <1>3
<1>5. client'[Power].at \in PowerPlaces /\ \A o \in Openers : client'[o].at \in OpenerPlaces
  BY <1>1, <1>2, ActorFacts
<1> QED
  BY <1>1, <1>2, <1>4, <1>5

CountedPlaces == {"tests", "syncs", "open"}

LEMMA CountedOpeners ==
  ASSUME StatAssumption, ClockTypeOK, NEW a \in Actors,
         \A b \in Openers \ {a} : client'[b].at = client[b].at
  PROVE  /\ Cardinality(Counted) \in Nat
         /\ Cardinality(Counted) = 0 <=> Counted = {}
         /\ a = Power \/ (client[a].at \in CountedPlaces <=> client'[a].at \in CountedPlaces) =>
              Cardinality(Counted)' = Cardinality(Counted)
         /\ a # Power /\ client[a].at \notin CountedPlaces /\ client'[a].at \in CountedPlaces =>
              Cardinality(Counted)' = Cardinality(Counted) + 1
         /\ a # Power /\ client[a].at \in CountedPlaces /\ client'[a].at \notin CountedPlaces =>
              Cardinality(Counted)' = Cardinality(Counted) - 1
<1>1. IsFiniteSet(Counted)
  BY FS_Subset DEF Counted, StatAssumption
<1>2. Cardinality(Counted) \in Nat /\ (Cardinality(Counted) = 0 <=> Counted = {})
  BY <1>1, FS_CardinalityType, FS_EmptySet
<1>3. CASE a = Power
  <2>1. Counted' = Counted
    BY <1>3, ActorFacts DEF Counted
  <2> QED
    BY <1>2, <1>3, <2>1
<1>4. CASE a # Power
  <2>1. a \in Openers
    BY <1>4, ActorFacts
  <2>2. /\ client[a].at \in CountedPlaces <=> a \in Counted
        /\ Counted' = IF client'[a].at \in CountedPlaces THEN Counted \cup {a} ELSE Counted \ {a}
    BY <2>1 DEF Counted, CountedPlaces
  <2>3. Cardinality(Counted \cup {a})
          = IF a \in Counted THEN Cardinality(Counted) ELSE Cardinality(Counted) + 1
    BY <1>1, FS_AddElement
  <2>4. Cardinality(Counted \ {a})
          = IF a \in Counted THEN Cardinality(Counted) - 1 ELSE Cardinality(Counted)
    BY <1>1, FS_RemoveElement
  <2> QED
    BY <1>2, <1>4, <2>2, <2>3, <2>4
<1> QED
  BY <1>3, <1>4

ClockRecord == [mode : TimestampModes, reference : {0, 1}, synced : SUBSET ClockCpus,
                instances : Nat, zeroed : BOOLEAN, skipped : BOOLEAN]

\* the instances are counted whatever else a step does
LEMMA InstancesAreCounted ==
  ASSUME StatAssumption, ClockInv, NEW a \in Actors,
         \A b \in Actors \ {a} : client'[b] = client[b],
         \/ /\ a = Power \/ (client[a].at \in CountedPlaces <=> client'[a].at \in CountedPlaces)
            /\ clock'.instances = clock.instances
         \/ /\ a # Power /\ client[a].at \notin CountedPlaces /\ client'[a].at \in CountedPlaces
            /\ clock'.instances = clock.instances + 1
         \/ /\ a # Power /\ client[a].at \in CountedPlaces /\ client'[a].at \notin CountedPlaces
            /\ clock'.instances = clock.instances - 1
  PROVE  clock'.instances = Cardinality(Counted)' /\ clock.instances = Cardinality(Counted)
<1>1. ClockTypeOK /\ clock.instances = Cardinality(Counted)
  BY DEF ClockInv
<1>2. \A b \in Openers \ {a} : client'[b].at = client[b].at
  BY ActorFacts
<1> QED
  BY <1>1, <1>2, CountedOpeners

AllStored == \A a \in Actors : ClientAt(a, "syncs") /\ (a = Power \/ Settled) => Stored(a)

LEMMA OpenCountsKeeps ==
  ASSUME StatAssumption, ClockInv, NEW o \in Openers, OpenCounts(o)
  PROVE  ClockInv'
<1> USE ActorFacts, StatAssumption
<1>1. ClockTypeOK /\ clock \in ClockRecord /\ AllStored
  BY DEF ClockInv, ClockTypeOK, ClockRecord, AllStored
<1>2. client[o].at = "closed" /\ clock' = [clock EXCEPT !.instances = @ + 1]
  BY DEF OpenCounts, ClientAt
<1>3. /\ client'[o].at = "tests" /\ client'[o].step = 1
      /\ \A b \in Actors \ {o} : client'[b] = client[b]
      /\ client' \in [Actors -> [at : {"closed", "tests", "syncs", "open", "last", "gone",
                                       "idle", "wakes"}, step : Nat \ {0}]]
      /\ client'[Power].at \in PowerPlaces
      /\ \A p \in Openers : client'[p].at \in OpenerPlaces
  BY <1>1, Goes DEF OpenCounts, OpenerPlaces
<1>4. /\ clock' \in ClockRecord /\ clock'.instances = clock.instances + 1
      /\ clock'.mode = clock.mode /\ clock'.reference = clock.reference
      /\ clock'.synced = clock.synced /\ clock'.zeroed = clock.zeroed
      /\ clock'.skipped = clock.skipped
  BY <1>1, <1>2 DEF ClockRecord
<1>5. ClockTypeOK'
  BY <1>3, <1>4 DEF ClockTypeOK, ClockRecord, PowerPlaces, OpenerPlaces
<1>6. clock'.instances = Cardinality(Counted)'
  BY <1>2, <1>3, <1>4, InstancesAreCounted DEF CountedPlaces
<1>7. AllStored'
  BY <1>1, <1>3, <1>4 DEF AllStored, Stored, Settled, AllSynced, ClientAt
<1>8. OffsetsFirst'
  BY <1>2, <1>3, <1>4 DEF ClockInv, OffsetsFirst, Settled, AllSynced, ClientAt
<1>9. ReferenceOwned'
  BY <1>2, <1>3, <1>4 DEF ClockInv, ReferenceOwned, Settled, AllSynced, ClientAt
<1> QED
  BY <1>5, <1>6, <1>7, <1>8, <1>9 DEF ClockInv, AllStored

LEMMA TestsReferenceKeeps ==
  ASSUME StatAssumption, ClockInv, NEW a \in Actors, TestsReference(a)
  PROVE  ClockInv'
<1> USE ActorFacts, StatAssumption
<1> DEFINE place == IF clock.reference # 0 THEN Ready(a) ELSE "syncs"
<1>1. ClockTypeOK /\ clock \in ClockRecord /\ AllStored
  BY DEF ClockInv, ClockTypeOK, ClockRecord, AllStored
<1>2. /\ client[a].at = "tests" /\ ClientGoes(a, place)
      /\ clock' = [clock EXCEPT !.skipped = @ \/ (a = Power /\ clock.reference # 0)]
  BY DEF TestsReference, ClientAt
<1>3. place \in IF a = Power THEN PowerPlaces ELSE OpenerPlaces
  BY DEF Ready, PowerPlaces, OpenerPlaces
<1>4. /\ client'[a].at = place /\ client'[a].step = 1
      /\ \A b \in Actors \ {a} : client'[b] = client[b]
      /\ client' \in [Actors -> [at : {"closed", "tests", "syncs", "open", "last", "gone",
                                       "idle", "wakes"}, step : Nat \ {0}]]
      /\ client'[Power].at \in PowerPlaces
      /\ \A p \in Openers : client'[p].at \in OpenerPlaces
  <2> HIDE DEF place
  <2> QED
    BY <1>1, <1>2, <1>3, Goes
<1>5. /\ clock' \in ClockRecord /\ clock'.instances = clock.instances
      /\ clock'.mode = clock.mode /\ clock'.reference = clock.reference
      /\ clock'.synced = clock.synced /\ clock'.zeroed = clock.zeroed
      /\ clock'.skipped <=> clock.skipped \/ (a = Power /\ clock.reference # 0)
  BY <1>1, <1>2 DEF ClockRecord
<1>6. ClockTypeOK'
  BY <1>4, <1>5 DEF ClockTypeOK, ClockRecord, PowerPlaces, OpenerPlaces
<1>7. clock'.instances = Cardinality(Counted)'
  BY <1>2, <1>4, <1>5, InstancesAreCounted DEF CountedPlaces, Ready
\* who begins has stored nothing yet
<1>10. client'[a].at = "syncs" => Stored(a)'
  <2>1. \A i \in ClockCpus : ~(i < 1)
    <3>1. ClockCpus = 1 .. Cardinality(ClockCpus) /\ Cardinality(ClockCpus) \in Nat
      BY FS_CardinalityType DEF StatAssumption
    <3> QED
      BY <3>1
  <2> QED
    BY <1>4, <1>5, <2>1 DEF Stored
<1>8. CASE a = Power
  <2>1. ~Settled'
    BY <1>4, <1>5, <1>8 DEF Settled, ClientAt, Ready
  <2>2. AllStored'
    BY <1>4, <1>8, <1>10, <2>1 DEF AllStored, ClientAt
  <2>3. OffsetsFirst' /\ ReferenceOwned'
    BY <1>1, <1>2, <1>4, <1>5, <1>8, <2>1 DEF ClockInv, OffsetsFirst, ReferenceOwned, ClientAt,
                                              Ready
  <2> QED
    BY <1>6, <1>7, <2>2, <2>3 DEF ClockInv, AllStored
<1>9. CASE a # Power
  <2>1. Settled' <=> Settled
    BY <1>4, <1>5, <1>9 DEF Settled, ClientAt
  <2>2. AllStored'
    <3>1. ASSUME NEW b \in Actors \ {a}, client'[b].at = "syncs", b = Power \/ Settled
          PROVE  Stored(b)'
      BY <1>1, <1>4, <1>5, <3>1 DEF AllStored, Stored, ClientAt, AllSynced
    <3> QED
      BY <1>10, <2>1, <3>1 DEF AllStored, ClientAt
  <2>3. OffsetsFirst'
    BY <1>1, <1>2, <1>4, <1>5, <1>9, <2>1 DEF ClockInv, OffsetsFirst, ClientAt, Ready, AllSynced
  <2>4. ReferenceOwned'
    BY <1>1, <1>2, <1>4, <1>5, <1>9, <2>1 DEF ClockInv, ReferenceOwned, ClientAt, Ready, AllSynced
  <2> QED
    BY <1>6, <1>7, <2>2, <2>3, <2>4 DEF ClockInv, AllStored
<1> QED
  BY <1>8, <1>9

LEMMA SyncReturnsKeeps ==
  ASSUME StatAssumption, ClockInv, NEW a \in Actors, SyncReturns(a)
  PROVE  ClockInv'
<1> USE ActorFacts, StatAssumption
<1>1. ClockTypeOK /\ AllStored /\ clock.mode \in TimestampModes
  BY DEF ClockInv, ClockTypeOK, AllStored
<1>2. /\ client[a].at = "syncs" /\ client[a].step > Last /\ client[a].step \in Nat
      /\ ClientGoes(a, Ready(a)) /\ clock' = clock
  BY <1>1 DEF SyncReturns, ClientAt, ClockTypeOK, Last
<1>3. Ready(a) \in IF a = Power THEN PowerPlaces ELSE OpenerPlaces
  BY DEF Ready, PowerPlaces, OpenerPlaces
<1>4. /\ client'[a].at = Ready(a) /\ client'[a].step = 1
      /\ \A b \in Actors \ {a} : client'[b] = client[b]
      /\ client' \in [Actors -> [at : {"closed", "tests", "syncs", "open", "last", "gone",
                                       "idle", "wakes"}, step : Nat \ {0}]]
      /\ client'[Power].at \in PowerPlaces
      /\ \A p \in Openers : client'[p].at \in OpenerPlaces
  BY <1>1, <1>2, <1>3, Goes
<1>5. ClockTypeOK'
  BY <1>1, <1>2, <1>4 DEF ClockTypeOK, PowerPlaces, OpenerPlaces
<1>6. clock'.instances = Cardinality(Counted)'
  BY <1>2, <1>4, InstancesAreCounted DEF CountedPlaces, Ready
\* whoever returns has stored the offsets, unless a change of power undid them
<1>7. clock.mode # "qst" /\ (a = Power \/ Settled) => AllSynced
  <2> DEFINE n == Cardinality(ClockCpus)
  <2>1. Stored(a) \/ ~(a = Power \/ Settled)
    BY <1>1, <1>2 DEF AllStored, ClientAt
  <2>2. n \in Nat \ {0} /\ ClockCpus = 1 .. n
    BY <1>1, SyncSteps
  <2>3. CASE clock.mode = "percpu" /\ Stored(a)
    <3>1. Last = n + 1
      BY <1>1, <2>3, SyncSteps
    <3>2. \A i \in ClockCpus : i \in clock.synced
      BY <1>2, <2>2, <2>3, <3>1 DEF Stored
    <3> QED
      BY <1>1, <3>2 DEF AllSynced, ClockTypeOK
  <2>4. CASE clock.mode \in {"kqpc", "rdtsc"} /\ Stored(a)
    <3>1. Last = 2
      BY <1>1, <2>4, SyncSteps
    <3> QED
      BY <1>2, <2>4, <3>1 DEF Stored
  <2> QED
    BY <1>1, <2>1, <2>3, <2>4 DEF TimestampModes
<1>8. AllStored'
  BY <1>1, <1>2, <1>4, <1>7 DEF AllStored, Stored, ClientAt, Ready, AllSynced, Settled, ClockTypeOK
<1>9. OffsetsFirst'
  BY <1>1, <1>2, <1>4, <1>7 DEF ClockInv, OffsetsFirst, ClientAt, Ready, AllSynced, Settled
<1>10. ReferenceOwned'
  <2>1. SUFFICES ASSUME clock.mode = "rdtsc" PROVE ReferenceOwned'
    BY <1>2 DEF ReferenceOwned
  <2>2. client[a].step > 2
    BY <1>1, <1>2, <2>1, SyncSteps
  <2> QED
    BY <1>1, <1>2, <1>4, <1>7, <2>1, <2>2
    DEF ClockInv, ReferenceOwned, ClientAt, Ready, AllSynced, Settled
<1> QED
  BY <1>5, <1>6, <1>8, <1>9, <1>10 DEF ClockInv, AllStored

LEMMA SyncStepKeeps ==
  ASSUME StatAssumption, ClockInv, NEW a \in Actors, SyncStep(a)
  PROVE  ClockInv'
<1> USE ActorFacts, StatAssumption
<1> DEFINE n == Cardinality(ClockCpus)
           s == client[a].step
<1>1. ClockTypeOK /\ clock \in ClockRecord /\ AllStored /\ clock.mode \in TimestampModes
  BY DEF ClockInv, ClockTypeOK, ClockRecord, AllStored
<1>2. /\ client[a].at = "syncs" /\ s \in Nat \ {0} /\ s <= Last
      /\ client' = [client EXCEPT ![a].step = @ + 1]
      /\ clock' = IF TIME_SYNCHRONIZE[s] = "reference"
                  THEN [clock EXCEPT !.reference = 1, !.zeroed = FALSE]
                  ELSE [clock EXCEPT !.synced = Corrected(s)]
  BY <1>1 DEF SyncStep, ClientAt, ClockTypeOK, Last
<1>3. /\ client'[a].at = "syncs" /\ client'[a].step = s + 1
      /\ \A b \in Actors \ {a} : client'[b] = client[b]
      /\ \A b \in Actors : client'[b].at = client[b].at
      /\ client' \in [Actors -> [at : {"closed", "tests", "syncs", "open", "last", "gone",
                                       "idle", "wakes"}, step : Nat \ {0}]]
  BY <1>1, <1>2 DEF ClockTypeOK
<1>4. n \in Nat \ {0} /\ ClockCpus = 1 .. n
  BY <1>1, SyncSteps
\* the step is one of the offsets or the reference, in an order that depends on the mode
<1>5. /\ clock.mode = "qst" => s = 1 /\ TIME_SYNCHRONIZE[s] = "reference"
      /\ clock.mode = "rdtsc" => \/ s = 1 /\ TIME_SYNCHRONIZE[s] = "reference"
                                 \/ s = 2 /\ TIME_SYNCHRONIZE[s] = "offset"
      /\ clock.mode = "kqpc" => \/ s = 2 /\ TIME_SYNCHRONIZE[s] = "reference"
                                \/ s = 1 /\ TIME_SYNCHRONIZE[s] = "offset"
      /\ clock.mode = "percpu" => \/ s = n + 1 /\ TIME_SYNCHRONIZE[s] = "reference"
                                  \/ s \in 1 .. n /\ TIME_SYNCHRONIZE[s] = "offset"
  BY <1>1, <1>2, <1>4, SyncSteps
<1>6. /\ TIME_SYNCHRONIZE[s] # "reference" =>
           /\ Corrected(s) \subseteq ClockCpus /\ clock.synced \subseteq Corrected(s)
           /\ clock.mode = "percpu" => Corrected(s) = clock.synced \cup {s}
           /\ clock.mode # "percpu" => Corrected(s) = ClockCpus
  BY <1>1, <1>4, <1>5 DEF Corrected, ClockRecord, TimestampModes
<1>7. /\ clock' \in ClockRecord /\ clock'.mode = clock.mode
      /\ clock'.instances = clock.instances /\ clock'.skipped = clock.skipped
      /\ TIME_SYNCHRONIZE[s] = "reference" =>
           clock'.reference = 1 /\ ~clock'.zeroed /\ clock'.synced = clock.synced
      /\ TIME_SYNCHRONIZE[s] # "reference" =>
           /\ clock'.reference = clock.reference /\ clock'.zeroed = clock.zeroed
           /\ clock'.synced = Corrected(s)
  <2> HIDE DEF s
  <2>1. CASE TIME_SYNCHRONIZE[s] = "reference"
    BY <1>1, <1>2, <2>1 DEF ClockRecord
  <2>2. CASE TIME_SYNCHRONIZE[s] # "reference"
    BY <1>1, <1>2, <1>6, <2>2 DEF ClockRecord
  <2> QED
    BY <2>1, <2>2
<1>8. /\ clock.synced \subseteq clock'.synced /\ clock'.synced \subseteq ClockCpus
      /\ AllSynced => AllSynced'
      /\ Settled' <=> Settled
  <2>1. clock.synced \subseteq clock'.synced /\ clock'.synced \subseteq ClockCpus
    BY <1>1, <1>6, <1>7 DEF ClockRecord
  <2>2. AllSynced => AllSynced'
    BY <2>1 DEF AllSynced
  <2>3. Settled' <=> Settled
    <3> HIDE DEF s
    <3> QED
      BY <1>3, <1>7 DEF Settled, ClientAt
  <2> QED
    BY <2>1, <2>2, <2>3
<1>9. ClockTypeOK'
  BY <1>1, <1>3, <1>7 DEF ClockTypeOK, ClockRecord
<1>10. clock'.instances = Cardinality(Counted)'
  BY <1>3, <1>7, InstancesAreCounted
<1>11. AllStored'
  <2>1. ASSUME NEW b \in Actors \ {a}, client'[b].at = "syncs", b = Power \/ Settled
        PROVE  Stored(b)'
    <3>1. Stored(b) /\ client'[b] = client[b]
      BY <1>1, <1>3, <2>1 DEF AllStored, ClientAt
    <3> QED
      BY <1>7, <1>8, <3>1 DEF Stored
  <2>2. ASSUME a = Power \/ Settled PROVE Stored(a)'
    <3>1. Stored(a)
      BY <1>1, <1>2, <2>2 DEF AllStored, ClientAt
    <3>2. ASSUME clock.mode = "percpu", NEW i \in ClockCpus, i < s + 1 PROVE i \in clock'.synced
      <4>1. i < s \/ i = s
        BY <1>2, <1>4, <3>2
      <4>2. CASE i < s
        BY <1>8, <3>1, <3>2, <4>2 DEF Stored
      <4>3. CASE i = s
        BY <1>4, <1>5, <1>6, <1>7, <3>2, <4>3
      <4> QED
        BY <4>1, <4>2, <4>3
    <3>3. clock.mode = "kqpc" => AllSynced'
      BY <1>5, <1>6, <1>7, <1>8, <3>1 DEF Stored, AllSynced
    <3>4. clock.mode = "rdtsc" /\ s + 1 > 2 => AllSynced'
      BY <1>5, <1>6, <1>7, <1>8, <3>1 DEF Stored, AllSynced
    <3> QED
      BY <1>3, <1>7, <3>2, <3>3, <3>4 DEF Stored
  <2> QED
    BY <1>8, <2>1, <2>2 DEF AllStored, ClientAt
<1>12. OffsetsFirst'
  <2>1. SUFFICES ASSUME clock.mode \in {"kqpc", "percpu"}, Settled,
                        clock'.reference # 0 \/ \E o \in Openers : client[o].at = "open"
                 PROVE  AllSynced'
    BY <1>3, <1>7, <1>8 DEF OffsetsFirst, ClientAt
  <2>2. CASE clock.reference # 0 \/ \E o \in Openers : client[o].at = "open"
    BY <1>8, <2>1, <2>2 DEF ClockInv, OffsetsFirst, ClientAt
  <2>3. CASE clock.reference = 0 /\ clock'.reference # 0
    <3>1. TIME_SYNCHRONIZE[s] = "reference" /\ Stored(a)
      BY <1>1, <1>2, <1>7, <2>1, <2>3 DEF AllStored, ClientAt
    <3>2. CASE clock.mode = "kqpc"
      BY <1>5, <1>8, <3>1, <3>2 DEF Stored
    <3>3. CASE clock.mode = "percpu"
      <4>1. s = n + 1
        BY <1>5, <3>1, <3>3
      <4>2. \A i \in ClockCpus : i \in clock.synced
        BY <1>4, <3>1, <3>3, <4>1 DEF Stored
      <4> QED
        BY <1>1, <1>8, <4>2 DEF AllSynced, ClockRecord
    <3> QED
      BY <2>1, <3>2, <3>3
  <2> QED
    BY <2>1, <2>2, <2>3
<1>13. ReferenceOwned'
  <2>1. SUFFICES ASSUME clock.mode = "rdtsc" PROVE ReferenceOwned'
    BY <1>7 DEF ReferenceOwned
  <2>2. CASE s = 1
    <3>1. clock'.reference # 0
      BY <1>5, <1>7, <2>1, <2>2
    <3>2. a \in Openers \/ ~Settled
      BY <1>2 DEF Settled, ClientAt
    <3>3. Settled => client'[a].at = "syncs" /\ client'[a].step = 2 /\ a \in Openers
      BY <1>3, <2>2, <3>2
    <3> QED
      BY <1>8, <3>1, <3>3 DEF ReferenceOwned, ClientAt
  <2>3. CASE s # 1
    <3>1. s = 2 /\ AllSynced' /\ clock'.reference = clock.reference /\ clock'.zeroed = clock.zeroed
      BY <1>5, <1>6, <1>7, <2>1, <2>3 DEF AllSynced
    <3>2. ASSUME NEW o \in Openers,
                 client'[o].at = "open" \/ (client'[o].at = "syncs" /\ client'[o].step > 1)
          PROVE  \/ clock.reference # 0 \/ clock.zeroed
                 \/ ClientAt(Power, "tests")
                 \/ ClientAt(Power, "syncs") /\ client[Power].step = 1
      <4>1. client[o].at = "open" \/ (client[o].at = "syncs" /\ client[o].step > 1)
        BY <1>2, <1>3, <3>1, <3>2
      <4> QED
        BY <2>1, <4>1 DEF ClockInv, ReferenceOwned, ClientAt
    <3>3. client[Power] = client'[Power] \/ (a = Power /\ s = 2)
      BY <1>3, <3>1
    <3> QED
      BY <1>3, <3>1, <3>2, <3>3 DEF ReferenceOwned, ClientAt
  <2> QED
    BY <2>2, <2>3
<1> QED
  BY <1>9, <1>10, <1>11, <1>12, <1>13 DEF ClockInv, AllStored

LEMMA CleanupCountsKeeps ==
  ASSUME StatAssumption, ClockInv, NEW o \in Openers, CleanupCounts(o)
  PROVE  ClockInv'
<1> USE ActorFacts, StatAssumption
<1> DEFINE place == IF clock.instances = 1 THEN "last" ELSE "gone"
<1>1. ClockTypeOK /\ clock \in ClockRecord /\ AllStored /\ clock.instances = Cardinality(Counted)
  BY DEF ClockInv, ClockTypeOK, ClockRecord, AllStored
<1>2. /\ client[o].at = "open" /\ ClientGoes(o, place)
      /\ clock' = [clock EXCEPT !.instances = @ - 1]
  BY DEF CleanupCounts, ClientAt
<1>3. /\ client'[o].at = place /\ client'[o].step = 1 /\ place \in {"last", "gone"}
      /\ \A b \in Actors \ {o} : client'[b] = client[b]
      /\ client' \in [Actors -> [at : {"closed", "tests", "syncs", "open", "last", "gone",
                                       "idle", "wakes"}, step : Nat \ {0}]]
      /\ client'[Power].at \in PowerPlaces
      /\ \A p \in Openers : client'[p].at \in OpenerPlaces
  <2>1. place \in OpenerPlaces /\ place \in {"last", "gone"}
    BY DEF OpenerPlaces
  <2> HIDE DEF place
  <2> QED
    BY <1>1, <1>2, <2>1, Goes
\* this instance is one of those counted
<1>4. clock.instances - 1 \in Nat
  <2>1. o \in Counted
    BY <1>2 DEF Counted
  <2>2. Cardinality(Counted) \in Nat /\ Cardinality(Counted) # 0
    <3>1. IsFiniteSet(Counted)
      BY FS_Subset DEF Counted, StatAssumption
    <3> QED
      BY <2>1, <3>1, FS_CardinalityType, FS_EmptySet
  <2> QED
    BY <1>1, <2>2
<1>5. /\ clock' \in ClockRecord /\ clock'.instances = clock.instances - 1
      /\ clock'.mode = clock.mode /\ clock'.reference = clock.reference
      /\ clock'.synced = clock.synced /\ clock'.zeroed = clock.zeroed
      /\ clock'.skipped = clock.skipped
  BY <1>1, <1>2, <1>4 DEF ClockRecord
<1>6. ClockTypeOK'
  BY <1>3, <1>5 DEF ClockTypeOK, ClockRecord, PowerPlaces, OpenerPlaces
<1>7. clock'.instances = Cardinality(Counted)'
  BY <1>2, <1>3, <1>5, InstancesAreCounted DEF CountedPlaces
<1>8. AllStored'
  BY <1>1, <1>3, <1>5 DEF AllStored, Stored, Settled, AllSynced, ClientAt
<1>9. OffsetsFirst'
  BY <1>2, <1>3, <1>5 DEF ClockInv, OffsetsFirst, Settled, AllSynced, ClientAt
<1>10. ReferenceOwned'
  BY <1>2, <1>3, <1>5 DEF ClockInv, ReferenceOwned, Settled, AllSynced, ClientAt
<1> QED
  BY <1>6, <1>7, <1>8, <1>9, <1>10 DEF ClockInv, AllStored

LEMMA CleanupDesyncsKeeps ==
  ASSUME StatAssumption, ClockInv, NEW o \in Openers, CleanupDesyncs(o)
  PROVE  ClockInv'
<1> USE ActorFacts, StatAssumption
<1>1. ClockTypeOK /\ clock \in ClockRecord /\ AllStored /\ clock.instances = Cardinality(Counted)
  BY DEF ClockInv, ClockTypeOK, ClockRecord, AllStored
<1>2. /\ client[o].at = "last" /\ ClientGoes(o, "gone")
      /\ clock' = [[clock EXCEPT !.reference = 0] EXCEPT !.zeroed = @ \/ clock.instances > 0]
  BY DEF CleanupDesyncs, ClientAt, TIME_DESYNCHRONIZE
<1>3. /\ client'[o].at = "gone" /\ client'[o].step = 1
      /\ \A b \in Actors \ {o} : client'[b] = client[b]
      /\ client' \in [Actors -> [at : {"closed", "tests", "syncs", "open", "last", "gone",
                                       "idle", "wakes"}, step : Nat \ {0}]]
      /\ client'[Power].at \in PowerPlaces
      /\ \A p \in Openers : client'[p].at \in OpenerPlaces
  BY <1>1, <1>2, Goes DEF OpenerPlaces
<1>4. /\ clock' \in ClockRecord /\ clock'.instances = clock.instances
      /\ clock'.mode = clock.mode /\ clock'.reference = 0
      /\ clock'.synced = clock.synced /\ clock'.skipped = clock.skipped
      /\ clock'.zeroed <=> clock.zeroed \/ clock.instances > 0
  BY <1>1, <1>2 DEF ClockRecord
<1>5. ClockTypeOK'
  BY <1>3, <1>4 DEF ClockTypeOK, ClockRecord, PowerPlaces, OpenerPlaces
<1>6. clock'.instances = Cardinality(Counted)'
  BY <1>2, <1>3, <1>4, InstancesAreCounted DEF CountedPlaces
\* an instance that is open is one of those counted
<1>7. ASSUME NEW p \in Openers, client[p].at \in {"open", "syncs"} PROVE clock'.zeroed
  <2>1. p \in Counted
    BY <1>7 DEF Counted
  <2>2. Cardinality(Counted) \in Nat /\ Cardinality(Counted) # 0
    <3>1. IsFiniteSet(Counted)
      BY FS_Subset DEF Counted, StatAssumption
    <3> QED
      BY <2>1, <3>1, FS_CardinalityType, FS_EmptySet
  <2>3. clock.instances > 0
    BY <1>1, <2>2
  <2> QED
    BY <1>4, <2>3
<1>8. AllStored'
  BY <1>1, <1>3, <1>4 DEF AllStored, Stored, Settled, AllSynced, ClientAt
<1>9. OffsetsFirst'
  BY <1>2, <1>3, <1>4 DEF ClockInv, OffsetsFirst, Settled, AllSynced, ClientAt
<1>10. ReferenceOwned'
  BY <1>2, <1>3, <1>4, <1>7 DEF ReferenceOwned, ClientAt
<1> QED
  BY <1>5, <1>6, <1>8, <1>9, <1>10 DEF ClockInv, AllStored

LEMMA PowerEventKeeps ==
  ASSUME StatAssumption, ClockInv, PowerEvent
  PROVE  ClockInv'
<1> USE ActorFacts, StatAssumption
<1>1. ClockTypeOK /\ clock \in ClockRecord
  BY DEF ClockInv, ClockTypeOK, ClockRecord
<1>2. /\ client[Power].at = "idle" /\ ClientGoes(Power, "wakes")
      /\ clock' = [clock EXCEPT !.synced = {}, !.skipped = FALSE]
  BY DEF PowerEvent, ClientAt
<1>3. /\ client'[Power].at = "wakes"
      /\ \A b \in Actors \ {Power} : client'[b] = client[b]
      /\ client' \in [Actors -> [at : {"closed", "tests", "syncs", "open", "last", "gone",
                                       "idle", "wakes"}, step : Nat \ {0}]]
      /\ \A p \in Openers : client'[p].at \in OpenerPlaces
  BY <1>1, <1>2, Goes DEF PowerPlaces
<1>4. /\ clock' \in ClockRecord /\ clock'.instances = clock.instances
      /\ clock'.mode = clock.mode /\ clock'.reference = clock.reference
      /\ clock'.zeroed = clock.zeroed
  BY <1>1, <1>2 DEF ClockRecord
<1>5. ClockTypeOK'
  BY <1>3, <1>4 DEF ClockTypeOK, ClockRecord, OpenerPlaces
<1>6. clock'.instances = Cardinality(Counted)'
  BY <1>3, <1>4, InstancesAreCounted
<1>7. ~Settled'
  BY <1>3 DEF Settled, ClientAt
<1>8. AllStored' /\ OffsetsFirst'
  BY <1>3, <1>7 DEF AllStored, OffsetsFirst, ClientAt
<1>9. ReferenceOwned'
  BY <1>2, <1>3, <1>4, <1>7 DEF ClockInv, ReferenceOwned, ClientAt
<1> QED
  BY <1>5, <1>6, <1>8, <1>9 DEF ClockInv, AllStored

LEMMA NPF_PowerChangeKeeps ==
  ASSUME StatAssumption, ClockInv, NPF_PowerChange
  PROVE  ClockInv'
<1> USE ActorFacts, StatAssumption
<1>1. ClockTypeOK /\ clock \in ClockRecord
  BY DEF ClockInv, ClockTypeOK, ClockRecord
<1>2. /\ client[Power].at = "wakes" /\ ClientGoes(Power, "tests")
      /\ clock' = [clock EXCEPT !.reference = 0]
  BY DEF NPF_PowerChange, ClientAt, TIME_DESYNCHRONIZE
<1>3. /\ client'[Power].at = "tests"
      /\ \A b \in Actors \ {Power} : client'[b] = client[b]
      /\ client' \in [Actors -> [at : {"closed", "tests", "syncs", "open", "last", "gone",
                                       "idle", "wakes"}, step : Nat \ {0}]]
      /\ \A p \in Openers : client'[p].at \in OpenerPlaces
  BY <1>1, <1>2, Goes DEF PowerPlaces
<1>4. clock' \in ClockRecord /\ clock'.instances = clock.instances /\ clock'.mode = clock.mode
  BY <1>1, <1>2 DEF ClockRecord
<1>5. ClockTypeOK'
  BY <1>3, <1>4 DEF ClockTypeOK, ClockRecord, OpenerPlaces
<1>6. clock'.instances = Cardinality(Counted)'
  BY <1>3, <1>4, InstancesAreCounted
<1>7. ~Settled'
  BY <1>3 DEF Settled, ClientAt
<1>8. AllStored' /\ OffsetsFirst' /\ ReferenceOwned'
  BY <1>3, <1>7 DEF AllStored, OffsetsFirst, ReferenceOwned, ClientAt
<1> QED
  BY <1>5, <1>6, <1>8 DEF ClockInv, AllStored

LEMMA ClockInvariance == StatisticsSpec => []ClockInv
<1> USE StatAssumption
<1>1. StatisticsInit => ClockInv
  <2> SUFFICES ASSUME NEW mode \in TimestampModes, ClockInit(mode, "closed") PROVE ClockInv
    BY DEF StatisticsInit
  <2>1. /\ clock \in ClockRecord /\ clock.mode = mode /\ clock.reference = 0
        /\ clock.instances = 0
    BY DEF ClockInit, ClockRecord
  <2>2. /\ client \in [Actors -> [at : {"closed", "tests", "syncs", "open", "last", "gone",
                                        "idle", "wakes"}, step : Nat \ {0}]]
        /\ client[Power].at = "idle" /\ \A o \in Openers : client[o].at = "closed"
    BY ActorFacts DEF ClockInit
  <2>3. ClockTypeOK
    BY <2>1, <2>2 DEF ClockTypeOK, ClockRecord
  <2>4. Counted = {}
    BY <2>2 DEF Counted
  <2>5. clock.instances = Cardinality(Counted)
    BY <2>1, <2>4, FS_EmptySet
  <2>6. AllStored
    BY <2>2, ActorFacts DEF AllStored, ClientAt
  <2>7. OffsetsFirst /\ ReferenceOwned
    BY <2>1, <2>2 DEF OffsetsFirst, ReferenceOwned, ClientAt
  <2> QED
    BY <2>3, <2>5, <2>6, <2>7 DEF ClockInv, AllStored
<1>2. ClockInv /\ [StatNext \/ ClockNext]_statVars => ClockInv'
  <2> SUFFICES ASSUME ClockInv, [StatNext \/ ClockNext]_statVars PROVE ClockInv'
    OBVIOUS
  <2>1. CASE StatNext \/ UNCHANGED statVars
    <3>1. clock' = clock /\ client' = client
      BY <2>1 DEF StatNext, statVars, TapSeesStat, TapCounts, StatReadLow, StatReadHigh,
                  StatReadResets, SetModeCapt, SetModeStat, SetModeResets
    <3>2. Counted' = Counted
      BY <3>1 DEF Counted
    <3> QED
      BY <3>1, <3>2 DEF ClockInv, ClockTypeOK, Stored, Settled, AllSynced, OffsetsFirst,
                        ReferenceOwned, ClientAt
  <2>2. ASSUME NEW o \in Openers, OpenCounts(o) \/ CleanupCounts(o) \/ CleanupDesyncs(o)
        PROVE  ClockInv'
    BY <2>2, OpenCountsKeeps, CleanupCountsKeeps, CleanupDesyncsKeeps
  <2>3. ASSUME NEW a \in Actors, TestsReference(a) \/ SyncStep(a) \/ SyncReturns(a)
        PROVE  ClockInv'
    BY <2>3, TestsReferenceKeeps, SyncStepKeeps, SyncReturnsKeeps
  <2>4. CASE PowerEvent \/ NPF_PowerChange
    BY <2>4, PowerEventKeeps, NPF_PowerChangeKeeps
  <2> QED
    BY <2>1, <2>2, <2>3, <2>4 DEF ClockNext
<1> QED
  BY <1>1, <1>2, PTL DEF StatisticsSpec

(* TIME_SYNCHRONIZE, which NPF_Open and NPF_PowerChange call with no lock  *)
(* held (time_calls.h:284-330), leaves the clock running for any number of *)
(* applications, processors and changes of power, in every timestamp mode: *)
(* who finds the reference stored finds the offsets stored, or leaves them *)
(* to the one that stored it.                                              *)
THEOREM ClockKeepsRunning == StatisticsSpec => []ClockRuns
<1>1. ClockInv => ClockRuns
  <2> SUFFICES ASSUME ClockInv, NEW o \in Openers, ClientAt(o, "open"), ~Synchronizing,
                      ~clock.zeroed, ~clock.skipped
               PROVE  TimeRight
    BY DEF ClockRuns
  <2>1. ClockTypeOK /\ clock.mode \in TimestampModes
    BY DEF ClockInv, ClockTypeOK
  <2>2. ClientAt(Power, "idle") /\ Settled
    <3>1. ~(ClientAt(Power, "tests") \/ ClientAt(Power, "syncs") \/ ClientAt(Power, "wakes"))
      BY ActorFacts, StatAssumption DEF Synchronizing
    <3> QED
      BY <2>1, <3>1 DEF ClockTypeOK, ClientAt, Settled
  <2>3. CASE clock.mode \in {"kqpc", "percpu"}
    BY <2>2, <2>3 DEF ClockInv, OffsetsFirst, AllSynced, TimeRight
  <2>4. CASE clock.mode = "rdtsc"
    <3>1. ~ClientAt(Power, "tests") /\ ~ClientAt(Power, "syncs")
      BY <2>2 DEF ClientAt
    <3>2. clock.reference # 0
      BY <2>4, <3>1 DEF ClockInv, ReferenceOwned
    <3>3. ~ \E p \in Openers : ClientAt(p, "syncs") /\ client[p].step = 2
      BY <2>4, ActorFacts, StatAssumption DEF Synchronizing
    <3> QED
      BY <2>2, <2>4, <3>2, <3>3 DEF ClockInv, ReferenceOwned, AllSynced, TimeRight
  <2>5. CASE clock.mode = "qst"
    BY <2>5 DEF TimeRight
  <2> QED
    BY <2>1, <2>3, <2>4, <2>5 DEF TimestampModes
<1> QED
  BY <1>1, ClockInvariance, PTL
===============================================================================
