---------------------------- MODULE NPFStatistics ----------------------------
(***************************************************************************)
(* Two small protocols of the driver in which a pair of assignments is not *)
(* atomic: the counters of statistics mode, which NPF_tap increments under *)
(* CountersLock while NPF_Read copies them without it, half by half, and   *)
(* only then takes the lock to zero them; and the clock of time_calls.h,   *)
(* which the first NPF_Open synchronizes, the last NPF_Cleanup             *)
(* desynchronizes and NPF_PowerChange does both to, with no lock at all.   *)
(***************************************************************************)
EXTENDS Integers, Sequences, FiniteSets

CONSTANTS
  Half,          \* values of one half of a counter (2^32)
  StatPackets,   \* packets that pass the filter
  StatCalls,     \* BIOCSMODE and NPF_Read calls
  Openers,       \* applications that open the driver, once each
  ClockCpus,     \* processors, 1..n
  PowerChanges   \* power events

ASSUME StatAssumption ==
  /\ Half \in Nat \ {0}
  /\ Openers # {} /\ IsFiniteSet(Openers) /\ "power" \notin Openers
  /\ ClockCpus # {} /\ IsFiniteSet(ClockCpus) /\ ClockCpus = 1 .. Cardinality(ClockCpus)

VARIABLES
  counter,   \* Npackets.QuadPart, as its two halves, and Open->mode
  tap,       \* NPF_tap, past its test of the mode or not
  read,      \* NPF_Read or BIOCSMODE in statistics mode
  counted,   \* packets counted, reported and lost since BIOCSMODE
  clock,     \* G_Start_Time, and g_NumOpenedInstances
  client,    \* NPF_Open and NPF_Cleanup of the applications, and NPF_PowerChange
  statLeft   \* packets, calls and power events still to come

statVars == <<counter, tap, read, counted, clock, client, statLeft>>

-----------------------------------------------------------------------------
(* Statistics.  The file object is opened for synchronous I/O, so reads    *)
(* and BIOCSMODE of one handle exclude each other, but nothing excludes    *)
(* NPF_tap.                                                                *)

Value(lo, hi) == lo + Half * hi

(* NPF_tap: the packet passed the filter and the mode is MODE_STAT.        *)
TapSeesStat ==
  /\ tap = "idle" /\ statLeft.packets > 0 /\ counter.mode = "stat"
  /\ tap' = "counting"
  /\ statLeft' = [statLeft EXCEPT !.packets = @ - 1]
  /\ UNCHANGED <<counter, read, counted, clock, client>>

(* Npackets.QuadPart++ under CountersLock.                                 *)
Incremented(c) ==
  IF c.lo = Half - 1 THEN [c EXCEPT !.lo = 0, !.hi = @ + 1] ELSE [c EXCEPT !.lo = @ + 1]

(* Between the copy of the low half and the reset the packet is not in     *)
(* what the read reports; a carry between the halves spoils the report.    *)
TapCounts ==
  /\ tap = "counting"
  /\ counter' = Incremented(counter)
  /\ counted' = [counted EXCEPT
       !.seen = @ + 1,
       !.lost = IF read.pc \in {"high", "reset"} THEN @ + 1 ELSE @,
       !.torn = @ \/ (read.pc = "high" /\ counter.lo = Half - 1)]
  /\ tap' = "idle"
  /\ UNCHANGED <<read, clock, client, statLeft>>

NoRead == [pc |-> "idle", lo |-> 0, hi |-> 0]

(* NPF_Read with a buffer large enough; a smaller one is refused.          *)
StatReadLow ==
  /\ read.pc = "idle" /\ counter.mode = "stat" /\ statLeft.calls > 0
  /\ read' = [read EXCEPT !.pc = "high", !.lo = counter.lo]
  /\ statLeft' = [statLeft EXCEPT !.calls = @ - 1]
  /\ UNCHANGED <<counter, tap, counted, clock, client>>

StatReadHigh ==
  /\ read.pc = "high"
  /\ read' = [read EXCEPT !.pc = "reset", !.hi = counter.hi]
  /\ UNCHANGED <<counter, tap, counted, clock, client, statLeft>>

(* As if the upper half were forgotten.                                    *)
ZeroLow == counter' = [counter EXCEPT !.lo = 0]

ZeroCounters == counter' = [counter EXCEPT !.lo = 0, !.hi = 0]

StatReadResets ==
  /\ read.pc = "reset"
  /\ ZeroCounters
  /\ counted' = [counted EXCEPT !.reported = @ + Value(read.lo, read.hi)]
  /\ read' = NoRead
  /\ UNCHANGED <<tap, clock, client, statLeft>>

(* BIOCSMODE: the mode is stored before the lock is taken.  MODE_MON and   *)
(* MODE_DUMP are refused.                                                  *)
SetModeCapt ==
  /\ read.pc = "idle" /\ statLeft.calls > 0
  /\ counter' = [counter EXCEPT !.mode = "capt"]
  /\ statLeft' = [statLeft EXCEPT !.calls = @ - 1]
  /\ UNCHANGED <<tap, read, counted, clock, client>>

SetModeStat ==
  /\ read.pc = "idle" /\ statLeft.calls > 0
  /\ counter' = [counter EXCEPT !.mode = "stat"]
  /\ read' = [read EXCEPT !.pc = "mode"]
  /\ statLeft' = [statLeft EXCEPT !.calls = @ - 1]
  /\ UNCHANGED <<tap, counted, clock, client>>

NothingCounted == [seen |-> 0, reported |-> 0, lost |-> 0, torn |-> FALSE]

SetModeResets ==
  /\ read.pc = "mode"
  /\ ZeroCounters
  /\ counted' = NothingCounted
  /\ read' = NoRead
  /\ UNCHANGED <<tap, clock, client, statLeft>>

-----------------------------------------------------------------------------
(* The clock.  "synced" holds the processors whose offset start[i] is      *)
(* right; a change of power makes every offset wrong.  The applications    *)
(* and NPF_PowerChange all walk through TIME_SYNCHRONIZE, whose steps      *)
(* depend on TimestampMode: with the time stamp counter the reference is   *)
(* stored before the offset, otherwise after the offsets.                  *)

Power == "power"
Actors == Openers \cup {Power}

Offsets == IF clock.mode = "percpu" THEN [i \in 1..Cardinality(ClockCpus) |-> "offset"]
           ELSE <<"offset">>

(* As if the reference were always stored first.                           *)
ReferenceFirst == IF clock.mode = "qst" THEN <<"reference">> ELSE <<"reference">> \o Offsets

TIME_SYNCHRONIZE ==
  CASE clock.mode = "qst" -> <<"reference">>
    [] clock.mode = "rdtsc" -> <<"reference">> \o Offsets
    [] OTHER -> Offsets \o <<"reference">>

ClientAt(a, place) == client[a].at = place
ClientGoes(a, place) == client' = [client EXCEPT ![a] = [at |-> place, step |-> 1]]
KeepStatistics == UNCHANGED <<counter, tap, read, counted>>

(* NPF_Open, after NdisOpenAdapter: count the instance.                    *)
OpenCounts(o) ==
  /\ ClientAt(o, "closed")
  /\ clock' = [clock EXCEPT !.instances = @ + 1]
  /\ ClientGoes(o, "tests")
  /\ KeepStatistics /\ UNCHANGED statLeft

Ready(a) == IF a = Power THEN "idle" ELSE "open"

(* TIME_SYNCHRONIZE returns at once when reference is not 0.               *)
TestsReference(a) ==
  /\ ClientAt(a, "tests")
  /\ ClientGoes(a, IF clock.reference # 0 THEN Ready(a) ELSE "syncs")
  /\ clock' = [clock EXCEPT !.skipped = @ \/ (a = Power /\ clock.reference # 0)]
  /\ KeepStatistics /\ UNCHANGED statLeft

(* The next offset is the one of the next processor, or that of all.       *)
Corrected(step) ==
  IF clock.mode = "percpu" THEN clock.synced \cup {step} ELSE ClockCpus

SyncStep(a) ==
  /\ ClientAt(a, "syncs") /\ client[a].step <= Len(TIME_SYNCHRONIZE)
  /\ clock' = IF TIME_SYNCHRONIZE[client[a].step] = "reference"
              THEN [clock EXCEPT !.reference = 1, !.zeroed = FALSE]
              ELSE [clock EXCEPT !.synced = Corrected(client[a].step)]
  /\ client' = [client EXCEPT ![a].step = @ + 1]
  /\ KeepStatistics /\ UNCHANGED statLeft

SyncReturns(a) ==
  /\ ClientAt(a, "syncs") /\ client[a].step > Len(TIME_SYNCHRONIZE)
  /\ ClientGoes(a, Ready(a))
  /\ KeepStatistics /\ UNCHANGED <<clock, statLeft>>

(* NPF_Cleanup counts the instance off, and desynchronizes after the last. *)
CleanupCounts(o) ==
  /\ ClientAt(o, "open")
  /\ clock' = [clock EXCEPT !.instances = @ - 1]
  /\ ClientGoes(o, IF clock.instances = 1 THEN "last" ELSE "gone")
  /\ KeepStatistics /\ UNCHANGED statLeft

TIME_DESYNCHRONIZE == [clock EXCEPT !.reference = 0]

(* An instance opened since makes this the race of two callers.            *)
CleanupDesyncs(o) ==
  /\ ClientAt(o, "last")
  /\ clock' = [TIME_DESYNCHRONIZE EXCEPT !.zeroed = @ \/ clock.instances > 0]
  /\ ClientGoes(o, "gone")
  /\ KeepStatistics /\ UNCHANGED statLeft

(* The machine sleeps and wakes up; NDIS then calls NPF_PowerChange.       *)
PowerEvent ==
  /\ ClientAt(Power, "idle") /\ statLeft.power > 0
  /\ clock' = [clock EXCEPT !.synced = {}, !.skipped = FALSE]
  /\ ClientGoes(Power, "wakes")
  /\ statLeft' = [statLeft EXCEPT !.power = @ - 1]
  /\ KeepStatistics

NPF_PowerChange ==
  /\ ClientAt(Power, "wakes")
  /\ clock' = TIME_DESYNCHRONIZE
  /\ ClientGoes(Power, "tests")
  /\ KeepStatistics /\ UNCHANGED statLeft

-----------------------------------------------------------------------------
StatInit ==
  /\ counter = [lo |-> 0, hi |-> 0, mode |-> "capt"]
  /\ tap = "idle" /\ read = NoRead /\ counted = NothingCounted

(* In DriverEntry; the applications have the driver closed, or are "gone". *)
ClockInit(mode, place) ==
  /\ clock = [mode |-> mode, reference |-> 0, synced |-> {}, instances |-> 0,
              zeroed |-> FALSE, skipped |-> FALSE]
  /\ client = [a \in Actors |-> [at |-> IF a = Power THEN "idle" ELSE place, step |-> 1]]

StatNext ==
  \/ TapSeesStat \/ TapCounts \/ StatReadLow \/ StatReadHigh \/ StatReadResets
  \/ SetModeCapt \/ SetModeStat \/ SetModeResets

ClockNext ==
  \/ \E o \in Openers : OpenCounts(o) \/ CleanupCounts(o) \/ CleanupDesyncs(o)
  \/ \E a \in Actors : TestsReference(a) \/ SyncStep(a) \/ SyncReturns(a)
  \/ PowerEvent \/ NPF_PowerChange

(* The driver alone, for any number of packets, calls and power events.    *)
TimestampModes == {"kqpc", "percpu", "rdtsc", "qst"}

StatisticsInit ==
  /\ StatInit /\ \E mode \in TimestampModes : ClockInit(mode, "closed")
  /\ statLeft \in [packets : Nat, calls : Nat, power : Nat]

StatisticsSpec == StatisticsInit /\ [][StatNext \/ ClockNext]_statVars

-----------------------------------------------------------------------------
(* Every packet counted since BIOCSMODE is reported once, still counted,   *)
(* or was counted while a read had copied its counter and not reset it,    *)
(* unless a carry came between the halves the read copies: NPF_Read        *)
(* neither reports a packet twice nor reports one that was not there.      *)
StatisticsCount ==
  read.pc = "idle" /\ ~counted.torn =>
    counted.seen = counted.reported + counted.lost + Value(counter.lo, counter.hi)

(* Somebody is between the test of reference and the last store, which     *)
(* matters to others after a change of power, and when the reference is    *)
(* stored first.                                                           *)
Synchronizing ==
  \E a \in Actors :
    /\ ClientAt(a, "tests") \/ ClientAt(a, "syncs") \/ ClientAt(a, "wakes")
    /\ a = Power \/ clock.mode = "rdtsc"

(* What GET_TIME needs for a right time stamp.                             *)
TimeRight ==
  \/ clock.mode = "qst"
  \/ clock.synced = ClockCpus /\ (clock.mode = "rdtsc" => clock.reference # 0)

(* While an instance is open, and nobody is in the middle of setting the   *)
(* clock after a change of power or by the time stamp counter, time stamps *)
(* are right: an NPF_Open that finds the reference stored finds the offsets*)
(* stored too.  The exceptions are the NPF_Cleanup of an earlier instance, *)
(* which may desynchronize the clock after this one has found it running,  *)
(* and NPF_PowerChange when it finds the clock running because an NPF_Open *)
(* under way has just finished.                                            *)
ClockRuns ==
  (\E o \in Openers : ClientAt(o, "open")) /\ ~Synchronizing =>
    TimeRight \/ clock.zeroed \/ clock.skipped
=============================================================================
