-------------------------- MODULE PacketDll_proof --------------------------
(***************************************************************************)
(* Proofs about packet.dll, for any number of threads, any calls, any      *)
(* machine, anything npf_mgm does meanwhile and any calls of the system    *)
(* that fail.                                                              *)
(***************************************************************************)
EXTENDS PacketDll, FiniteSetTheorems, NaturalsInduction, SequenceTheorems, TLAPS, WellFoundedInduction

-----------------------------------------------------------------------------
(* What can be left of a call: some items come first only, and some of     *)
(* these have one that must follow.                                        *)

Chain == {"npf", "install", "again", "service", "blind", "start", "close", "file", "event"}
AfterChain == {"link", "shut", "keep"}

Plain ==
  {"lock", "unlock", "add", "hide", "npfs", "iph", "iphs", "fake", "airs", "ims", "dags", "air", "im",
   "dag", "populate", "find", "look", "update", "others", "load", "missing", "choose", "shutad", "send",
   "tick", "stop"}

After(do) ==
  IF do \in Chain THEN AfterChain
  ELSE IF do \in {"dagfile", "daglink"} THEN {"openfile"}
  ELSE IF do = "control" THEN {"done"} ELSE Plain

Shape(w) ==
  /\ IsList(w)
  /\ w # << >> /\ After(w[1].do) # Plain => Len(w) >= 2
  /\ Len(w) >= 2 => w[2].do \in After(w[1].do)
  /\ \A i \in DOMAIN w : i >= 3 => w[i].do \in Plain

(* Items that may give the thread an adapter: at most one is left.         *)
OpenItems == {"choose", "keep", "open", "openfile"}

OpensOne(w) ==
  \A i, j \in DOMAIN w : w[i].do \in OpenItems /\ w[j].do \in OpenItems => i = j

NoneOpens(w) == \A i \in DOMAIN w : w[i].do \notin OpenItems

LEMMA ListIsSeq ==
  ASSUME NEW w, IsList(w)
  PROVE  Len(w) \in Nat /\ DOMAIN w = 1..Len(w) /\ (w = << >> <=> Len(w) = 0)
<1>1. w \in Seq({w[i] : i \in DOMAIN w})
  BY DEF IsList
<1>2. Len(w) \in Nat /\ DOMAIN w = 1..Len(w)
  BY <1>1, LenProperties
<1>3. w = << >> => Len(w) = 0
  OBVIOUS
<1>4. Len(w) = 0 => w = << >>
  BY <1>1, <1>2, EmptySeq
<1>5. QED
  BY <1>2, <1>3, <1>4

LEMMA SeqIsList ==
  ASSUME NEW S, NEW w \in Seq(S)
  PROVE  IsList(w)
<1>1. Len(w) \in Nat /\ DOMAIN w = 1..Len(w)
  BY LenProperties
<1>2. \A i \in 1..Len(w) : w[i] \in {w[k] : k \in DOMAIN w}
  BY <1>1
<1>3. w = [i \in 1..Len(w) |-> w[i]]
  BY <1>1
<1>4. w \in Seq({w[k] : k \in DOMAIN w})
  BY <1>1, <1>2, <1>3
<1>5. QED
  BY <1>4 DEF IsList

(* The items of one list before the rest of another.                       *)
LEMMA ListTail ==
  ASSUME NEW w, IsList(w), w # << >>
  PROVE  /\ IsList(Tail(w)) /\ Len(Tail(w)) = Len(w) - 1 /\ Head(w) = w[1]
         /\ \A i \in DOMAIN Tail(w) : Tail(w)[i] = w[i + 1] /\ i + 1 \in DOMAIN w
<1> DEFINE S == {w[i] : i \in DOMAIN w}
<1>1. w \in Seq(S)
  BY DEF IsList
<1>2. Len(w) \in Nat /\ DOMAIN w = 1..Len(w) /\ Len(w) # 0
  BY ListIsSeq
<1>3. Tail(w) \in Seq(S) /\ Len(Tail(w)) = Len(w) - 1 /\ Head(w) = w[1]
      /\ \A i \in 1..Len(Tail(w)) : Tail(w)[i] = w[i + 1]
  BY <1>1, <1>2, HeadTailProperties
<1>4. DOMAIN Tail(w) = 1..Len(Tail(w))
  BY <1>3, LenProperties
<1>5. IsList(Tail(w))
  BY <1>3, SeqIsList
<1> HIDE DEF S
<1>6. ASSUME NEW i \in DOMAIN Tail(w)
      PROVE  Tail(w)[i] = w[i + 1] /\ i + 1 \in DOMAIN w
  BY <1>2, <1>3, <1>4
<1>7. QED
  BY <1>3, <1>5, <1>6

LEMMA ListBefore ==
  ASSUME NEW v, IsList(v), NEW w, IsList(w)
  PROVE  /\ IsList(v \o w) /\ Len(v \o w) = Len(v) + Len(w)
         /\ \A i \in DOMAIN (v \o w) : (v \o w)[i] = IF i <= Len(v) THEN v[i] ELSE w[i - Len(v)]
<1> DEFINE S == {v[i] : i \in DOMAIN v} \cup {w[i] : i \in DOMAIN w}
<1>1. v \in Seq({v[i] : i \in DOMAIN v}) /\ w \in Seq({w[i] : i \in DOMAIN w})
  BY DEF IsList
<1>2. v \in Seq(S) /\ w \in Seq(S)
  BY <1>1
<1>3. v \o w \in Seq(S) /\ Len(v \o w) = Len(v) + Len(w)
      /\ \A i \in 1..Len(v) + Len(w) : (v \o w)[i] = IF i <= Len(v) THEN v[i] ELSE w[i - Len(v)]
  BY <1>2, ConcatProperties
<1>4. DOMAIN (v \o w) = 1..Len(v \o w)
  BY <1>3, LenProperties
<1>5. QED
  BY <1>3, <1>4, SeqIsList

-----------------------------------------------------------------------------
(* Taking the first item, and putting others in its place.                 *)

LEMMA Plainly ==
  /\ \A do \in Plain : After(do) = Plain
  /\ \A do : After(do) = Plain => do \notin Chain \cup {"dagfile", "daglink", "control"}
  /\ \A do : do \notin Chain \cup {"dagfile", "daglink", "control"} => After(do) = Plain
  /\ \A do \in Chain : After(do) = AfterChain
  /\ \A do \in AfterChain : After(do) = Plain
  /\ After("dagfile") = {"openfile"} /\ After("daglink") = {"openfile"} /\ After("control") = {"done"}
  BY DEF After, Plain, Chain, AfterChain

LEMMA Popped ==
  ASSUME NEW w, Shape(w), w # << >>
  PROVE  /\ Shape(Tail(w)) /\ Head(w) = w[1]
         /\ Tail(w) # << >> => Tail(w)[1].do \in After(w[1].do)
         /\ After(w[1].do) # Plain => Tail(w) # << >>
         /\ After(w[1].do) = Plain => \A i \in DOMAIN Tail(w) : Tail(w)[i].do \in Plain
<1>1. /\ IsList(Tail(w)) /\ Len(Tail(w)) = Len(w) - 1 /\ Head(w) = w[1] /\ IsList(w)
      /\ \A i \in DOMAIN Tail(w) : Tail(w)[i] = w[i + 1] /\ i + 1 \in DOMAIN w
  BY ListTail DEF Shape
<1>2. Len(w) \in Nat /\ DOMAIN w = 1..Len(w) /\ Len(w) # 0
  BY <1>1, ListIsSeq
<1>3. DOMAIN Tail(w) = 1..(Len(w) - 1) /\ (Tail(w) = << >> <=> Len(w) = 1)
  BY <1>1, <1>2, ListIsSeq
<1>4. Tail(w) # << >> => Tail(w)[1] = w[2] /\ Len(w) >= 2 /\ w[2].do \in After(w[1].do)
  BY <1>1, <1>2, <1>3 DEF Shape
<1>5. Tail(w) # << >> => After(Tail(w)[1].do) = Plain
  <2>1. ASSUME NEW do, NEW x, x \in After(do)
        PROVE  After(x) = Plain
    BY <2>1 DEF After, Plain, Chain, AfterChain
  <2>2. QED
    BY <1>4, <2>1
<1>6. \A i \in DOMAIN Tail(w) : i >= 2 => Tail(w)[i].do \in Plain
  BY <1>1, <1>2, <1>3 DEF Shape
<1>7. Shape(Tail(w))
  <2>1. Len(Tail(w)) >= 2 => Tail(w)[2].do \in Plain /\ Tail(w) # << >>
    <3>1. Len(Tail(w)) >= 2 => 2 \in DOMAIN Tail(w) /\ Len(w) # 1
      BY <1>1, <1>2, <1>3
    <3>2. 2 >= 2
      OBVIOUS
    <3>3. 2 \in DOMAIN Tail(w) => Tail(w)[2].do \in Plain
      BY <1>6, <3>2
    <3>4. QED
      BY <1>3, <3>1, <3>3
  <2>2. \A i \in DOMAIN Tail(w) : i >= 3 => Tail(w)[i].do \in Plain
    BY <1>2, <1>3, <1>6
  <2>3. QED
    BY <1>1, <1>5, <2>1, <2>2 DEF Shape
<1>8. After(w[1].do) # Plain => Tail(w) # << >>
  BY <1>2, <1>3 DEF Shape
<1>9. ASSUME After(w[1].do) = Plain, NEW i \in DOMAIN Tail(w)
      PROVE  Tail(w)[i].do \in Plain
  <2>1. i = 1 \/ i >= 2
    BY <1>2, <1>3
  <2>2. Tail(w) # << >>
    BY <1>2, <1>3
  <2>3. QED
    BY <1>4, <1>6, <1>9, <2>1, <2>2
<1>10. QED
  BY <1>1, <1>4, <1>7, <1>8, <1>9

LEMMA PushedShape ==
  ASSUME NEW v, Shape(v), NEW w, IsList(w), \A i \in DOMAIN w : w[i].do \in Plain
  PROVE  Shape(v \o w)
<1> DEFINE u == v \o w
<1>1. /\ IsList(v) /\ IsList(u) /\ Len(u) = Len(v) + Len(w)
      /\ \A i \in DOMAIN u : u[i] = IF i <= Len(v) THEN v[i] ELSE w[i - Len(v)]
  BY ListBefore DEF Shape
<1>2. /\ Len(v) \in Nat /\ DOMAIN v = 1..Len(v) /\ (v = << >> <=> Len(v) = 0)
      /\ Len(w) \in Nat /\ DOMAIN w = 1..Len(w)
      /\ DOMAIN u = 1..Len(u) /\ (u = << >> <=> Len(u) = 0)
  BY <1>1, ListIsSeq
<1> HIDE DEF u
<1>3. \A i \in DOMAIN u : i > Len(v) => u[i].do \in Plain
  <2> SUFFICES ASSUME NEW i \in DOMAIN u, i > Len(v)
               PROVE  u[i].do \in Plain
    OBVIOUS
  <2>1. u[i] = w[i - Len(v)] /\ i - Len(v) \in DOMAIN w
    BY <1>1, <1>2
  <2>2. QED
    BY <2>1
<1>4. \A i \in DOMAIN u : i <= Len(v) => u[i] = v[i] /\ i \in DOMAIN v
  BY <1>1, <1>2
<1>5. u # << >> /\ After(u[1].do) # Plain => Len(u) >= 2
  <2>1. CASE Len(v) = 0
    BY <1>2, <1>3, <2>1, Plainly
  <2>2. CASE Len(v) # 0
    <3>1. u[1] = v[1]
      BY <1>1, <1>2, <1>4, <2>2
    <3>2. QED
      BY <1>1, <1>2, <2>2, <3>1 DEF Shape
  <2>3. QED
    BY <2>1, <2>2
<1>6. Len(u) >= 2 => u[2].do \in After(u[1].do)
  <2> SUFFICES ASSUME Len(u) >= 2
               PROVE  u[2].do \in After(u[1].do)
    OBVIOUS
  <2>1. CASE Len(v) = 0
    BY <1>2, <1>3, <2>1, Plainly
  <2>2. CASE Len(v) = 1
    <3>1. u[1] = v[1] /\ u[2].do \in Plain
      BY <1>1, <1>2, <1>3, <1>4, <2>2
    <3>2. After(v[1].do) = Plain
      BY <1>2, <2>2 DEF Shape
    <3>3. QED
      BY <3>1, <3>2
  <2>3. CASE Len(v) >= 2
    <3>1. u[1] = v[1] /\ u[2] = v[2]
      BY <1>1, <1>2, <1>4, <2>3
    <3>2. QED
      BY <2>3, <3>1 DEF Shape
  <2>4. QED
    BY <1>2, <2>1, <2>2, <2>3
<1>7. \A i \in DOMAIN u : i >= 3 => u[i].do \in Plain
  BY <1>2, <1>3, <1>4 DEF Shape
<1>8. Shape(u)
  BY <1>1, <1>5, <1>6, <1>7 DEF Shape
<1>9. QED
  BY <1>8 DEF u

(* Another item in the place of the first, that the second may follow.     *)
LEMMA ReplacedShape ==
  ASSUME NEW x, NEW w, Shape(w), w # << >>, After(x.do) = After(w[1].do)
  PROVE  /\ Shape(<<x>> \o Tail(w)) /\ (<<x>> \o Tail(w))[1] = x
         /\ \A i \in DOMAIN (<<x>> \o Tail(w)) : i > 1 => (<<x>> \o Tail(w))[i] = w[i] /\ i \in DOMAIN w
<1> DEFINE u == <<x>> \o Tail(w)
<1>0. IsList(<<x>>) /\ Len(<<x>>) = 1 /\ <<x>>[1] = x
  <2>1. <<x>> \in Seq({x})
    OBVIOUS
  <2>2. QED
    BY <2>1, SeqIsList
<1>1. /\ IsList(Tail(w)) /\ Len(Tail(w)) = Len(w) - 1 /\ IsList(w)
      /\ \A i \in DOMAIN Tail(w) : Tail(w)[i] = w[i + 1] /\ i + 1 \in DOMAIN w
  BY ListTail DEF Shape
<1>2. Len(w) \in Nat /\ DOMAIN w = 1..Len(w) /\ Len(w) # 0
  BY <1>1, ListIsSeq
<1>3. /\ IsList(u) /\ Len(u) = Len(w)
      /\ \A i \in DOMAIN u : u[i] = IF i <= 1 THEN <<x>>[i] ELSE Tail(w)[i - 1]
  BY <1>0, <1>1, <1>2, ListBefore
<1>4. DOMAIN u = 1..Len(w) /\ DOMAIN Tail(w) = 1..(Len(w) - 1)
  BY <1>1, <1>2, <1>3, ListIsSeq
<1> HIDE DEF u
<1>5. u[1] = x
  BY <1>0, <1>2, <1>3, <1>4
<1>6. \A i \in DOMAIN u : i > 1 => u[i] = w[i] /\ i \in DOMAIN w
  <2> SUFFICES ASSUME NEW i \in DOMAIN u, i > 1
               PROVE  u[i] = w[i] /\ i \in DOMAIN w
    OBVIOUS
  <2>1. u[i] = Tail(w)[i - 1] /\ i - 1 \in DOMAIN Tail(w) /\ (i - 1) + 1 = i
    BY <1>2, <1>3, <1>4
  <2>2. QED
    BY <1>1, <2>1
<1>7. Shape(u)
  <2>1. u # << >> /\ After(u[1].do) # Plain => Len(u) >= 2
    BY <1>3, <1>5, <1>1 DEF Shape
  <2>2. Len(u) >= 2 => u[2].do \in After(u[1].do)
    BY <1>2, <1>3, <1>4, <1>5, <1>6 DEF Shape
  <2>3. \A i \in DOMAIN u : i >= 3 => u[i].do \in Plain
    BY <1>2, <1>4, <1>6 DEF Shape
  <2>4. QED
    BY <1>3, <2>1, <2>2, <2>3 DEF Shape
<1>8. QED
  BY <1>5, <1>6, <1>7 DEF u

-----------------------------------------------------------------------------
(* The invariant: what a thread may be at, and who holds the handles.      *)

AtItem(i, a) ==
  /\ i.do = "wait" => i.name \in {"air", "im"} /\ a.flag = i.name
  /\ i.do = "card" => i.name \in {"air", "im"}
  /\ i.do = "asked" => a.flag # "none" /\ i.name = Library(a.flag)
  /\ i.do = "ask" => a.flag # "none"

ThreadFields(r) ==
  /\ {"calls", "call", "work", "ok", "found", "file", "seen"} = DOMAIN r
  /\ r.file \in BOOLEAN
  /\ IsList(r.calls) /\ \A i \in DOMAIN r.calls : r.calls[i].do \in DllCalls

DllThread(r, a) ==
  /\ ThreadFields(r)
  /\ r.call = Idle => r.work = << >>
  /\ Shape(r.work) /\ OpensOne(r.work)
  /\ r.work # << >> => AtItem(r.work[1], a)
  /\ ~NoneOpens(r.work) => a = NoAdapter

AdapterOK(a) ==
  /\ a.flag \in Libraries \cup {"none", "ndis", "dagfile"}
  /\ a.flag = "none" => a = NoAdapter

(* A handle that a thread has only while it is at this item.               *)
ServiceOf(r) == r.work # << >> /\ r.work[1].do \in {"start", "close", "control", "done"}

FileOf(r) == r.work # << >> /\ (r.work[1].do = "event" \/ (r.file /\ r.work[1].do \in AfterChain))

CardOf(r, lib) ==
  /\ r.work # << >>
  /\ \/ r.work[1].do = "card" /\ r.work[1].name = lib
     \/ r.work[1].do \in {"dagcard", "daglink"} /\ lib = "dag"

N(b) == IF b THEN 1 ELSE 0

Counts ==
  /\ svc.handles = dll.leaked + N(MgmHolds) + Cardinality({t \in Threads : ServiceOf(th[t])})
  /\ drv.files = Holding("ndis") + Cardinality({t \in Threads : FileOf(th[t])})
  /\ \A lib \in Libraries : below[lib] = Holding(lib) + Cardinality({t \in Threads : CardOf(th[t], lib)})

MgmFunctions == {"create", "delete", "start", "stop", "auto"}

ServiceTypes ==
  /\ svc \in [there : BOOLEAN, marked : BOOLEAN, state : {"stopped", "running", "stopping"}, handles : Int]
  /\ ~svc.there => svc.handles = 0
  /\ drv \in [linked : SUBSET MacNames, files : Int]
  /\ mgm \in [cmds : Seq(MgmCommands), todo : Seq(MgmFunctions), at : MgmFunctions \cup {"main", "remove", "close"}]
  /\ mgm.todo = << >> => mgm.at = "main"

MachineLists ==
  /\ IsList(machine.class) /\ IsList(machine.tcp) /\ IsList(machine.iph)
  /\ IsList(machine.air) /\ IsList(machine.im) /\ IsList(machine.dag)

DllTypes ==
  /\ ServiceTypes /\ MachineLists
  /\ {"loaded", "gone", "leaked", "raced", "shown"} = DOMAIN dll /\ dll.leaked \in Nat
  /\ below \in [Libraries -> Int]
  /\ DOMAIN th = Threads /\ DOMAIN ad = Threads

DllInv ==
  /\ DllTypes
  /\ \A t \in Threads : DllThread(th[t], ad[t]) /\ AdapterOK(ad[t])
  /\ Counts

-----------------------------------------------------------------------------
(* A step of one thread.                                                   *)

LEMMA CountMoves ==
  ASSUME NEW t \in Threads, NEW S, S \subseteq Threads, NEW T, T \subseteq Threads, S \ {t} = T \ {t}
  PROVE  /\ Cardinality(S) \in Nat /\ Cardinality(T) \in Nat
         /\ Cardinality(T) - N(t \in T) = Cardinality(S) - N(t \in S)
<1>1. IsFiniteSet(Threads)
  BY ThreadsAssumption
<1>2. IsFiniteSet(S) /\ IsFiniteSet(T) /\ Cardinality(S) \in Nat /\ Cardinality(T) \in Nat
  BY <1>1, FS_Subset, FS_CardinalityType
<1>3. Cardinality(S \ {t}) = Cardinality(S) - N(t \in S)
  <2>1. CASE t \in S
    BY <1>2, <2>1, FS_RemoveElement DEF N
  <2>2. CASE t \notin S
    <3>1. S \ {t} = S
      BY <2>2
    <3>2. QED
      BY <1>2, <2>2, <3>1 DEF N
  <2>3. QED
    BY <2>1, <2>2
<1>4. Cardinality(T \ {t}) = Cardinality(T) - N(t \in T)
  <2>1. CASE t \in T
    BY <1>2, <2>1, FS_RemoveElement DEF N
  <2>2. CASE t \notin T
    <3>1. T \ {t} = T
      BY <2>2
    <3>2. QED
      BY <1>2, <2>2, <3>1 DEF N
  <2>3. QED
    BY <2>1, <2>2
<1>5. QED
  BY <1>2, <1>3, <1>4

OnlyThread(t) ==
  /\ DOMAIN th' = Threads /\ DOMAIN ad' = Threads
  /\ \A q \in Threads \ {t} : th'[q] = th[q] /\ ad'[q] = ad[q]

Has(a, who) == Library(a.flag) = who

(* What the step opens is what the thread then holds.                      *)
Balance(t) ==
  /\ svc'.handles - dll'.leaked - N(ServiceOf(th'[t])) = svc.handles - dll.leaked - N(ServiceOf(th[t]))
  /\ drv'.files - N(FileOf(th'[t])) - N(Has(ad'[t], "ndis"))
       = drv.files - N(FileOf(th[t])) - N(Has(ad[t], "ndis"))
  /\ \A lib \in Libraries :
       below'[lib] - N(CardOf(th'[t], lib)) - N(Has(ad'[t], lib))
         = below[lib] - N(CardOf(th[t], lib)) - N(Has(ad[t], lib))

LEMMA BalanceCounts ==
  ASSUME DllTypes, Counts, NEW t \in Threads, OnlyThread(t), DllTypes', mgm' = mgm, Balance(t)
  PROVE  Counts'
<1>0. \A b : N(b) \in Int
  BY DEF N
<1>1. \A q \in Threads \ {t} : th'[q] = th[q] /\ ad'[q] = ad[q]
  BY DEF OnlyThread
<1>2. svc.handles \in Int /\ svc'.handles \in Int /\ dll.leaked \in Int /\ dll'.leaked \in Int
      /\ drv.files \in Int /\ drv'.files \in Int
  BY DEF DllTypes, ServiceTypes
<1>3. svc'.handles = dll'.leaked + N(MgmHolds') + Cardinality({q \in Threads : ServiceOf(th'[q])})
  <2> DEFINE S == {q \in Threads : ServiceOf(th[q])}
             T == {q \in Threads : ServiceOf(th'[q])}
  <2>1. S \subseteq Threads /\ T \subseteq Threads /\ S \ {t} = T \ {t}
    BY <1>1
  <2>2. N(t \in S) = N(ServiceOf(th[t])) /\ N(t \in T) = N(ServiceOf(th'[t]))
    BY DEF N
  <2>3. svc.handles = dll.leaked + N(MgmHolds) + Cardinality(S)
    BY DEF Counts
  <2>4. MgmHolds' = MgmHolds
    BY DEF MgmHolds
  <2>5. svc'.handles - dll'.leaked - N(ServiceOf(th'[t])) = svc.handles - dll.leaked - N(ServiceOf(th[t]))
    BY DEF Balance
  <2> HIDE DEF S, T
  <2>6. Cardinality(S) \in Nat /\ Cardinality(T) \in Nat
        /\ Cardinality(T) - N(t \in T) = Cardinality(S) - N(t \in S)
    BY <2>1, CountMoves
  <2>7. svc'.handles = dll'.leaked + N(MgmHolds') + Cardinality(T)
    BY <1>0, <1>2, <2>2, <2>3, <2>4, <2>5, <2>6
  <2>8. QED
    BY <2>7 DEF T
<1>4. ASSUME NEW who
      PROVE  /\ Holding(who) \in Nat /\ Holding(who)' \in Nat
             /\ Holding(who)' - N(Has(ad'[t], who)) = Holding(who) - N(Has(ad[t], who))
  <2> DEFINE S == {q \in Threads : Library(ad[q].flag) = who}
             T == {q \in Threads : Library(ad'[q].flag) = who}
  <2>1. S \subseteq Threads /\ T \subseteq Threads /\ S \ {t} = T \ {t}
    BY <1>1
  <2>2. N(t \in S) = N(Has(ad[t], who)) /\ N(t \in T) = N(Has(ad'[t], who))
    BY DEF N, Has
  <2>3. Holding(who) = Cardinality(S) /\ Holding(who)' = Cardinality(T)
    BY DEF Holding
  <2> HIDE DEF S, T
  <2>4. Cardinality(S) \in Nat /\ Cardinality(T) \in Nat
        /\ Cardinality(T) - N(t \in T) = Cardinality(S) - N(t \in S)
    BY <2>1, CountMoves
  <2>5. QED
    BY <2>2, <2>3, <2>4
<1>5. drv'.files = Holding("ndis")' + Cardinality({q \in Threads : FileOf(th'[q])})
  <2> DEFINE S == {q \in Threads : FileOf(th[q])}
             T == {q \in Threads : FileOf(th'[q])}
  <2>1. S \subseteq Threads /\ T \subseteq Threads /\ S \ {t} = T \ {t}
    BY <1>1
  <2>2. N(t \in S) = N(FileOf(th[t])) /\ N(t \in T) = N(FileOf(th'[t]))
    BY DEF N
  <2>3. drv.files = Holding("ndis") + Cardinality(S)
    BY DEF Counts
  <2>4. drv'.files - N(FileOf(th'[t])) - N(Has(ad'[t], "ndis"))
          = drv.files - N(FileOf(th[t])) - N(Has(ad[t], "ndis"))
    BY DEF Balance
  <2> HIDE DEF S, T
  <2>6. Cardinality(S) \in Nat /\ Cardinality(T) \in Nat
        /\ Cardinality(T) - N(t \in T) = Cardinality(S) - N(t \in S)
    BY <2>1, CountMoves
  <2>7. drv'.files = Holding("ndis")' + Cardinality(T)
    BY <1>0, <1>2, <1>4, <2>2, <2>3, <2>4, <2>6
  <2>8. QED
    BY <2>7 DEF T
<1>6. ASSUME NEW lib \in Libraries
      PROVE  below'[lib] = Holding(lib)' + Cardinality({q \in Threads : CardOf(th'[q], lib)})
  <2> DEFINE S == {q \in Threads : CardOf(th[q], lib)}
             T == {q \in Threads : CardOf(th'[q], lib)}
  <2>1. S \subseteq Threads /\ T \subseteq Threads /\ S \ {t} = T \ {t}
    BY <1>1
  <2>2. N(t \in S) = N(CardOf(th[t], lib)) /\ N(t \in T) = N(CardOf(th'[t], lib))
    BY DEF N
  <2>3. below[lib] = Holding(lib) + Cardinality(S) /\ below[lib] \in Int /\ below'[lib] \in Int
    BY DEF Counts, DllTypes
  <2>4. below'[lib] - N(CardOf(th'[t], lib)) - N(Has(ad'[t], lib))
          = below[lib] - N(CardOf(th[t], lib)) - N(Has(ad[t], lib))
    BY DEF Balance
  <2> HIDE DEF S, T
  <2>6. Cardinality(S) \in Nat /\ Cardinality(T) \in Nat
        /\ Cardinality(T) - N(t \in T) = Cardinality(S) - N(t \in S)
    BY <2>1, CountMoves
  <2>5. /\ Holding(lib) \in Nat /\ Holding(lib)' \in Nat
        /\ Holding(lib)' - N(Has(ad'[t], lib)) = Holding(lib) - N(Has(ad[t], lib))
    BY <1>4
  <2> DEFINE x == below[lib]
             y == below'[lib]
  <2>a. y - N(CardOf(th'[t], lib)) - N(Has(ad'[t], lib)) = x - N(CardOf(th[t], lib)) - N(Has(ad[t], lib))
    BY <2>4
  <2>b. x = Holding(lib) + Cardinality(S) /\ x \in Int /\ y \in Int
    BY <2>3
  <2> HIDE DEF x, y
  <2>c. y = Holding(lib)' + Cardinality(T)
    BY <1>0, <2>2, <2>5, <2>6, <2>a, <2>b
  <2>7. below'[lib] = Holding(lib)' + Cardinality(T)
    BY <2>c DEF y
  <2>8. QED
    BY <2>7 DEF T
<1>7. QED
  BY <1>3, <1>5, <1>6 DEF Counts

LEMMA ThreadKeeps ==
  ASSUME DllInv, NEW t \in Threads, OnlyThread(t), DllTypes', mgm' = mgm, Balance(t),
         DllThread(th'[t], ad'[t]), AdapterOK(ad'[t])
  PROVE  DllInv'
<1>1. Counts'
  BY BalanceCounts DEF DllInv
<1>2. \A q \in Threads : DllThread(th'[q], ad'[q]) /\ AdapterOK(ad'[q])
  BY DEF DllInv, OnlyThread
<1>3. QED
  BY <1>1, <1>2 DEF DllInv

-----------------------------------------------------------------------------
(* The record of a thread after a step, w being what is left.              *)

NextRecord(r, s, w) ==
  /\ {"calls", "call", "work", "ok", "found", "file", "seen"} = DOMAIN s
  /\ s.calls = r.calls /\ s.call = r.call /\ s.file \in BOOLEAN /\ s.work = w

Loose(r) == ~ServiceOf(r) /\ ~FileOf(r) /\ \A lib : ~CardOf(r, lib)

(* The items at which a thread has a handle.                               *)
Holds == {"start", "close", "control", "done", "event", "card", "dagcard", "daglink"} \cup AfterChain

LEMMA LooseAt ==
  ASSUME NEW r, r.work # << >> => r.work[1].do \notin Holds
  PROVE  Loose(r)
  BY DEF Loose, ServiceOf, FileOf, CardOf, Holds

(* A thread that is at an item is in a call, and has its record.           *)
LEMMA AtWork ==
  ASSUME DllInv, NEW t \in Threads, NEW do, Doing(t, do)
  PROVE  /\ ThreadFields(th[t]) /\ th[t].call # Idle /\ th[t].work # << >> /\ Shape(th[t].work)
         /\ th[t].work[1].do = do /\ Arg(t) = th[t].work[1].name
         /\ AtItem(th[t].work[1], ad[t]) /\ AdapterOK(ad[t]) /\ DllThread(th[t], ad[t])
<1>1. DllThread(th[t], ad[t]) /\ AdapterOK(ad[t])
  BY DEF DllInv
<1>2. th[t].work # << >> /\ Head(th[t].work).do = do
  BY DEF Doing
<1>3. Shape(th[t].work)
  BY <1>1 DEF DllThread
<1>4. Head(th[t].work) = th[t].work[1]
  BY <1>2, <1>3, Popped
<1>5. QED
  BY <1>1, <1>2, <1>3, <1>4 DEF DllThread, Arg

LEMMA NothingBefore ==
  ASSUME NEW w, IsList(w)
  PROVE  << >> \o w = w
<1>1. w \in Seq({w[i] : i \in DOMAIN w})
  BY DEF IsList
<1>2. QED
  BY <1>1, ConcatEmptySeq

(* Items take the place of one that nothing must follow.                   *)
LEMMA PushThread ==
  ASSUME NEW r, NEW a, DllThread(r, a), r.work # << >>, After(r.work[1].do) = Plain,
         NEW v, Shape(v), NEW s, NextRecord(r, s, v \o Tail(r.work)), NEW b,
         v # << >> => AtItem(v[1], b),
         \/ NoneOpens(v) /\ (b = a \/ b = NoAdapter \/ r.work[1].do \in OpenItems)
         \/ OpensOne(v) /\ b = NoAdapter /\ r.work[1].do \in OpenItems
  PROVE  /\ DllThread(s, b)
         /\ v # << >> => s.work # << >> /\ s.work[1] = v[1]
         /\ v = << >> => Loose(s)
<1> DEFINE w == r.work
           z == Tail(r.work)
           u == v \o z
<1>1. Shape(w) /\ w # << >> /\ OpensOne(w) /\ IsList(w)
  BY DEF DllThread, Shape
<1>2. Shape(z) /\ IsList(z) /\ (\A i \in DOMAIN z : z[i].do \in Plain)
  BY <1>1, Popped DEF Shape
<1>3. \A i \in DOMAIN z : z[i] = w[i + 1] /\ i + 1 \in DOMAIN w
  BY <1>1, ListTail
<1>4. Shape(u)
  BY <1>2, PushedShape
<1>5. /\ IsList(v) /\ IsList(u) /\ Len(u) = Len(v) + Len(z)
      /\ \A i \in DOMAIN u : u[i] = IF i <= Len(v) THEN v[i] ELSE z[i - Len(v)]
  BY <1>2, ListBefore DEF Shape
<1>6. /\ Len(v) \in Nat /\ DOMAIN v = 1..Len(v) /\ (v = << >> <=> Len(v) = 0)
      /\ Len(z) \in Nat /\ DOMAIN z = 1..Len(z) /\ DOMAIN w = 1..Len(w) /\ Len(w) \in Nat
      /\ DOMAIN u = 1..Len(u) /\ (u = << >> <=> Len(u) = 0)
  BY <1>1, <1>2, <1>5, ListIsSeq
<1>7. s.work = u
  BY DEF NextRecord
<1> HIDE DEF u
<1>8. \A i \in DOMAIN u : \/ i \in DOMAIN v /\ u[i] = v[i]
                          \/ i > Len(v) /\ i - Len(v) \in DOMAIN z /\ u[i] = z[i - Len(v)]
                             /\ u[i] = w[(i - Len(v)) + 1] /\ (i - Len(v)) + 1 \in DOMAIN w
  <2> SUFFICES ASSUME NEW i \in DOMAIN u
               PROVE  \/ i \in DOMAIN v /\ u[i] = v[i]
                      \/ i > Len(v) /\ i - Len(v) \in DOMAIN z /\ u[i] = z[i - Len(v)]
                         /\ u[i] = w[(i - Len(v)) + 1] /\ (i - Len(v)) + 1 \in DOMAIN w
    OBVIOUS
  <2>1. CASE i <= Len(v)
    BY <1>5, <1>6, <2>1
  <2>2. CASE i > Len(v)
    <3>1. i - Len(v) \in DOMAIN z /\ u[i] = z[i - Len(v)]
      <4>1. u[i] = z[i - Len(v)]
        BY <1>5, <1>6, <2>2
      <4>2. i \in Nat /\ i <= Len(v) + Len(z)
        BY <1>5, <1>6
      <4>3. i - Len(v) \in 1..Len(z)
        BY <1>6, <2>2, <4>2
      <4>4. QED
        BY <1>6, <4>1, <4>3
    <3>2. QED
      BY <1>3, <2>2, <3>1
  <2>3. QED
    BY <1>5, <1>6, <2>1, <2>2
<1>9. v # << >> => u # << >> /\ u[1] = v[1]
  BY <1>5, <1>6
<1>10. v = << >> => (u # << >> => u[1].do \in Plain)
  BY <1>2, <1>5, <1>6, <1>8
<1>11. \A i \in Plain : i \notin {"wait", "card", "asked", "ask"} /\ i \notin Holds
  BY DEF Plain, Holds, AfterChain
<1>12. u # << >> => AtItem(u[1], b)
  <2>1. CASE v # << >>
    BY <1>9, <2>1
  <2>2. CASE v = << >>
    BY <1>10, <1>11, <2>2 DEF AtItem
  <2>3. QED
    BY <2>1, <2>2
<1>13. v = << >> => Loose(s)
  <2>1. v = << >> => (s.work # << >> => s.work[1].do \notin Holds)
    BY <1>7, <1>10, <1>11
  <2>2. QED
    BY <2>1, LooseAt
<1>14. w[1].do \in OpenItems => \A i \in DOMAIN z : z[i].do \notin OpenItems
  <2> SUFFICES ASSUME w[1].do \in OpenItems, NEW i \in DOMAIN z, z[i].do \in OpenItems
               PROVE  FALSE
    OBVIOUS
  <2>1. w[i + 1].do \in OpenItems /\ i + 1 \in DOMAIN w /\ 1 \in DOMAIN w /\ i + 1 # 1
    BY <1>3, <1>6
  <2>2. QED
    BY <1>1, <2>1 DEF OpensOne
<1>15. OpensOne(u) /\ (~NoneOpens(u) => b = NoAdapter)
  <2>1. CASE NoneOpens(v) /\ w[1].do \in OpenItems
    <3>1. NoneOpens(u)
      BY <1>8, <1>14, <2>1 DEF NoneOpens
    <3>2. QED
      BY <3>1 DEF NoneOpens, OpensOne
  <2>2. CASE NoneOpens(v) /\ w[1].do \notin OpenItems
    <3>1. OpensOne(u)
      <4> SUFFICES ASSUME NEW i \in DOMAIN u, NEW j \in DOMAIN u, u[i].do \in OpenItems, u[j].do \in OpenItems
                   PROVE  i = j
        BY DEF OpensOne
      <4>1. /\ w[(i - Len(v)) + 1].do \in OpenItems /\ (i - Len(v)) + 1 \in DOMAIN w
            /\ w[(j - Len(v)) + 1].do \in OpenItems /\ (j - Len(v)) + 1 \in DOMAIN w
        BY <1>8, <2>2 DEF NoneOpens
      <4>2. (i - Len(v)) + 1 = (j - Len(v)) + 1
        BY <1>1, <4>1 DEF OpensOne
      <4>3. QED
        BY <1>6, <4>2
    <3>2. ~NoneOpens(u) => ~NoneOpens(w)
      BY <1>8, <2>2 DEF NoneOpens
    <3>3. ~NoneOpens(w) => a = NoAdapter
      BY DEF DllThread
    <3>4. b = a \/ b = NoAdapter
      BY <2>2
    <3>5. QED
      BY <3>1, <3>2, <3>3, <3>4
  <2>3. CASE ~NoneOpens(v)
    <3>1. OpensOne(v) /\ b = NoAdapter /\ w[1].do \in OpenItems
      BY <2>3
    <3>2. OpensOne(u)
      BY <1>8, <1>14, <3>1 DEF OpensOne
    <3>3. QED
      BY <3>1, <3>2
  <2>4. QED
    BY <2>1, <2>2, <2>3
<1>16. r.call # Idle /\ ThreadFields(r)
  BY DEF DllThread
<1>17. ThreadFields(s) /\ s.call # Idle
  BY <1>16 DEF NextRecord, ThreadFields
<1>18. DllThread(s, b)
  BY <1>4, <1>7, <1>12, <1>15, <1>17 DEF DllThread
<1>19. QED
  BY <1>7, <1>9, <1>13, <1>18

(* An item takes the place of one that the same must follow.               *)
LEMMA SwapThread ==
  ASSUME NEW r, NEW a, DllThread(r, a), r.work # << >>,
         NEW x, x.do \notin OpenItems, AtItem(x, a), After(x.do) = After(r.work[1].do),
         NEW s, NextRecord(r, s, <<x>> \o Tail(r.work))
  PROVE  DllThread(s, a) /\ s.work # << >> /\ s.work[1] = x
<1> DEFINE w == r.work
           u == <<x>> \o Tail(r.work)
<1>1. Shape(w) /\ w # << >> /\ OpensOne(w)
  BY DEF DllThread
<1>2. /\ Shape(u) /\ u[1] = x
      /\ \A i \in DOMAIN u : i > 1 => u[i] = w[i] /\ i \in DOMAIN w
  BY <1>1, ReplacedShape
<1>3. u # << >>
  <2>1. IsList(<<x>>) /\ Len(<<x>>) = 1
    <3>1. <<x>> \in Seq({x})
      OBVIOUS
    <3>2. QED
      BY <3>1, SeqIsList
  <2>2. IsList(Tail(w)) /\ Len(Tail(w)) \in Nat
    BY <1>1, ListTail, ListIsSeq DEF Shape
  <2>3. Len(u) = 1 + Len(Tail(w)) /\ IsList(u)
    BY <2>1, <2>2, ListBefore
  <2> HIDE DEF u
  <2>4. QED
    BY <2>2, <2>3, ListIsSeq
<1>4. s.work = u
  BY DEF NextRecord
<1>5. IsList(u)
  BY <1>2 DEF Shape
<1> HIDE DEF u
<1>6. DOMAIN u = 1..Len(u) /\ Len(u) \in Nat
  BY <1>5, ListIsSeq
<1>7. \A i \in DOMAIN u : u[i].do \in OpenItems => i \in DOMAIN w /\ w[i].do \in OpenItems
  <2> SUFFICES ASSUME NEW i \in DOMAIN u, u[i].do \in OpenItems
               PROVE  i \in DOMAIN w /\ w[i].do \in OpenItems
    OBVIOUS
  <2>1. i # 1
    BY <1>2
  <2>2. i > 1
    BY <1>6, <2>1
  <2>3. QED
    BY <1>2, <2>2
<1>8. OpensOne(u) /\ (~NoneOpens(u) => ~NoneOpens(w))
  BY <1>1, <1>7 DEF OpensOne, NoneOpens
<1>9. r.call # Idle /\ ThreadFields(r) /\ (~NoneOpens(w) => a = NoAdapter)
  BY DEF DllThread
<1>10. ThreadFields(s) /\ s.call # Idle
  BY <1>9 DEF NextRecord, ThreadFields
<1>11. QED
  BY <1>2, <1>3, <1>4, <1>8, <1>9, <1>10 DEF DllThread

(* The item that must follow comes first.                                  *)
LEMMA PopThread ==
  ASSUME NEW r, NEW a, DllThread(r, a), r.work # << >>, After(r.work[1].do) # Plain,
         NEW s, NextRecord(r, s, << >> \o Tail(r.work))
  PROVE  DllThread(s, a) /\ s.work # << >> /\ s.work[1].do \in After(r.work[1].do)
<1> DEFINE w == r.work
           u == Tail(r.work)
<1>1. Shape(w) /\ w # << >> /\ OpensOne(w)
  BY DEF DllThread
<1>2. Shape(u) /\ u # << >> /\ u[1].do \in After(w[1].do)
  BY <1>1, Popped
<1>3. \A i \in DOMAIN u : u[i] = w[i + 1] /\ i + 1 \in DOMAIN w
  BY <1>1, ListTail DEF Shape
<1>4. << >> \o u = u
  BY <1>2, NothingBefore DEF Shape
<1>5. s.work = u
  BY <1>4 DEF NextRecord
<1>6. IsList(u)
  BY <1>2 DEF Shape
<1> HIDE DEF u
<1>7. DOMAIN u = 1..Len(u) /\ Len(u) \in Nat
  BY <1>6, ListIsSeq
<1>8. OpensOne(u)
  <2> SUFFICES ASSUME NEW i \in DOMAIN u, NEW j \in DOMAIN u, u[i].do \in OpenItems, u[j].do \in OpenItems
               PROVE  i = j
    BY DEF OpensOne
  <2>1. i + 1 = j + 1
    BY <1>1, <1>3 DEF OpensOne
  <2>2. QED
    BY <1>7, <2>1
<1>9. ~NoneOpens(u) => ~NoneOpens(w)
  BY <1>3 DEF NoneOpens
<1>10. AtItem(u[1], a)
  <2>1. \A do : After(do) # Plain => After(do) \subseteq AfterChain \cup {"openfile", "done"}
    BY DEF After
  <2>2. u[1].do \notin {"wait", "card", "asked", "ask"}
    BY <1>2, <2>1 DEF AfterChain
  <2>3. QED
    BY <2>2 DEF AtItem
<1>11. r.call # Idle /\ ThreadFields(r) /\ (~NoneOpens(w) => a = NoAdapter)
  BY DEF DllThread
<1>12. ThreadFields(s) /\ s.call # Idle
  BY <1>11 DEF NextRecord, ThreadFields
<1>13. QED
  BY <1>2, <1>5, <1>8, <1>9, <1>10, <1>11, <1>12 DEF DllThread

-----------------------------------------------------------------------------
(* Steps in which no handle is opened or closed.                           *)

QuietItems(v) ==
  /\ Shape(v) /\ NoneOpens(v)
  /\ v # << >> => v[1].do \notin Holds \cup {"wait", "card", "asked", "ask"}

LEMMA TupleList ==
  ASSUME NEW x, NEW y, NEW z
  PROVE  /\ IsList(<< >>) /\ IsList(<<x>>) /\ IsList(<<x, y>>) /\ IsList(<<x, y, z>>)
         /\ <<x>> # << >> /\ <<x, y>> # << >> /\ <<x, y, z>> # << >>
<1>1. << >> \in Seq({x}) /\ <<x>> \in Seq({x}) /\ <<x, y>> \in Seq({x, y}) /\ <<x, y, z>> \in Seq({x, y, z})
  OBVIOUS
<1>2. Len(<<x>>) = 1 /\ Len(<<x, y>>) = 2 /\ Len(<<x, y, z>>) = 3 /\ Len(<< >>) = 0
  OBVIOUS
<1>3. IsList(<< >>) /\ IsList(<<x>>) /\ IsList(<<x, y>>) /\ IsList(<<x, y, z>>)
  BY <1>1, SeqIsList
<1>4. QED
  BY <1>2, <1>3, ListIsSeq

LEMMA TupleShape ==
  ASSUME NEW x, NEW y, NEW z
  PROVE  /\ Shape(<< >>) /\ NoneOpens(<< >>)
         /\ After(x.do) = Plain => Shape(<<x>>)
         /\ y.do \in After(x.do) => Shape(<<x, y>>)
         /\ y.do \in After(x.do) /\ z.do \in Plain => Shape(<<x, y, z>>)
         /\ x.do \notin OpenItems => NoneOpens(<<x>>)
         /\ x.do \notin OpenItems /\ y.do \notin OpenItems => NoneOpens(<<x, y>>)
         /\ x.do \notin OpenItems /\ y.do \notin OpenItems /\ z.do \notin OpenItems => NoneOpens(<<x, y, z>>)
         /\ OpensOne(<<x>>) /\ (x.do \notin OpenItems => OpensOne(<<x, y>>))
<1>1. /\ IsList(<< >>) /\ IsList(<<x>>) /\ IsList(<<x, y>>) /\ IsList(<<x, y, z>>)
      /\ <<x>> # << >> /\ <<x, y>> # << >> /\ <<x, y, z>> # << >>
  BY TupleList
<1>2. /\ Len(<< >>) = 0 /\ Len(<<x>>) = 1 /\ Len(<<x, y>>) = 2 /\ Len(<<x, y, z>>) = 3
      /\ DOMAIN << >> = {} /\ DOMAIN <<x>> = {1} /\ DOMAIN <<x, y>> = {1, 2} /\ DOMAIN <<x, y, z>> = {1, 2, 3}
      /\ <<x>>[1] = x /\ <<x, y>>[1] = x /\ <<x, y>>[2] = y
      /\ <<x, y, z>>[1] = x /\ <<x, y, z>>[2] = y /\ <<x, y, z>>[3] = z
  OBVIOUS
<1>3. Shape(<< >>) /\ NoneOpens(<< >>)
  BY <1>1, <1>2 DEF Shape, NoneOpens
<1>4. After(x.do) = Plain => Shape(<<x>>)
  BY <1>1, <1>2 DEF Shape
<1>5. y.do \in After(x.do) => Shape(<<x, y>>)
  BY <1>1, <1>2 DEF Shape
<1>6. y.do \in After(x.do) /\ z.do \in Plain => Shape(<<x, y, z>>)
  BY <1>1, <1>2 DEF Shape
<1>7. QED
  BY <1>2, <1>3, <1>4, <1>5, <1>6 DEF NoneOpens, OpensOne

LEMMA QuietTuples ==
  /\ QuietItems(<< >>)
  /\ \A x : After(x.do) = Plain /\ x.do \notin OpenItems \cup Holds \cup {"wait", "card", "asked", "ask"}
              => QuietItems(<<x>>)
  /\ \A x, y : y.do \in After(x.do) /\ y.do \notin OpenItems
               /\ x.do \notin OpenItems \cup Holds \cup {"wait", "card", "asked", "ask"}
                 => QuietItems(<<x, y>>)
  /\ \A x, y, z : y.do \in After(x.do) /\ z.do \in Plain /\ y.do \notin OpenItems /\ z.do \notin OpenItems
                  /\ x.do \notin OpenItems \cup Holds \cup {"wait", "card", "asked", "ask"}
                    => QuietItems(<<x, y, z>>)
<1>1. QuietItems(<< >>)
  BY TupleShape DEF QuietItems
<1>2. ASSUME NEW x, After(x.do) = Plain, x.do \notin OpenItems \cup Holds \cup {"wait", "card", "asked", "ask"}
      PROVE  QuietItems(<<x>>)
  BY <1>2, TupleShape DEF QuietItems
<1>3. ASSUME NEW x, NEW y, y.do \in After(x.do), y.do \notin OpenItems,
             x.do \notin OpenItems \cup Holds \cup {"wait", "card", "asked", "ask"}
      PROVE  QuietItems(<<x, y>>)
  BY <1>3, TupleShape DEF QuietItems
<1>4. ASSUME NEW x, NEW y, NEW z, y.do \in After(x.do), z.do \in Plain, y.do \notin OpenItems, z.do \notin OpenItems,
             x.do \notin OpenItems \cup Holds \cup {"wait", "card", "asked", "ask"}
      PROVE  QuietItems(<<x, y, z>>)
  BY <1>4, TupleShape DEF QuietItems
<1>5. QED
  BY <1>1, <1>2, <1>3, <1>4

LEMMA QuietLists ==
  ASSUME NEW v, IsList(v), \A i \in DOMAIN v : v[i].do \in Plain \ {"choose"}
  PROVE  QuietItems(v)
<1>1. Len(v) \in Nat /\ DOMAIN v = 1..Len(v) /\ (v = << >> <=> Len(v) = 0)
  BY ListIsSeq
<1>2. \A i \in DOMAIN v : v[i].do \in Plain /\ After(v[i].do) = Plain
                          /\ v[i].do \notin OpenItems \cup Holds \cup {"wait", "card", "asked", "ask"}
  BY Plainly DEF Plain, OpenItems, Holds, AfterChain
<1>3. v # << >> => 1 \in DOMAIN v
  BY <1>1
<1>4. Len(v) >= 2 => 2 \in DOMAIN v /\ v # << >>
  BY <1>1
<1>5. Shape(v)
  BY <1>2, <1>3, <1>4 DEF Shape
<1>6. QED
  BY <1>2, <1>3, <1>5 DEF QuietItems, NoneOpens

(* Records that differ from Then in what does not count.                   *)
LEMMA ThenNext ==
  ASSUME NEW t, ThreadFields(th[t]), NEW v, NEW x, NEW b \in BOOLEAN
  PROVE  LET w == v \o Tail(th[t].work)
         IN /\ NextRecord(th[t], Then(t, v), w) /\ NextRecord(th[t], [Then(t, v) EXCEPT !.ok = x], w)
            /\ NextRecord(th[t], [Then(t, v) EXCEPT !.found = x], w)
            /\ NextRecord(th[t], [Then(t, v) EXCEPT !.seen = x], w)
            /\ NextRecord(th[t], [Then(t, v) EXCEPT !.file = b], w)
            /\ Then(t, v).file = th[t].file /\ [Then(t, v) EXCEPT !.file = b].file = b
  BY DEF ThreadFields, Then, NextRecord

DllKept ==
  {"loaded", "gone", "leaked", "raced", "shown"} = DOMAIN dll' /\ dll'.leaked = dll.leaked

LEMMA MachineStays ==
  ASSUME machine' = machine
  PROVE  MacNames' = MacNames /\ (MachineLists => MachineLists')
  BY DEF MacNames, getAdaptersList, getTcpBindings, MachineLists

LEMMA TypesStay ==
  ASSUME DllInv, ServiceTypes', machine' = machine, DllKept, below' \in [Libraries -> Int],
         DOMAIN th' = Threads, DOMAIN ad' = Threads
  PROVE  DllTypes'
<1>1. MachineLists'
  BY MachineStays DEF DllInv, DllTypes
<1>2. QED
  BY <1>1 DEF DllTypes, DllKept, DllInv

LEMMA ServiceStays ==
  ASSUME DllInv, machine' = machine, svc' = svc, drv' = drv, mgm' = mgm
  PROVE  ServiceTypes'
<1>1. MacNames' = MacNames
  BY MachineStays
<1>2. ServiceTypes
  BY DEF DllInv, DllTypes
<1>3. QED
  BY <1>1, <1>2 DEF ServiceTypes

(* The step of thread t that leaves it with record s.                      *)
StepTo(t, s) ==
  /\ th' = [th EXCEPT ![t] = s]
  /\ mgm' = mgm /\ machine' = machine /\ DllKept

LEMMA StepOnly ==
  ASSUME DllInv, NEW t \in Threads, NEW s, StepTo(t, s), ad' = ad
  PROVE  OnlyThread(t) /\ th'[t] = s
  BY DEF StepTo, OnlyThread, DllInv, DllTypes

LEMMA QuietKeepsDll ==
  ASSUME DllInv, NEW t \in Threads, NEW s, StepTo(t, s), ad' = ad, below' = below,
         ServiceTypes', svc'.handles = svc.handles, drv'.files = drv.files,
         DllThread(s, ad[t]), Loose(th[t]), Loose(s)
  PROVE  DllInv'
<1>1. OnlyThread(t) /\ th'[t] = s
  BY StepOnly
<1>2. DllTypes'
  <2>1. machine' = machine /\ DllKept /\ DOMAIN th' = Threads /\ DOMAIN ad' = Threads
    BY <1>1 DEF StepTo, OnlyThread
  <2>2. below' \in [Libraries -> Int]
    BY DEF DllInv, DllTypes
  <2>3. QED
    BY <2>1, <2>2, TypesStay
<1>3. Balance(t)
  <2>1. /\ ServiceOf(th'[t]) = ServiceOf(th[t]) /\ FileOf(th'[t]) = FileOf(th[t])
        /\ \A lib \in Libraries : CardOf(th'[t], lib) = CardOf(th[t], lib)
    BY <1>1 DEF Loose, ServiceOf, FileOf, CardOf
  <2>2. dll'.leaked = dll.leaked
    BY DEF StepTo, DllKept
  <2>3. QED
    BY <2>1, <2>2 DEF Balance
<1>4. DllThread(th'[t], ad'[t]) /\ AdapterOK(ad'[t]) /\ mgm' = mgm
  BY <1>1 DEF DllInv, StepTo
<1>5. QED
  BY <1>1, <1>2, <1>3, <1>4, ThreadKeeps

LEMMA QuietStep ==
  ASSUME DllInv, NEW t \in Threads, NEW do, Doing(t, do), After(do) = Plain, do \notin Holds,
         NEW v, QuietItems(v), NEW s, NextRecord(th[t], s, v \o Tail(th[t].work)),
         StepTo(t, s), UNCHANGED <<svc, drv, ad, below>>
  PROVE  DllInv'
<1>1. /\ th[t].work # << >> /\ th[t].work[1].do = do /\ DllThread(th[t], ad[t])
  BY AtWork
<1>2. v # << >> => AtItem(v[1], ad[t])
  BY DEF QuietItems, AtItem
<1>3. /\ DllThread(s, ad[t])
      /\ v # << >> => s.work # << >> /\ s.work[1] = v[1]
      /\ v = << >> => Loose(s)
  BY <1>1, <1>2, PushThread DEF QuietItems
<1>4. Loose(s)
  <2>1. v # << >> => v[1].do \notin Holds
    BY DEF QuietItems
  <2>2. QED
    BY <1>3, <2>1, LooseAt
<1>5. Loose(th[t])
  BY <1>1, LooseAt
<1>6. ServiceTypes'
  BY ServiceStays DEF StepTo
<1>7. QED
  BY <1>3, <1>4, <1>5, <1>6, QuietKeepsDll

QuietDos == Plain \cup {"first", "prepend", "ask", "asked"}

QuietMove(t, do, v, s) ==
  /\ Doing(t, do) /\ do \in QuietDos /\ QuietItems(v)
  /\ \E x : s \in {Then(t, v), [Then(t, v) EXCEPT !.ok = x], [Then(t, v) EXCEPT !.found = x],
                   [Then(t, v) EXCEPT !.seen = x]}
  /\ Becomes(t, s) /\ UNCHANGED <<machine, mgm>> /\ DllKept /\ UNCHANGED <<svc, drv, ad, below>>

LEMMA QuietMoves ==
  ASSUME DllInv, NEW t \in Threads, NEW do, NEW v, NEW s, QuietMove(t, do, v, s)
  PROVE  DllInv'
<1>1. Doing(t, do) /\ QuietItems(v) /\ do \in QuietDos
  BY DEF QuietMove
<1>2. After(do) = Plain /\ do \notin Holds
  BY <1>1, Plainly DEF QuietDos, Plain, Chain, Holds, AfterChain
<1>3. ThreadFields(th[t])
  BY <1>1, AtWork
<1>4. NextRecord(th[t], s, v \o Tail(th[t].work))
  <2>1. PICK x : s \in {Then(t, v), [Then(t, v) EXCEPT !.ok = x], [Then(t, v) EXCEPT !.found = x],
                        [Then(t, v) EXCEPT !.seen = x]}
    BY DEF QuietMove
  <2>2. TRUE \in BOOLEAN
    OBVIOUS
  <2>3. LET w == v \o Tail(th[t].work)
        IN /\ NextRecord(th[t], Then(t, v), w) /\ NextRecord(th[t], [Then(t, v) EXCEPT !.ok = x], w)
           /\ NextRecord(th[t], [Then(t, v) EXCEPT !.found = x], w)
           /\ NextRecord(th[t], [Then(t, v) EXCEPT !.seen = x], w)
    BY <1>3, <2>2, ThenNext
  <2>4. QED
    BY <2>1, <2>3
<1>5. StepTo(t, s) /\ UNCHANGED <<svc, drv, ad, below>>
  BY DEF QuietMove, StepTo, Becomes
<1>6. QED
  BY <1>1, <1>2, <1>4, <1>5, QuietStep

LEMMA KeptWhen ==
  ASSUME DllInv, NEW x,
         \/ dll' = dll \/ dll' = [dll EXCEPT !.raced = x] \/ dll' = [dll EXCEPT !.shown = x]
         \/ dll' = [dll EXCEPT !.loaded = x] \/ dll' = [dll EXCEPT !.gone = x]
  PROVE  DllKept
  BY DEF DllKept, DllInv, DllTypes

(* What is put in the place of an item.                                    *)
LEMMA QuietLiterals ==
  ASSUME NEW n, NEW m, NEW k
  PROVE  /\ QuietItems(<< >>) /\ QuietItems(<<Do("unlock", n)>>) /\ QuietItems(<<Do("first", n)>>)
         /\ QuietItems(<<Do("prepend", n)>>)
         /\ QuietItems(<<Do("npf", n), Do("link", m), Do("unlock", k)>>)
         /\ QuietItems(<<Do("npf", n), Do("shut", m)>>) /\ QuietItems(<<Do("populate", n), Do("look", m)>>)
         /\ QuietItems(<<Do("add", n), Do("others", m)>>) /\ QuietItems(<<Do("update", n), Do("find", m)>>)
         /\ QuietItems(<<Do("tick", n), Do("send", m)>>)
<1>1. \A x, y : Do(x, y).do = x
  BY DEF Do
<1>2. /\ QuietItems(<< >>)
      /\ QuietItems(<<Do("unlock", n)>>) /\ QuietItems(<<Do("first", n)>>)
      /\ QuietItems(<<Do("prepend", n)>>)
  BY <1>1, QuietTuples DEF After, Chain, OpenItems, Holds, AfterChain
<1>3. QuietItems(<<Do("npf", n), Do("link", m), Do("unlock", k)>>)
  BY <1>1, QuietTuples DEF After, Chain, OpenItems, Holds, AfterChain, Plain
<1>4. QuietItems(<<Do("npf", n), Do("shut", m)>>)
  BY <1>1, QuietTuples DEF After, Chain, OpenItems, Holds, AfterChain
<1>5. QuietItems(<<Do("populate", n), Do("look", m)>>) /\ QuietItems(<<Do("add", n), Do("others", m)>>)
  BY <1>1, QuietTuples DEF After, Chain, OpenItems, Holds, AfterChain, Plain
<1>6. QuietItems(<<Do("update", n), Do("find", m)>>) /\ QuietItems(<<Do("tick", n), Do("send", m)>>)
  BY <1>1, QuietTuples DEF After, Chain, OpenItems, Holds, AfterChain, Plain
<1>7. QED
  BY <1>2, <1>3, <1>4, <1>5, <1>6

LEMMA MappedList ==
  ASSUME NEW l, IsList(l), NEW v, v = [i \in DOMAIN l |-> v[i]]
  PROVE  IsList(v) /\ Len(v) = Len(l) /\ DOMAIN v = DOMAIN l
<1>1. Len(l) \in Nat /\ DOMAIN l = 1..Len(l)
  BY ListIsSeq
<1>2. v \in Seq({v[i] : i \in DOMAIN l}) /\ Len(v) = Len(l) /\ DOMAIN v = DOMAIN l
  BY <1>1
<1>3. QED
  BY <1>2, SeqIsList

LEMMA QuietEach ==
  ASSUME NEW what \in Plain \ {"choose"}, NEW names, IsList(names)
  PROVE  QuietItems(Each(what, names)) /\ IsList(Each(what, names))
         /\ \A i \in DOMAIN Each(what, names) : Each(what, names)[i].do = what
<1> DEFINE v == Each(what, names)
<1>1. v = [i \in DOMAIN names |-> v[i]] /\ \A i \in DOMAIN names : v[i].do = what
  BY DEF Each, Do
<1> HIDE DEF v
<1>2. IsList(v) /\ DOMAIN v = DOMAIN names
  BY <1>1, MappedList
<1>3. QuietItems(v)
  BY <1>1, <1>2, QuietLists
<1>4. QED
  BY <1>1, <1>2, <1>3 DEF v

LEMMA QuietEverything ==
  ASSUME NEW order \in Seq(Plain \ {"choose"})
  PROVE  QuietItems(Everything(order))
<1> DEFINE v == Everything(order)
<1>0. IsList(order)
  BY SeqIsList
<1>1. v = [i \in DOMAIN order |-> v[i]] /\ \A i \in DOMAIN order : v[i].do = order[i]
  BY DEF Everything, Do
<1> HIDE DEF v
<1>2. IsList(v) /\ DOMAIN v = DOMAIN order
  BY <1>0, <1>1, MappedList
<1>3. \A i \in DOMAIN order : order[i] \in Plain \ {"choose"}
  BY ElementOfSeq, LenProperties
<1>4. QuietItems(v)
  BY <1>1, <1>2, <1>3, QuietLists
<1>5. QED
  BY <1>4 DEF v

-----------------------------------------------------------------------------
(* The actions of that kind.                                               *)

QuietGo(t, do, v) ==
  /\ Doing(t, do) /\ do \in QuietDos /\ QuietItems(v)
  /\ UNCHANGED <<machine, mgm>> /\ DllKept /\ UNCHANGED <<svc, drv, ad, below>>

LEMMA QuietGoes ==
  ASSUME DllInv, NEW t \in Threads, NEW do, NEW v, QuietGo(t, do, v), NEW x,
         \/ Goes(t, v) \/ Becomes(t, [Then(t, v) EXCEPT !.ok = x])
         \/ Becomes(t, [Then(t, v) EXCEPT !.found = x]) \/ Becomes(t, [Then(t, v) EXCEPT !.seen = x])
  PROVE  DllInv'
<1>1. CASE Goes(t, v)
  <2>1. QuietMove(t, do, v, Then(t, v))
    BY <1>1 DEF QuietMove, QuietGo, Goes
  <2>2. QED
    BY <2>1, QuietMoves
<1>2. CASE Becomes(t, [Then(t, v) EXCEPT !.ok = x])
  <2>1. QuietMove(t, do, v, [Then(t, v) EXCEPT !.ok = x])
    BY <1>2 DEF QuietMove, QuietGo
  <2>2. QED
    BY <2>1, QuietMoves
<1>3. CASE Becomes(t, [Then(t, v) EXCEPT !.found = x])
  <2>1. QuietMove(t, do, v, [Then(t, v) EXCEPT !.found = x])
    BY <1>3 DEF QuietMove, QuietGo
  <2>2. QED
    BY <2>1, QuietMoves
<1>4. CASE Becomes(t, [Then(t, v) EXCEPT !.seen = x])
  <2>1. QuietMove(t, do, v, [Then(t, v) EXCEPT !.seen = x])
    BY <1>4 DEF QuietMove, QuietGo
  <2>2. QED
    BY <2>1, QuietMoves
<1>5. QED
  BY <1>1, <1>2, <1>3, <1>4

Untouched == UNCHANGED <<machine, mgm, svc, drv, ad, below>> /\ DllKept

LEMMA AddNPFKeeps ==
  ASSUME DllInv, NEW t \in Threads, UNCHANGED <<machine, mgm>>, PacketAddAdapterNPF(t)
  PROVE  DllInv'
<1>1. Untouched
  BY KeptWhen DEF PacketAddAdapterNPF, AddNPF, KeepService, KeepAdapters, Untouched
<1>2. PICK do \in {"add", "hide"} : Doing(t, do) /\ AddNPF(t, do = "hide")
  <2>1. CASE Doing(t, "add") /\ AddNPF(t, FALSE)
    <3>1. ("add" = "hide") = FALSE
      OBVIOUS
    <3>2. QED
      BY <2>1, <3>1
  <2>2. CASE Doing(t, "hide") /\ AddNPF(t, TRUE)
    <3>1. ("hide" = "hide") = TRUE
      OBVIOUS
    <3>2. QED
      BY <2>2, <3>1
  <2>3. QED
    BY <2>1, <2>2 DEF PacketAddAdapterNPF
<1> DEFINE u == <<Do("unlock", Arg(t))>>
           n == <<Do("npf", Arg(t)), Do("link", Arg(t)), Do("unlock", Arg(t))>>
<1>3. Becomes(t, [Then(t, u) EXCEPT !.ok = TRUE]) \/ Goes(t, n)
  BY <1>2 DEF AddNPF
<1>4. QuietItems(u) /\ QuietItems(n)
  BY QuietLiterals
<1> HIDE DEF u, n
<1>5. QuietGo(t, do, u) /\ QuietGo(t, do, n)
  BY <1>1, <1>2, <1>4 DEF QuietGo, Untouched, QuietDos, Plain
<1>6. QED
  BY <1>3, <1>5, QuietGoes

LEMMA GetNPFKeeps ==
  ASSUME DllInv, NEW t \in Threads, UNCHANGED <<machine, mgm>>, PacketGetAdaptersNPF(t)
  PROVE  DllInv'
<1> DEFINE class == [i \in DOMAIN machine.class |->
                       Do(IF IsFireWire(i) THEN "hide" ELSE "add", machine.class[i].name)]
           tcp == Each("add", machine.tcp)
<1>1. Untouched /\ Doing(t, "npfs") /\ (Goes(t, class \o tcp) \/ Goes(t, class))
  BY KeptWhen DEF PacketGetAdaptersNPF, KeepAdapters, Untouched
<1>2. IsList(machine.class) /\ IsList(machine.tcp)
  BY DEF DllInv, DllTypes, MachineLists
<1>3. class = [i \in DOMAIN machine.class |-> class[i]] /\ \A i \in DOMAIN machine.class : class[i].do \in {"add", "hide"}
  BY DEF Do
<1>4. IsList(tcp) /\ \A i \in DOMAIN tcp : tcp[i].do = "add"
  BY <1>2, QuietEach DEF Plain
<1> HIDE DEF class, tcp
<1>5. IsList(class) /\ DOMAIN class = DOMAIN machine.class
  BY <1>2, <1>3, MappedList
<1>6. \A i \in DOMAIN class : class[i].do \in Plain \ {"choose"}
  BY <1>3, <1>5 DEF Plain
<1>7. /\ IsList(class \o tcp) /\ Len(class \o tcp) = Len(class) + Len(tcp)
      /\ \A i \in DOMAIN (class \o tcp) : (class \o tcp)[i] = IF i <= Len(class) THEN class[i] ELSE tcp[i - Len(class)]
  BY <1>4, <1>5, ListBefore
<1>8. \A i \in DOMAIN (class \o tcp) : (class \o tcp)[i].do \in Plain \ {"choose"}
  <2>1. /\ Len(class) \in Nat /\ DOMAIN class = 1..Len(class) /\ Len(tcp) \in Nat /\ DOMAIN tcp = 1..Len(tcp)
        /\ DOMAIN (class \o tcp) = 1..(Len(class) + Len(tcp))
    BY <1>4, <1>5, <1>7, ListIsSeq
  <2> SUFFICES ASSUME NEW i \in DOMAIN (class \o tcp)
               PROVE  (class \o tcp)[i].do \in Plain \ {"choose"}
    OBVIOUS
  <2>2. CASE i <= Len(class)
    BY <1>6, <1>7, <2>1, <2>2
  <2>3. CASE i > Len(class)
    <3>1. (class \o tcp)[i] = tcp[i - Len(class)] /\ i - Len(class) \in DOMAIN tcp
      BY <1>7, <2>1, <2>3
    <3>2. QED
      BY <1>4, <3>1 DEF Plain
  <2>4. QED
    BY <2>1, <2>2, <2>3
<1>9. QuietItems(class \o tcp) /\ QuietItems(class)
  BY <1>5, <1>6, <1>7, <1>8, QuietLists
<1>10. QuietGo(t, "npfs", class \o tcp) /\ QuietGo(t, "npfs", class)
  BY <1>1, <1>9 DEF QuietGo, Untouched, QuietDos, Plain
<1>11. QED
  BY <1>1, <1>10, QuietGoes

LEMMA IPHKeeps ==
  ASSUME DllInv, NEW t \in Threads, UNCHANGED <<machine, mgm>>, PacketAddAdapterIPH(t)
  PROVE  DllInv'
<1> DEFINE f == <<Do("first", Arg(t))>>
           n == <<Do("npf", Arg(t)), Do("shut", Arg(t))>>
<1>1. Untouched /\ Doing(t, "iph")
  BY KeptWhen DEF PacketAddAdapterIPH, KeepService, KeepAdapters, Untouched
<1>2. \/ Goes(t, << >>) \/ Becomes(t, [Then(t, f) EXCEPT !.seen = list])
      \/ Becomes(t, [Then(t, n) EXCEPT !.seen = list])
  BY DEF PacketAddAdapterIPH
<1>3. QuietItems(<< >>) /\ QuietItems(f) /\ QuietItems(n)
  BY QuietLiterals
<1> HIDE DEF f, n
<1>4. QuietGo(t, "iph", << >>) /\ QuietGo(t, "iph", f) /\ QuietGo(t, "iph", n)
  BY <1>1, <1>3 DEF QuietGo, Untouched, QuietDos, Plain
<1>5. QED
  BY <1>2, <1>4, QuietGoes

LEMMA FirstKeeps ==
  ASSUME DllInv, NEW t \in Threads, UNCHANGED <<machine, mgm>>, ReadFirst(t) \/ WriteFirst(t)
  PROVE  DllInv'
<1> DEFINE p == <<Do("prepend", Arg(t))>>
<1>1. CASE ReadFirst(t)
  <2>1. Untouched /\ Doing(t, "first")
    BY <1>1, KeptWhen DEF ReadFirst, Untouched
  <2>2. Goes(t, << >>) \/ Becomes(t, [Then(t, p) EXCEPT !.seen = list])
    BY <1>1 DEF ReadFirst
  <2>3. QuietItems(<< >>) /\ QuietItems(p)
    BY QuietLiterals
  <2> HIDE DEF p
  <2>4. QuietGo(t, "first", << >>) /\ QuietGo(t, "first", p)
    BY <2>1, <2>3 DEF QuietGo, Untouched, QuietDos
  <2>5. QED
    BY <2>2, <2>4, QuietGoes
<1>2. CASE WriteFirst(t)
  <2>1. Untouched /\ Doing(t, "prepend")
    BY <1>2, KeptWhen DEF WriteFirst, KeepService, Untouched
  <2>2. Becomes(t, [Then(t, << >>) EXCEPT !.seen = << >>])
    BY <1>2 DEF WriteFirst
  <2>3. QuietItems(<< >>)
    BY QuietLiterals
  <2>4. QuietGo(t, "prepend", << >>)
    BY <2>1, <2>3 DEF QuietGo, Untouched, QuietDos
  <2>5. QED
    BY <2>2, <2>4, QuietGoes
<1>3. QED
  BY <1>1, <1>2

(* Those that put nothing, a list of the machine's, or all kinds.          *)
LEMMA MutexKeeps ==
  ASSUME DllInv, NEW t \in Threads, UNCHANGED <<machine, mgm>>,
         LockMutex(t) \/ ReleaseMutex(t) \/ PacketLoadLibrariesDynamically(t)
         \/ PacketAddFakeNdisWanAdapter(t) \/ WaitForTarget(t) \/ Answered(t)
  PROVE  DllInv'
<1>1. Untouched
  BY KeptWhen DEF LockMutex, ReleaseMutex, PacketLoadLibrariesDynamically, PacketAddFakeNdisWanAdapter,
                  WaitForTarget, Answered, KeepService, KeepAdapters, Untouched
<1>2. Goes(t, << >>)
  BY DEF LockMutex, ReleaseMutex, PacketLoadLibrariesDynamically, PacketAddFakeNdisWanAdapter,
         WaitForTarget, Answered
<1>3. \E do \in QuietDos : Doing(t, do)
  <2>1. {"lock", "unlock", "load", "fake", "tick", "asked"} \subseteq QuietDos
    BY DEF QuietDos, Plain
  <2>2. \E do \in {"lock", "unlock", "load", "fake", "tick", "asked"} : Doing(t, do)
    BY DEF LockMutex, ReleaseMutex, PacketLoadLibrariesDynamically, PacketAddFakeNdisWanAdapter,
           WaitForTarget, Answered
  <2>3. QED
    BY <2>1, <2>2
<1>4. PICK do \in QuietDos : Doing(t, do)
  BY <1>3
<1>5. QuietItems(<< >>)
  BY QuietLiterals
<1>6. QuietGo(t, do, << >>)
  BY <1>1, <1>4, <1>5 DEF QuietGo, Untouched
<1>7. QED
  BY <1>2, <1>6, QuietGoes

LEMMA AskKeeps ==
  ASSUME DllInv, NEW t \in Threads, UNCHANGED <<machine, mgm>>, PacketGetAdaptersIPH(t)
  PROVE  DllInv'
<1> DEFINE v == [i \in DOMAIN machine.iph |-> Do("iph", machine.iph[i].name)]
<1>1. Untouched /\ Doing(t, "iphs") /\ (Goes(t, v) \/ Goes(t, << >>))
  BY KeptWhen DEF PacketGetAdaptersIPH, KeepAdapters, Untouched
<1>2. v = [i \in DOMAIN machine.iph |-> v[i]] /\ \A i \in DOMAIN machine.iph : v[i].do = "iph"
  BY DEF Do
<1>3. IsList(machine.iph)
  BY DEF DllInv, DllTypes, MachineLists
<1> HIDE DEF v
<1>4. IsList(v) /\ DOMAIN v = DOMAIN machine.iph
  BY <1>2, <1>3, MappedList
<1>5. QuietItems(v)
  <2>1. \A i \in DOMAIN v : v[i].do \in Plain \ {"choose"}
    BY <1>2, <1>4 DEF Plain
  <2>2. QED
    BY <1>4, <2>1, QuietLists
<1>6. QuietItems(<< >>)
  BY QuietLiterals
<1>7. QuietGo(t, "iphs", v) /\ QuietGo(t, "iphs", << >>)
  BY <1>1, <1>5, <1>6 DEF QuietGo, Untouched, QuietDos, Plain
<1>8. QED
  BY <1>1, <1>7, QuietGoes

LEMMA GetAdaptersKeeps ==
  ASSUME DllInv, NEW t \in Threads, UNCHANGED <<machine, mgm>>,
         PacketGetAdaptersAirpcap(t) \/ PacketGetAdaptersNpfIm(t) \/ PacketGetAdaptersDag(t)
  PROVE  DllInv'
<1>1. PICK item \in {"airs", "ims", "dags"}, what \in {"air", "im", "dag"},
           cards \in {machine.air, machine.im, machine.dag} : GetAdapters(t, item, what, cards)
  BY DEF PacketGetAdaptersAirpcap, PacketGetAdaptersNpfIm, PacketGetAdaptersDag
<1> DEFINE v == Each(what, cards)
<1>2. Untouched /\ Doing(t, item) /\ (Goes(t, v) \/ Goes(t, << >>))
  BY <1>1, KeptWhen DEF GetAdapters, KeepAdapters, Untouched
<1>3. QuietItems(v) /\ QuietItems(<< >>)
  <2>1. IsList(cards) /\ what \in Plain \ {"choose"}
    BY DEF DllInv, DllTypes, MachineLists, Plain
  <2>2. QuietItems(v)
    BY <2>1, QuietEach
  <2>3. QED
    BY <2>2, QuietLiterals
<1> HIDE DEF v
<1>4. QuietGo(t, item, v) /\ QuietGo(t, item, << >>)
  BY <1>2, <1>3 DEF QuietGo, Untouched, QuietDos, Plain
<1>5. QED
  BY <1>2, <1>4, QuietGoes

LEMMA FindKeeps ==
  ASSUME DllInv, NEW t \in Threads, UNCHANGED <<machine, mgm>>, PacketFindAdInfo(t) \/ LookAtList(t)
  PROVE  DllInv'
<1> DEFINE v == <<Do("populate", "all"), Do("look", Arg(t))>>
<1>1. Untouched /\ \E do \in {"find", "look"} : Doing(t, do)
  BY KeptWhen DEF PacketFindAdInfo, LookAtList, KeepService, KeepAdapters, Untouched
<1>2. Goes(t, v) \/ Becomes(t, [Then(t, << >>) EXCEPT !.found = FirstFlag(Arg(t))])
  BY DEF PacketFindAdInfo, LookAtList
<1>3. QuietItems(v) /\ QuietItems(<< >>)
  BY QuietLiterals
<1> HIDE DEF v
<1>4. PICK do \in {"find", "look"} : Doing(t, do)
  BY <1>1
<1>5. QuietGo(t, do, v) /\ QuietGo(t, do, << >>)
  BY <1>1, <1>3, <1>4 DEF QuietGo, Untouched, QuietDos, Plain
<1>6. QED
  BY <1>2, <1>5, QuietGoes

LEMMA UpdateKeeps ==
  ASSUME DllInv, NEW t \in Threads, UNCHANGED <<machine, mgm>>,
         PacketUpdateAdInfo(t) \/ UpdateOthers(t) \/ PacketPopulateAdaptersInfoList(t)
  PROVE  DllInv'
<1> DEFINE v == <<Do("add", Arg(t)), Do("others", Arg(t))>>
           o == Everything(<<"iphs", "ims", "airs", "fake", "dags">>)
           e == Everything(<<"npfs", "iphs", "fake", "airs", "ims", "dags", "unlock">>)
<1>1. DllKept
  <2>1. CASE PacketUpdateAdInfo(t)
    BY <2>1, KeptWhen DEF PacketUpdateAdInfo
  <2>2. CASE UpdateOthers(t)
    BY <2>2, KeptWhen DEF UpdateOthers
  <2>3. CASE PacketPopulateAdaptersInfoList(t)
    BY <2>3, KeptWhen DEF PacketPopulateAdaptersInfoList
  <2>4. QED
    BY <2>1, <2>2, <2>3
<1>2. Untouched
  BY <1>1 DEF PacketUpdateAdInfo, UpdateOthers, PacketPopulateAdaptersInfoList, KeepService, Untouched
<1>3. PICK do \in {"update", "others", "populate"} : Doing(t, do)
  BY DEF PacketUpdateAdInfo, UpdateOthers, PacketPopulateAdaptersInfoList
<1>4. Goes(t, << >>) \/ Goes(t, v) \/ Goes(t, o) \/ Goes(t, e)
  BY DEF PacketUpdateAdInfo, UpdateOthers, PacketPopulateAdaptersInfoList
<1>5. QuietItems(<< >>) /\ QuietItems(v)
  BY QuietLiterals
<1>6. QuietItems(o) /\ QuietItems(e)
  <2>1. /\ <<"iphs", "ims", "airs", "fake", "dags">> \in Seq(Plain \ {"choose"})
        /\ <<"npfs", "iphs", "fake", "airs", "ims", "dags", "unlock">> \in Seq(Plain \ {"choose"})
    BY DEF Plain
  <2>2. QED
    BY <2>1, QuietEverything
<1> HIDE DEF v, o, e
<1>7. do \in QuietDos
  BY DEF QuietDos, Plain
<1>8. QuietGo(t, do, << >>) /\ QuietGo(t, do, v) /\ QuietGo(t, do, o) /\ QuietGo(t, do, e)
  BY <1>2, <1>3, <1>5, <1>6, <1>7 DEF QuietGo, Untouched
<1>9. QED
  BY <1>4, <1>8, QuietGoes

LEMMA MissingKeeps ==
  ASSUME DllInv, NEW t \in Threads, UNCHANGED <<machine, mgm>>,
         UpdateWhenMissing(t) \/ PacketSendPackets(t)
  PROVE  DllInv'
<1> DEFINE u == <<Do("update", Arg(t)), Do("find", Arg(t))>>
           v == <<Do("tick", "due"), Do("send", "one")>>
           w == <<Do("tick", "due"), Do("send", Arg(t))>>
<1>1. Untouched /\ \E do \in {"missing", "send"} : Doing(t, do)
  BY KeptWhen DEF UpdateWhenMissing, PacketSendPackets, KeepService, KeepAdapters, Untouched
<1>2. Goes(t, << >>) \/ Goes(t, u) \/ Goes(t, v) \/ Goes(t, w)
  BY DEF UpdateWhenMissing, PacketSendPackets
<1>3. QuietItems(<< >>) /\ QuietItems(u) /\ QuietItems(v) /\ QuietItems(w)
  BY QuietLiterals
<1> HIDE DEF u, v, w
<1>4. PICK do \in {"missing", "send"} : Doing(t, do)
  BY <1>1
<1>5. do \in QuietDos
  BY DEF QuietDos, Plain
<1>6. QuietGo(t, do, << >>) /\ QuietGo(t, do, u) /\ QuietGo(t, do, v) /\ QuietGo(t, do, w)
  BY <1>1, <1>3, <1>4, <1>5 DEF QuietGo, Untouched
<1>7. QED
  BY <1>2, <1>6, QuietGoes

-----------------------------------------------------------------------------
(* PacketOpenAdapter puts one item that opens, at most; Ask puts "asked"   *)
(* only for who holds the adapter.                                         *)

LEMMA ChooseKeeps ==
  ASSUME DllInv, NEW t \in Threads, UNCHANGED <<machine, mgm>>, PacketOpenAdapter(t)
  PROVE  DllInv'
<1> DEFINE o == OpenBy(th[t].found)
           v == [i \in DOMAIN o |-> Do(o[i], Arg(t))]
           s == Then(t, v)
<1>1. Untouched /\ Doing(t, "choose") /\ Becomes(t, s)
  BY KeptWhen DEF PacketOpenAdapter, KeepService, KeepAdapters, Untouched, Goes
<1>2. o \in {<<"npf", "keep">>, <<"dagfile", "openfile">>, <<"open">>, << >>}
  BY DEF OpenBy
<1>3. /\ th[t].work # << >> /\ th[t].work[1].do = "choose" /\ DllThread(th[t], ad[t]) /\ ThreadFields(th[t])
      /\ th[t].work[1].do \in OpenItems /\ "choose" \notin Holds
  BY <1>1, AtWork DEF OpenItems, Holds, AfterChain
<1>4. After("choose") = Plain
  BY Plainly DEF Plain
<1>5. ad[t] = NoAdapter
  <2>1. IsList(th[t].work)
    BY <1>3 DEF DllThread, Shape
  <2>2. 1 \in DOMAIN th[t].work
    BY <1>3, <2>1, ListIsSeq
  <2>3. QED
    BY <1>3, <2>2 DEF NoneOpens, DllThread
<1>6. v \in {<<Do("npf", Arg(t)), Do("keep", Arg(t))>>, <<Do("dagfile", Arg(t)), Do("openfile", Arg(t))>>,
             <<Do("open", Arg(t))>>, << >>}
  <2>1. CASE o = <<"npf", "keep">>
    BY <2>1
  <2>2. CASE o = <<"dagfile", "openfile">>
    BY <2>2
  <2>3. CASE o = <<"open">>
    BY <2>3
  <2>4. CASE o = << >>
    BY <2>4
  <2>5. QED
    BY <1>2, <2>1, <2>2, <2>3, <2>4
<1> HIDE DEF o, v
<1>7. Shape(v) /\ OpensOne(v) /\ (v # << >> => v[1].do \notin Holds /\ AtItem(v[1], ad[t]))
  <2>0. \A x, y : Do(x, y).do = x
    BY DEF Do
  <2> DEFINE npf == Do("npf", Arg(t))
             keep == Do("keep", Arg(t))
             dagfile == Do("dagfile", Arg(t))
             openfile == Do("openfile", Arg(t))
             open == Do("open", Arg(t))
  <2>1. npf.do = "npf" /\ keep.do = "keep" /\ dagfile.do = "dagfile" /\ openfile.do = "openfile" /\ open.do = "open"
    BY <2>0
  <2>2. v \in {<<npf, keep>>, <<dagfile, openfile>>, <<open>>, << >>}
    BY <1>6
  <2> HIDE DEF npf, keep, dagfile, openfile, open
  <2>3. CASE v = <<npf, keep>>
    BY <2>1, <2>3, TupleShape DEF After, Chain, AfterChain, OpenItems, Holds, AtItem
  <2>4. CASE v = <<dagfile, openfile>>
    BY <2>1, <2>4, TupleShape DEF After, Chain, AfterChain, OpenItems, Holds, AtItem
  <2>5. CASE v = <<open>>
    BY <2>1, <2>5, TupleShape DEF After, Chain, AfterChain, OpenItems, Holds, AtItem
  <2>6. CASE v = << >>
    <3>1. OpensOne(<< >>)
      BY DEF OpensOne
    <3>2. QED
      BY <2>6, <3>1, TupleShape
  <2>7. QED
    BY <2>2, <2>3, <2>4, <2>5, <2>6
<1>8. NextRecord(th[t], s, v \o Tail(th[t].work))
  <2>1. TRUE \in BOOLEAN
    OBVIOUS
  <2>2. QED
    BY <1>3, <2>1, ThenNext
<1> HIDE DEF s
<1>9. /\ DllThread(s, ad[t])
      /\ v # << >> => s.work # << >> /\ s.work[1] = v[1]
      /\ v = << >> => Loose(s)
  BY <1>3, <1>4, <1>5, <1>7, <1>8, PushThread
<1>10. Loose(s) /\ Loose(th[t])
  BY <1>3, <1>7, <1>9, LooseAt
<1>11. StepTo(t, s) /\ ad' = ad /\ below' = below /\ svc' = svc /\ drv' = drv
  BY <1>1 DEF Untouched, StepTo, Becomes
<1>12. ServiceTypes'
  BY <1>11, ServiceStays
<1>13. QED
  BY <1>9, <1>10, <1>11, <1>12, QuietKeepsDll

(* Whoever answers for a kind of adapter is who holds it.                  *)
LEMMA AnswersHolder ==
  ASSUME NEW f \in {"ndis", "wan", "air", "im", "dag", "dagfile"}, NEW who \in Answers(f)
  PROVE  who \in {"yes", "no", Library(f)}
  BY DEF Answers, Library, PacketReceivePacket, PacketSendPacket, PacketSetMinToCopy, PacketSetDumpName,
         PacketSetDumpLimits, PacketIsDumpEnded, PacketSetNumWrites, PacketSetLoopbackBehavior,
         PacketSetReadTimeout, PacketSetBuff, PacketSetBpf, PacketSetSnapLen, PacketGetStats,
         PacketGetStatsEx, PacketSetHwFilter, PacketGetAirPcapHandle, PacketSetMode, PacketRequest, OnlyNdis

LEMMA AskedKeeps ==
  ASSUME DllInv, NEW t \in Threads, UNCHANGED <<machine, mgm>>, Ask(t)
  PROVE  DllInv'
<1>1. PICK who \in Answers(ad[t].flag) :
        Goes(t, IF who \in {"yes", "no"} THEN << >> ELSE <<Do("asked", who)>>)
  BY DEF Ask
<1> DEFINE v == IF who \in {"yes", "no"} THEN << >> ELSE <<Do("asked", who)>>
           s == Then(t, v)
<1>2. Untouched /\ Doing(t, "ask") /\ Becomes(t, s)
  BY <1>1, KeptWhen DEF Ask, KeepService, KeepAdapters, Untouched, Goes
<1>3. /\ th[t].work # << >> /\ th[t].work[1].do = "ask" /\ DllThread(th[t], ad[t]) /\ ThreadFields(th[t])
      /\ "ask" \notin Holds /\ After("ask") = Plain /\ ad[t].flag # "none" /\ AdapterOK(ad[t])
  BY <1>2, AtWork, Plainly DEF Holds, AfterChain, Chain, AtItem
<1>4. who \in {"yes", "no"} \/ who = Library(ad[t].flag)
  <2>1. ad[t].flag \in {"ndis", "wan", "air", "im", "dag", "dagfile"}
    BY <1>3 DEF AdapterOK, Libraries
  <2>2. QED
    BY <2>1, AnswersHolder
<1>5. Shape(v) /\ NoneOpens(v) /\ (v # << >> => v[1].do \notin Holds /\ AtItem(v[1], ad[t]))
  <2> DEFINE asked == Do("asked", who)
  <2>1. asked.do = "asked" /\ asked.name = who
    BY DEF Do
  <2>2. v = << >> \/ (v = <<asked>> /\ who = Library(ad[t].flag))
    BY <1>4
  <2> HIDE DEF asked, v
  <2>3. CASE v = << >>
    BY <2>3, TupleShape
  <2>4. CASE v = <<asked>> /\ who = Library(ad[t].flag)
    <3>1. v[1] = asked
      BY <2>4
    <3>2. AtItem(asked, ad[t])
      BY <1>3, <2>1, <2>4 DEF AtItem
    <3>3. Shape(<<asked>>) /\ NoneOpens(<<asked>>) /\ asked.do \notin Holds
      BY <2>1, TupleShape DEF After, Chain, OpenItems, Holds, AfterChain
    <3>4. QED
      BY <2>4, <3>1, <3>2, <3>3
  <2>5. QED
    BY <2>2, <2>3, <2>4
<1> HIDE DEF v
<1>6. NextRecord(th[t], s, v \o Tail(th[t].work))
  <2>1. TRUE \in BOOLEAN
    OBVIOUS
  <2>2. QED
    BY <1>3, <2>1, ThenNext
<1> HIDE DEF s
<1>7. /\ DllThread(s, ad[t])
      /\ v # << >> => s.work # << >> /\ s.work[1] = v[1]
      /\ v = << >> => Loose(s)
  BY <1>3, <1>5, <1>6, PushThread
<1>8. Loose(s) /\ Loose(th[t])
  BY <1>3, <1>5, <1>7, LooseAt
<1>9. StepTo(t, s) /\ ad' = ad /\ below' = below /\ svc' = svc /\ drv' = drv
  BY <1>2 DEF Untouched, StepTo, Becomes
<1>10. ServiceTypes'
  BY <1>9, ServiceStays
<1>11. QED
  BY <1>7, <1>8, <1>9, <1>10, QuietKeepsDll

-----------------------------------------------------------------------------
(* What the calls of the SCM and the files of the driver change.           *)

SvcSet == [there : BOOLEAN, marked : BOOLEAN, state : {"stopped", "running", "stopping"}, handles : Int]
DrvSet == [linked : SUBSET MacNames, files : Int]

(* The service has h handles and the driver f files.                       *)
ServiceNow(s, d, h, f) ==
  s \in SvcSet /\ (~s.there => s.handles = 0) /\ d \in DrvSet /\ s.handles = h /\ d.files = f

LEMMA ServiceIs ==
  ASSUME DllInv
  PROVE  ServiceNow(svc, drv, svc.handles, drv.files) /\ svc.handles \in Int /\ drv.files \in Int
  BY DEF DllInv, DllTypes, ServiceTypes, ServiceNow, SvcSet, DrvSet

LEMMA ServiceWillBe ==
  ASSUME DllInv, machine' = machine, mgm' = mgm, NEW h, NEW f, ServiceNow(svc', drv', h, f)
  PROVE  ServiceTypes' /\ svc'.handles = h /\ drv'.files = f /\ h \in Int /\ f \in Int
<1>1. MacNames' = MacNames
  BY MachineStays
<1>2. QED
  BY <1>1 DEF DllInv, DllTypes, ServiceTypes, ServiceNow, SvcSet, DrvSet

LEMMA SettleIs ==
  ASSUME DllInv, NEW s \in SvcSet, ~s.there => s.handles = 0, NEW f \in Int, Settle(s, f)
  PROVE  ServiceNow(svc', drv', s.handles, f)
<1> DEFINE x == Stopped(s, f)
<1>1. x \in SvcSet /\ x.handles = s.handles /\ (~x.there => x.handles = 0)
  BY DEF Stopped, SvcSet
<1>2. svc' = Purged(x) /\ drv' = NPF_Unload([drv EXCEPT !.files = f], x)
  BY DEF Settle
<1> HIDE DEF x
<1>3. svc' \in SvcSet /\ svc'.handles = s.handles /\ (~svc'.there => svc'.handles = 0)
  BY <1>1, <1>2 DEF Purged, SvcSet, NotThere
<1>4. drv \in DrvSet
  BY ServiceIs DEF ServiceNow
<1>5. drv' \in DrvSet /\ drv'.files = f
  BY <1>2, <1>4 DEF NPF_Unload, DrvSet
<1>6. QED
  BY <1>3, <1>5 DEF ServiceNow

LEMMA OpenServiceIs ==
  ASSUME DllInv, OpenService
  PROVE  ServiceNow(svc', drv', svc.handles + 1, drv.files)
  BY ServiceIs DEF OpenService, ServiceNow, SvcSet

LEMMA CloseHandleIs ==
  ASSUME DllInv, CloseServiceHandle, svc.there
  PROVE  ServiceNow(svc', drv', svc.handles - 1, drv.files)
<1> DEFINE s == [svc EXCEPT !.handles = @ - 1]
<1>1. s \in SvcSet /\ s.there /\ s.handles = svc.handles - 1 /\ drv.files \in Int
  BY ServiceIs DEF ServiceNow, SvcSet
<1>2. Settle(s, drv.files)
  BY DEF CloseServiceHandle
<1> HIDE DEF s
<1>3. QED
  BY <1>1, <1>2, SettleIs

LEMMA CreateServiceIs ==
  ASSUME DllInv, CreateService \/ UNCHANGED <<svc, drv>>
  PROVE  ServiceNow(svc', drv', svc.handles, drv.files)
  BY ServiceIs DEF CreateService, CanCreate, ServiceNow, SvcSet, Installed, NotThere

LEMMA ControlStopIs ==
  ASSUME DllInv, ControlStop
  PROVE  ServiceNow(svc', drv', svc.handles, drv.files)
<1> DEFINE s == [svc EXCEPT !.state = "stopping"]
<1>1. s \in SvcSet /\ (~s.there => s.handles = 0) /\ s.handles = svc.handles /\ drv.files \in Int
  BY ServiceIs DEF ServiceNow, SvcSet
<1>2. Settle(s, drv.files) \/ UNCHANGED <<svc, drv>>
  BY DEF ControlStop
<1> HIDE DEF s
<1>3. QED
  BY <1>1, <1>2, SettleIs, ServiceIs

LEMMA DeleteServiceIs ==
  ASSUME DllInv, DeleteService
  PROVE  ServiceNow(svc', drv', svc.handles, drv.files)
<1> DEFINE s == [svc EXCEPT !.marked = TRUE]
<1>1. s \in SvcSet /\ (~s.there => s.handles = 0) /\ s.handles = svc.handles /\ drv.files \in Int
  BY ServiceIs DEF ServiceNow, SvcSet
<1>2. Settle(s, drv.files)
  BY DEF DeleteService
<1> HIDE DEF s
<1>3. QED
  BY <1>1, <1>2, SettleIs

LEMMA StartServiceIs ==
  ASSUME DllInv, NEW how, StartService(how)
  PROVE  ServiceNow(svc', drv', svc.handles, drv.files)
<1>1. ASSUME NEW ok, DriverEntry(ok)
      PROVE  ServiceNow(svc', drv', svc.handles, drv.files)
  <2>1. CASE UNCHANGED <<svc, drv>>
    BY <2>1, ServiceIs
  <2>2. CASE ~UNCHANGED <<svc, drv>>
    <3>1. PICK linked \in SUBSET MacNames : drv' = [drv EXCEPT !.linked = linked]
      BY <1>1, <2>2 DEF DriverEntry
    <3>2. svc' = [svc EXCEPT !.state = "running"]
      BY <1>1, <2>2 DEF DriverEntry
    <3>3. QED
      BY <3>1, <3>2, ServiceIs DEF ServiceNow, SvcSet, DrvSet
  <2>3. QED
    BY <2>1, <2>2
<1>2. CASE UNCHANGED <<svc, drv>>
  BY <1>2, ServiceIs
<1>3. UNCHANGED <<svc, drv>> \/ DriverEntry(TRUE) \/ DriverEntry(FALSE)
  BY DEF StartService
<1>4. QED
  BY <1>1, <1>2, <1>3

LEMMA OpenFileIs ==
  ASSUME DllInv, OpenFile
  PROVE  ServiceNow(svc', drv', svc.handles, drv.files + 1)
  BY ServiceIs DEF OpenFile, ServiceNow, DrvSet

LEMMA CloseFileIs ==
  ASSUME DllInv, CloseFile
  PROVE  ServiceNow(svc', drv', svc.handles, drv.files - 1)
<1>1. svc \in SvcSet /\ (~svc.there => svc.handles = 0) /\ drv.files - 1 \in Int
  BY ServiceIs DEF ServiceNow
<1>2. QED
  BY <1>1, SettleIs DEF CloseFile

-----------------------------------------------------------------------------
(* Steps that open or close a handle.                                      *)

(* Thread t is left with record s and adapter a, the service with h        *)
(* handles of which l are leaked, the driver with f files.                 *)
HandleStep(t, s, a, h, l, f) ==
  /\ th' = [th EXCEPT ![t] = s]
  /\ ad' = [ad EXCEPT ![t] = a] \/ (ad' = ad /\ a = ad[t])
  /\ mgm' = mgm /\ machine' = machine
  /\ ServiceNow(svc', drv', h, f)
  /\ {"loaded", "gone", "leaked", "raced", "shown"} = DOMAIN dll' /\ dll'.leaked = l /\ l \in Nat
  /\ below' \in [Libraries -> Int]

LEMMA HandlesMove ==
  ASSUME DllInv, NEW t \in Threads, NEW s, NEW a, NEW h, NEW l, NEW f, HandleStep(t, s, a, h, l, f),
         h - l - N(ServiceOf(s)) = svc.handles - dll.leaked - N(ServiceOf(th[t])),
         f - N(FileOf(s)) - N(Has(a, "ndis")) = drv.files - N(FileOf(th[t])) - N(Has(ad[t], "ndis")),
         \A lib \in Libraries :
           below'[lib] - N(CardOf(s, lib)) - N(Has(a, lib))
             = below[lib] - N(CardOf(th[t], lib)) - N(Has(ad[t], lib)),
         DllThread(s, a), AdapterOK(a)
  PROVE  DllInv'
<1>1. OnlyThread(t) /\ th'[t] = s /\ ad'[t] = a
  BY DEF HandleStep, OnlyThread, DllInv, DllTypes
<1>2. ServiceTypes' /\ svc'.handles = h /\ drv'.files = f
  BY ServiceWillBe DEF HandleStep
<1>3. DllTypes'
  <2>1. MachineLists'
    BY MachineStays DEF HandleStep, DllInv, DllTypes
  <2>2. QED
    BY <1>1, <1>2, <2>1 DEF HandleStep, DllTypes, OnlyThread
<1>4. Balance(t)
  <2>1. dll'.leaked = l
    BY DEF HandleStep
  <2>2. QED
    BY <1>1, <1>2, <2>1 DEF Balance
<1>5. mgm' = mgm
  BY DEF HandleStep
<1>6. QED
  BY <1>1, <1>3, <1>4, <1>5, ThreadKeeps

(* Most steps leave the adapters of the thread and the libraries alone.    *)
ServiceStep(t, s, h, l, f) ==
  /\ th' = [th EXCEPT ![t] = s]
  /\ mgm' = mgm /\ machine' = machine /\ ad' = ad /\ below' = below
  /\ ServiceNow(svc', drv', h, f)
  /\ {"loaded", "gone", "leaked", "raced", "shown"} = DOMAIN dll' /\ dll'.leaked = l /\ l \in Nat

LEMMA ServiceMoves ==
  ASSUME DllInv, NEW t \in Threads, NEW s, NEW h, NEW l, NEW f, ServiceStep(t, s, h, l, f),
         h - l - N(ServiceOf(s)) = svc.handles - dll.leaked - N(ServiceOf(th[t])),
         f - N(FileOf(s)) = drv.files - N(FileOf(th[t])),
         \A lib \in Libraries : ~CardOf(s, lib) /\ ~CardOf(th[t], lib),
         DllThread(s, ad[t])
  PROVE  DllInv'
<1>1. HandleStep(t, s, ad[t], h, l, f)
  BY DEF HandleStep, ServiceStep, DllInv, DllTypes
<1>2. f - N(FileOf(s)) - N(Has(ad[t], "ndis")) = drv.files - N(FileOf(th[t])) - N(Has(ad[t], "ndis"))
  OBVIOUS
<1>3. ASSUME NEW lib \in Libraries
      PROVE  below'[lib] - N(CardOf(s, lib)) - N(Has(ad[t], lib))
               = below[lib] - N(CardOf(th[t], lib)) - N(Has(ad[t], lib))
  <2>1. N(CardOf(s, lib)) = N(CardOf(th[t], lib)) /\ below'[lib] = below[lib]
    BY DEF ServiceStep, N
  <2>2. QED
    BY <2>1
<1>4. AdapterOK(ad[t])
  BY DEF DllInv
<1>5. QED
  BY <1>1, <1>2, <1>3, <1>4, HandlesMove

-----------------------------------------------------------------------------
(* PacketOpenAdapterNPF: one item of the chain takes the place of another, *)
(* or the last one leaves in "file" whether there is a file.               *)

WithService == {"start", "close"}

LEMMA ChainHolds ==
  ASSUME NEW r, r.work # << >>, r.work[1].do \in Chain
  PROVE  /\ ServiceOf(r) <=> r.work[1].do \in WithService
         /\ FileOf(r) <=> r.work[1].do = "event"
         /\ \A lib : ~CardOf(r, lib)
  BY DEF ServiceOf, FileOf, CardOf, Chain, AfterChain, WithService

LEMMA AfterChainHolds ==
  ASSUME NEW r, r.work # << >>, r.work[1].do \in AfterChain, r.file \in BOOLEAN
  PROVE  ~ServiceOf(r) /\ (FileOf(r) <=> r.file) /\ \A lib : ~CardOf(r, lib)
  BY DEF ServiceOf, FileOf, CardOf, AfterChain

LEMMA ChainGoesOn ==
  ASSUME DllInv, NEW t \in Threads, NEW do \in Chain, Doing(t, do), NEW x, x.do \in Chain,
         NEW h, NEW f, ServiceStep(t, Then(t, <<x>>), h, dll.leaked, f),
         h - N(x.do \in WithService) = svc.handles - N(do \in WithService),
         f - N(x.do = "event") = drv.files - N(do = "event")
  PROVE  DllInv'
<1> DEFINE s == Then(t, <<x>>)
<1>1. /\ th[t].work # << >> /\ th[t].work[1].do = do /\ DllThread(th[t], ad[t]) /\ ThreadFields(th[t])
  BY AtWork
<1>2. NextRecord(th[t], s, <<x>> \o Tail(th[t].work))
  <2>1. TRUE \in BOOLEAN
    OBVIOUS
  <2>2. QED
    BY <1>1, <2>1, ThenNext
<1>3. x.do \notin OpenItems /\ AtItem(x, ad[t]) /\ After(x.do) = After(th[t].work[1].do)
  BY <1>1, Plainly DEF Chain, OpenItems, AtItem
<1>4. ServiceStep(t, s, h, dll.leaked, f)
  OBVIOUS
<1> HIDE DEF s
<1>5. DllThread(s, ad[t]) /\ s.work # << >> /\ s.work[1] = x
  BY <1>1, <1>2, <1>3, SwapThread
<1>6. /\ N(ServiceOf(s)) = N(x.do \in WithService) /\ N(ServiceOf(th[t])) = N(do \in WithService)
      /\ N(FileOf(s)) = N(x.do = "event") /\ N(FileOf(th[t])) = N(do = "event")
      /\ \A lib \in Libraries : ~CardOf(s, lib) /\ ~CardOf(th[t], lib)
  BY <1>1, <1>5, ChainHolds DEF N
<1>7. h \in Int /\ f \in Int /\ svc.handles \in Int /\ drv.files \in Int /\ dll.leaked \in Nat
  <2>1. h \in Int /\ f \in Int
    BY ServiceWillBe DEF ServiceStep
  <2>2. QED
    BY <2>1, ServiceIs DEF DllInv, DllTypes
<1>8. \A b : N(b) \in Int
  BY DEF N
<1>9. h - dll.leaked - N(ServiceOf(s)) = svc.handles - dll.leaked - N(ServiceOf(th[t]))
  BY <1>6, <1>7, <1>8
<1>10. f - N(FileOf(s)) = drv.files - N(FileOf(th[t]))
  BY <1>6
<1>11. QED
  BY <1>4, <1>5, <1>6, <1>9, <1>10, ServiceMoves

LEMMA ChainEnds ==
  ASSUME DllInv, NEW t \in Threads, NEW do \in Chain, Doing(t, do), NEW b \in BOOLEAN,
         NEW h, NEW l, NEW f, ServiceStep(t, [Then(t, << >>) EXCEPT !.file = b], h, l, f),
         h - l = svc.handles - dll.leaked - N(do \in WithService),
         f - N(b) = drv.files - N(do = "event")
  PROVE  DllInv'
<1> DEFINE s == [Then(t, << >>) EXCEPT !.file = b]
<1>1. /\ th[t].work # << >> /\ th[t].work[1].do = do /\ DllThread(th[t], ad[t]) /\ ThreadFields(th[t])
  BY AtWork
<1>2. NextRecord(th[t], s, << >> \o Tail(th[t].work)) /\ s.file = b
  BY <1>1, ThenNext
<1>3. After(th[t].work[1].do) = AfterChain /\ AfterChain # Plain
  BY <1>1, Plainly DEF AfterChain, Plain
<1>4. ServiceStep(t, s, h, l, f)
  OBVIOUS
<1> HIDE DEF s
<1>5. DllThread(s, ad[t]) /\ s.work # << >> /\ s.work[1].do \in AfterChain
  BY <1>1, <1>2, <1>3, PopThread
<1>6. /\ N(ServiceOf(s)) = 0 /\ N(ServiceOf(th[t])) = N(do \in WithService)
      /\ N(FileOf(s)) = N(b) /\ N(FileOf(th[t])) = N(do = "event")
      /\ \A lib \in Libraries : ~CardOf(s, lib) /\ ~CardOf(th[t], lib)
  BY <1>1, <1>2, <1>5, ChainHolds, AfterChainHolds DEF N
<1>7. h \in Int /\ f \in Int /\ l \in Nat
  BY ServiceWillBe DEF ServiceStep
<1>8. h - l - N(ServiceOf(s)) = svc.handles - dll.leaked - N(ServiceOf(th[t]))
  BY <1>6, <1>7
<1>9. f - N(FileOf(s)) = drv.files - N(FileOf(th[t]))
  BY <1>6
<1>10. QED
  BY <1>4, <1>5, <1>6, <1>8, <1>9, ServiceMoves

ChainRest == /\ UNCHANGED <<machine, mgm>> /\ UNCHANGED <<ad, below>>

LEMMA ChainStep ==
  ASSUME DllInv, NEW t \in Threads, ChainRest, NEW h, NEW f, ServiceNow(svc', drv', h, f)
  PROVE  /\ \A v : Goes(t, v) /\ dll' = dll => ServiceStep(t, Then(t, v), h, dll.leaked, f)
         /\ \A b : Becomes(t, [Then(t, << >>) EXCEPT !.file = b]) /\ dll' = dll
                     => ServiceStep(t, [Then(t, << >>) EXCEPT !.file = b], h, dll.leaked, f)
         /\ \A b : Becomes(t, [Then(t, << >>) EXCEPT !.file = b]) /\ dll' = [dll EXCEPT !.leaked = @ + 1]
                     => ServiceStep(t, [Then(t, << >>) EXCEPT !.file = b], h, dll.leaked + 1, f)
<1>1. {"loaded", "gone", "leaked", "raced", "shown"} = DOMAIN dll /\ dll.leaked \in Nat
  BY DEF DllInv, DllTypes
<1>2. dll' = [dll EXCEPT !.leaked = @ + 1]
        => {"loaded", "gone", "leaked", "raced", "shown"} = DOMAIN dll' /\ dll'.leaked = dll.leaked + 1
           /\ dll.leaked + 1 \in Nat
  BY <1>1
<1>3. QED
  BY <1>1, <1>2 DEF ChainRest, ServiceStep, Goes, Becomes

LEMMA SameService ==
  ASSUME DllInv, UNCHANGED <<svc, drv>>
  PROVE  ServiceNow(svc', drv', svc.handles, drv.files)
  BY ServiceIs

(* While the item goes on to x.                                            *)
LEMMA ChainGoes ==
  ASSUME DllInv, NEW t \in Threads, ChainRest, dll' = dll, NEW do \in Chain, Doing(t, do),
         NEW y \in Chain, NEW n, Goes(t, <<Do(y, n)>>),
         NEW h, NEW f, ServiceNow(svc', drv', h, f),
         h - N(y \in WithService) = svc.handles - N(do \in WithService),
         f - N(y = "event") = drv.files - N(do = "event")
  PROVE  DllInv'
<1> DEFINE x == Do(y, n)
<1>1. x.do = y
  BY DEF Do
<1>2. Goes(t, <<x>>)
  OBVIOUS
<1> HIDE DEF x
<1>3. ServiceStep(t, Then(t, <<x>>), h, dll.leaked, f)
  BY <1>2, ChainStep
<1>4. h - N(x.do \in WithService) = svc.handles - N(do \in WithService)
      /\ f - N(x.do = "event") = drv.files - N(do = "event") /\ x.do \in Chain
  BY <1>1
<1>5. QED
  BY <1>3, <1>4, ChainGoesOn

LEMMA NpfKeeps ==
  ASSUME DllInv, NEW t \in Threads, UNCHANGED <<machine, mgm>>,
         PacketOpenAdapterNPF(t) \/ InstallFirst(t) \/ InstallAgain(t)
  PROVE  DllInv'
<1>1. ChainRest /\ dll' = dll
  BY DEF PacketOpenAdapterNPF, InstallFirst, InstallAgain, KeepAdapters, ChainRest
<1>2. PICK do \in {"npf", "install", "again"} : Doing(t, do)
  BY DEF PacketOpenAdapterNPF, InstallFirst, InstallAgain
<1>3. PICK y \in {"service", "install", "file", "again", "blind"} : Goes(t, <<Do(y, Arg(t))>>)
  BY DEF PacketOpenAdapterNPF, InstallFirst, InstallAgain
<1>4. ServiceNow(svc', drv', svc.handles, drv.files)
  <2>1. CreateService \/ UNCHANGED <<svc, drv>>
    BY DEF PacketOpenAdapterNPF, InstallFirst, InstallAgain, PacketInstallDriver
  <2>2. QED
    BY <2>1, CreateServiceIs
<1>5. do \in Chain /\ y \in Chain /\ do # "event" /\ y # "event" /\ do \notin WithService /\ y \notin WithService
  BY DEF Chain, WithService
<1>6. svc.handles - N(y \in WithService) = svc.handles - N(do \in WithService)
      /\ drv.files - N(y = "event") = drv.files - N(do = "event")
  BY <1>5 DEF N
<1>7. QED
  BY <1>1, <1>2, <1>3, <1>4, <1>5, <1>6, ChainGoes

LEMMA OpenServiceKeeps ==
  ASSUME DllInv, NEW t \in Threads, UNCHANGED <<machine, mgm>>, OpenServiceFirst(t) \/ OpenServiceAgain(t)
  PROVE  DllInv'
<1>1. ChainRest /\ dll' = dll
  BY DEF OpenServiceFirst, OpenServiceAgain, KeepAdapters, ChainRest
<1>2. PICK do \in {"service", "blind"} : Doing(t, do)
  BY DEF OpenServiceFirst, OpenServiceAgain
<1>3. do \in Chain /\ do # "event" /\ do \notin WithService /\ {"start", "close", "file"} \subseteq Chain
      /\ svc.handles \in Int
  BY ServiceIs DEF Chain, WithService
<1>4. CASE OpenService /\ \E y \in WithService : Goes(t, <<Do(y, Arg(t))>>)
  <2>1. PICK y \in WithService : Goes(t, <<Do(y, Arg(t))>>)
    BY <1>4
  <2>2. ServiceNow(svc', drv', svc.handles + 1, drv.files)
    BY <1>4, OpenServiceIs
  <2>3. (svc.handles + 1) - N(y \in WithService) = svc.handles - N(do \in WithService)
        /\ drv.files - N(y = "event") = drv.files - N(do = "event") /\ y \in Chain
    BY <1>3 DEF N, WithService
  <2>4. QED
    BY <1>1, <1>2, <1>3, <2>1, <2>2, <2>3, ChainGoes
<1>5. CASE UNCHANGED <<svc, drv>> /\ Goes(t, <<Do("file", Arg(t))>>)
  <2>1. ServiceNow(svc', drv', svc.handles, drv.files)
    BY <1>5, SameService
  <2>2. svc.handles - N("file" \in WithService) = svc.handles - N(do \in WithService)
        /\ drv.files - N("file" = "event") = drv.files - N(do = "event")
    BY <1>3 DEF N, WithService
  <2>3. "file" \in Chain
    BY <1>3
  <2>4. QED
    BY <1>1, <1>2, <1>3, <1>5, <2>1, <2>2, <2>3, ChainGoes
<1>6. QED
  <2>1. CASE svc.state = "running"
    BY <1>4, <1>5, <2>1 DEF OpenServiceFirst, OpenServiceAgain, WithService
  <2>2. CASE svc.state # "running"
    BY <1>4, <1>5, <2>2 DEF OpenServiceFirst, OpenServiceAgain, WithService
  <2>3. QED
    BY <2>1, <2>2

(* Somebody has a handle of the service, so it is there.                   *)
LEMMA ServiceIsThere ==
  ASSUME DllInv, \/ MgmHolds
                 \/ \E t \in Threads : ServiceOf(th[t])
  PROVE  svc.there
<1> DEFINE S == {t \in Threads : ServiceOf(th[t])}
<1>1. IsFiniteSet(S) /\ Cardinality(S) \in Nat
  <2>1. IsFiniteSet(Threads)
    BY ThreadsAssumption
  <2>2. QED
    BY <2>1, FS_Subset, FS_CardinalityType
<1>2. svc.handles = dll.leaked + N(MgmHolds) + Cardinality(S) /\ dll.leaked \in Nat
      /\ svc.handles \in Int /\ (~svc.there => svc.handles = 0)
  BY DEF DllInv, Counts, DllTypes, ServiceTypes
<1>3. S # {} => Cardinality(S) # 0
  BY <1>1, FS_EmptySet
<1>4. S # {} \/ MgmHolds
  OBVIOUS
<1> HIDE DEF S
<1>5. N(MgmHolds) \in {0, 1} /\ (MgmHolds => N(MgmHolds) = 1)
  BY DEF N
<1>6. svc.handles # 0
  BY <1>1, <1>2, <1>3, <1>4, <1>5
<1>7. QED
  BY <1>2, <1>6

(* Arithmetic of the handles.                                              *)
LEMMA Differences ==
  /\ \A x, y \in Int : x - y = x - y - 0
  /\ \A x, y \in Int : x - (y + 1) = x - y - 1
  /\ \A x \in Int : (x + 1) - 1 = x - 0 /\ x - 0 = x - 0 /\ x - 1 = x - 1 /\ (x - 1) - 0 = x - 1
  OBVIOUS

LEMMA StartDriverKeeps ==
  ASSUME DllInv, NEW t \in Threads, UNCHANGED <<machine, mgm>>, StartDriver(t) \/ CloseService(t)
  PROVE  DllInv'
<1>1. ChainRest
  BY DEF StartDriver, CloseService, KeepAdapters, ChainRest
<1>2. {"start", "close", "file"} \subseteq Chain /\ svc.handles \in Int
  BY ServiceIs DEF Chain
<1>3. CASE StartDriver(t)
  <2>1. Doing(t, "start") /\ \E how : StartService(how)
    BY <1>3 DEF StartDriver
  <2>2. ServiceNow(svc', drv', svc.handles, drv.files)
    BY <2>1, StartServiceIs
  <2>3. CASE Goes(t, <<Do("close", Arg(t))>>) /\ dll' = dll
    <3>1. svc.handles - N("close" \in WithService) = svc.handles - N("start" \in WithService)
          /\ drv.files - N("close" = "event") = drv.files - N("start" = "event")
      BY DEF N, WithService
    <3>2. "close" \in Chain /\ "start" \in Chain
      BY <1>2
    <3>3. QED
      BY <1>1, <2>1, <2>2, <2>3, <3>1, <3>2, ChainGoes
  <2>4. CASE Becomes(t, [Then(t, << >>) EXCEPT !.file = FALSE]) /\ dll' = [dll EXCEPT !.leaked = @ + 1]
    <3>1. ServiceStep(t, [Then(t, << >>) EXCEPT !.file = FALSE], svc.handles, dll.leaked + 1, drv.files)
      BY <1>1, <2>2, <2>4, ChainStep
    <3>2. dll.leaked \in Nat
      BY DEF DllInv, DllTypes
    <3>3. N("start" \in WithService) = 1 /\ N(FALSE) = N("start" = "event")
      BY DEF N, WithService
    <3>4. svc.handles - (dll.leaked + 1) = svc.handles - dll.leaked - N("start" \in WithService)
          /\ drv.files - N(FALSE) = drv.files - N("start" = "event")
      <4>1. svc.handles \in Int /\ dll.leaked \in Int
        BY <1>2, <3>2
      <4>2. svc.handles - (dll.leaked + 1) = svc.handles - dll.leaked - 1
        BY <4>1, Differences
      <4>3. QED
        BY <3>3, <4>2
    <3>5. "start" \in Chain /\ FALSE \in BOOLEAN
      BY <1>2
    <3>6. QED
      BY <2>1, <3>1, <3>4, <3>5, ChainEnds
  <2>5. QED
    BY <1>3, <2>3, <2>4 DEF StartDriver
<1>4. CASE CloseService(t)
  <2>1. Doing(t, "close") /\ CloseServiceHandle /\ Goes(t, <<Do("file", Arg(t))>>) /\ dll' = dll
    BY <1>4 DEF CloseService, KeepAdapters
  <2>2. th[t].work # << >> /\ th[t].work[1].do = "close"
    BY <2>1, AtWork
  <2>3. svc.there
    BY <2>2, ServiceIsThere DEF ServiceOf
  <2>4. ServiceNow(svc', drv', svc.handles - 1, drv.files)
    BY <2>1, <2>3, CloseHandleIs
  <2>5. (svc.handles - 1) - N("file" \in WithService) = svc.handles - N("close" \in WithService)
        /\ drv.files - N("file" = "event") = drv.files - N("close" = "event")
    BY <1>2 DEF N, WithService
  <2>6. "file" \in Chain /\ "close" \in Chain
    BY <1>2
  <2>7. QED
    BY <1>1, <2>1, <2>4, <2>5, <2>6, ChainGoes
<1>5. QED
  BY <1>3, <1>4

LEMMA FileKeeps ==
  ASSUME DllInv, NEW t \in Threads, UNCHANGED <<machine, mgm>>, OpenTheFile(t) \/ PacketSetReadEvt(t)
  PROVE  DllInv'
<1>1. ChainRest /\ dll' = dll
  BY DEF OpenTheFile, PacketSetReadEvt, KeepAdapters, ChainRest
<1>2. "file" \in Chain /\ "event" \in Chain /\ drv.files \in Int /\ svc.handles \in Int
      /\ TRUE \in BOOLEAN /\ FALSE \in BOOLEAN /\ dll.leaked \in Nat
  BY ServiceIs DEF Chain, DllInv, DllTypes
<1>n. N("file" \in WithService) = 0 /\ N("event" \in WithService) = 0 /\ N("file" = "event") = 0
      /\ N("event" = "event") = 1 /\ N(TRUE) = 1 /\ N(FALSE) = 0
  BY DEF N, WithService
<1>d. svc.handles - dll.leaked = svc.handles - dll.leaked - 0 /\ (drv.files - 1) - 0 = drv.files - 1
  <2>1. dll.leaked \in Int
    BY <1>2
  <2>2. QED
    BY <1>2, <2>1, Differences
<1>3. CASE Doing(t, "file") /\ OpenFile /\ Goes(t, <<Do("event", Arg(t))>>)
  <2>1. ServiceNow(svc', drv', svc.handles, drv.files + 1)
    BY <1>3, OpenFileIs
  <2>2. svc.handles - N("event" \in WithService) = svc.handles - N("file" \in WithService)
        /\ (drv.files + 1) - N("event" = "event") = drv.files - N("file" = "event")
    BY <1>2, <1>n
  <2>3. QED
    BY <1>1, <1>2, <1>3, <2>1, <2>2, ChainGoes
<1>4. CASE Doing(t, "file") /\ UNCHANGED <<svc, drv>> /\ Becomes(t, [Then(t, << >>) EXCEPT !.file = FALSE])
  <2>1. ServiceStep(t, [Then(t, << >>) EXCEPT !.file = FALSE], svc.handles, dll.leaked, drv.files)
    BY <1>1, <1>4, SameService, ChainStep
  <2>2. svc.handles - dll.leaked = svc.handles - dll.leaked - N("file" \in WithService)
        /\ drv.files - N(FALSE) = drv.files - N("file" = "event")
    BY <1>d, <1>n
  <2>3. QED
    BY <1>2, <1>4, <2>1, <2>2, ChainEnds
<1>5. CASE Doing(t, "event") /\ UNCHANGED <<svc, drv>> /\ Becomes(t, [Then(t, << >>) EXCEPT !.file = TRUE])
  <2>1. ServiceStep(t, [Then(t, << >>) EXCEPT !.file = TRUE], svc.handles, dll.leaked, drv.files)
    BY <1>1, <1>5, SameService, ChainStep
  <2>2. svc.handles - dll.leaked = svc.handles - dll.leaked - N("event" \in WithService)
        /\ drv.files - N(TRUE) = drv.files - N("event" = "event")
    BY <1>d, <1>n
  <2>3. QED
    BY <1>2, <1>5, <2>1, <2>2, ChainEnds
<1>6. CASE Doing(t, "event") /\ CloseFile /\ Becomes(t, [Then(t, << >>) EXCEPT !.file = FALSE])
  <2>0. ServiceNow(svc', drv', svc.handles, drv.files - 1)
    BY <1>6, CloseFileIs
  <2>1. ServiceStep(t, [Then(t, << >>) EXCEPT !.file = FALSE], svc.handles, dll.leaked, drv.files - 1)
    BY <1>1, <1>6, <2>0, ChainStep
  <2>2. svc.handles - dll.leaked = svc.handles - dll.leaked - N("event" \in WithService)
        /\ (drv.files - 1) - N(FALSE) = drv.files - N("event" = "event")
    BY <1>d, <1>n
  <2>3. QED
    BY <1>2, <1>6, <2>1, <2>2, ChainEnds
<1>7. QED
  BY <1>3, <1>4, <1>5, <1>6 DEF OpenTheFile, PacketSetReadEvt

-----------------------------------------------------------------------------
(* What follows PacketOpenAdapterNPF: the file is closed, or kept.         *)

LEMMA AfterChainGoesOn ==
  ASSUME DllInv, NEW t \in Threads, NEW do \in AfterChain, Doing(t, do), NEW v, QuietItems(v),
         NEW s, NextRecord(th[t], s, v \o Tail(th[t].work)),
         NEW f, ServiceStep(t, s, svc.handles, dll.leaked, f), f = drv.files - N(th[t].file)
  PROVE  DllInv'
<1>1. /\ th[t].work # << >> /\ th[t].work[1].do = do /\ DllThread(th[t], ad[t]) /\ ThreadFields(th[t])
  BY AtWork
<1>2. After(do) = Plain
  BY Plainly
<1>3. v # << >> => AtItem(v[1], ad[t]) /\ v[1].do \notin Holds
  BY DEF QuietItems, AtItem
<1>4. /\ DllThread(s, ad[t])
      /\ v # << >> => s.work # << >> /\ s.work[1] = v[1]
      /\ v = << >> => Loose(s)
  BY <1>1, <1>2, <1>3, PushThread DEF QuietItems
<1>5. Loose(s)
  BY <1>3, <1>4, LooseAt
<1>6. ~ServiceOf(th[t]) /\ (FileOf(th[t]) <=> th[t].file) /\ \A lib : ~CardOf(th[t], lib)
  BY <1>1, AfterChainHolds DEF ThreadFields
<1>7. ~ServiceOf(s) /\ ~FileOf(s) /\ \A lib : ~CardOf(s, lib)
  BY <1>5 DEF Loose
<1>8. svc.handles - dll.leaked - N(ServiceOf(s)) = svc.handles - dll.leaked - N(ServiceOf(th[t]))
  BY <1>6, <1>7 DEF N
<1>9. f - N(FileOf(s)) = drv.files - N(FileOf(th[t]))
  <2>1. N(FileOf(s)) = 0 /\ N(FileOf(th[t])) = N(th[t].file)
    BY <1>6, <1>7 DEF N
  <2>2. f \in Int
    BY ServiceWillBe DEF ServiceStep
  <2>3. QED
    BY <2>1, <2>2
<1>10. QED
  BY <1>4, <1>6, <1>7, <1>8, <1>9, ServiceMoves

LEMMA LinkKeeps ==
  ASSUME DllInv, NEW t \in Threads, UNCHANGED <<machine, mgm>>, LinkNPF(t)
  PROVE  DllInv'
<1>1. ChainRest /\ dll' = dll /\ Doing(t, "link")
  BY DEF LinkNPF, KeepAdapters, ChainRest
<1>2. PICK b \in BOOLEAN : Becomes(t, [Then(t, << >>) EXCEPT !.ok = b])
  BY DEF LinkNPF
<1> DEFINE s == [Then(t, << >>) EXCEPT !.ok = b]
<1>3. ThreadFields(th[t]) /\ "link" \in AfterChain /\ QuietItems(<< >>)
  BY <1>1, AtWork, QuietLiterals DEF AfterChain
<1>4. NextRecord(th[t], s, << >> \o Tail(th[t].work))
  BY <1>3, ThenNext
<1>5. Becomes(t, s)
  BY <1>2
<1> HIDE DEF s
<1>6. ASSUME NEW f, ServiceNow(svc', drv', svc.handles, f)
      PROVE  ServiceStep(t, s, svc.handles, dll.leaked, f)
  BY <1>1, <1>5, <1>6 DEF ServiceStep, ChainRest, Becomes, DllInv, DllTypes
<1>7. drv.files \in Int
  BY ServiceIs
<1>8. CASE ~th[t].file /\ UNCHANGED <<svc, drv>>
  <2>1. ServiceStep(t, s, svc.handles, dll.leaked, drv.files)
    BY <1>6, <1>8, SameService
  <2>2. drv.files = drv.files - N(th[t].file)
    BY <1>7, <1>8 DEF N
  <2>3. QED
    BY <1>1, <1>3, <1>4, <2>1, <2>2, AfterChainGoesOn
<1>9. CASE th[t].file /\ CloseFile
  <2>1. ServiceStep(t, s, svc.handles, dll.leaked, drv.files - 1)
    BY <1>6, <1>9, CloseFileIs
  <2>2. drv.files - 1 = drv.files - N(th[t].file)
    BY <1>9 DEF N
  <2>3. QED
    BY <1>1, <1>3, <1>4, <2>1, <2>2, AfterChainGoesOn
<1>10. QED
  BY <1>8, <1>9 DEF LinkNPF

LEMMA ShutKeeps ==
  ASSUME DllInv, NEW t \in Threads, UNCHANGED <<machine, mgm>>, ShutIPH(t)
  PROVE  DllInv'
<1>1. ChainRest /\ dll' = dll /\ Doing(t, "shut")
  BY DEF ShutIPH, KeepAdapters, ChainRest
<1>3. ThreadFields(th[t]) /\ "shut" \in AfterChain /\ QuietItems(<< >>) /\ QuietItems(<<Do("first", Arg(t))>>)
      /\ drv.files \in Int
  BY <1>1, AtWork, QuietLiterals, ServiceIs DEF AfterChain
<1>4. ASSUME NEW v
      PROVE  NextRecord(th[t], Then(t, v), v \o Tail(th[t].work))
  <2>1. TRUE \in BOOLEAN
    OBVIOUS
  <2>2. QED
    BY <1>3, <2>1, ThenNext
<1>5. CASE ~th[t].file /\ UNCHANGED <<svc, drv>> /\ Goes(t, << >>)
  <2>1. ServiceStep(t, Then(t, << >>), svc.handles, dll.leaked, drv.files)
    BY <1>1, <1>5, SameService, ChainStep
  <2>2. drv.files = drv.files - N(th[t].file)
    BY <1>3, <1>5 DEF N
  <2>3. QED
    BY <1>1, <1>3, <1>4, <2>1, <2>2, AfterChainGoesOn
<1>6. CASE th[t].file /\ CloseFile /\ Goes(t, <<Do("first", Arg(t))>>)
  <2> DEFINE v == <<Do("first", Arg(t))>>
  <2>0. QuietItems(v) /\ Goes(t, v)
    BY <1>3, <1>6
  <2> HIDE DEF v
  <2>1. ServiceStep(t, Then(t, v), svc.handles, dll.leaked, drv.files - 1)
    BY <1>1, <1>6, <2>0, CloseFileIs, ChainStep
  <2>2. drv.files - 1 = drv.files - N(th[t].file)
    BY <1>6 DEF N
  <2>3. QED
    BY <1>1, <1>3, <1>4, <2>0, <2>1, <2>2, AfterChainGoesOn
<1>7. QED
  BY <1>5, <1>6 DEF ShutIPH

(* What a library or the driver holds for an adapter.                      *)
LEMMA HasNothing ==
  /\ \A who \in Libraries \cup {"ndis"} : ~Has(NoAdapter, who)
  /\ \A n : Has(Entry(n, "ndis"), "ndis") /\ \A lib \in Libraries : ~Has(Entry(n, "ndis"), lib)
  /\ \A n : \A lib \in Libraries : \A who \in Libraries \cup {"ndis"} : Has(Entry(n, lib), who) <=> who = lib
  /\ \A n : \A who \in Libraries \cup {"ndis"} : Has(Entry(n, "dagfile"), who) <=> who = "dag"
  BY DEF Has, Library, NoAdapter, Entry, Libraries

(* The item that opens is the only one, and the thread has no adapter.     *)
LEMMA NoneYet ==
  ASSUME DllInv, NEW t \in Threads, NEW do \in OpenItems, Doing(t, do)
  PROVE  ad[t] = NoAdapter
<1>1. th[t].work # << >> /\ th[t].work[1].do = do /\ DllThread(th[t], ad[t])
  BY AtWork
<1>2. IsList(th[t].work)
  BY <1>1 DEF DllThread, Shape
<1>3. 1 \in DOMAIN th[t].work
  BY <1>1, <1>2, ListIsSeq
<1>4. QED
  BY <1>1, <1>3 DEF NoneOpens, DllThread

LEMMA KeepKeeps ==
  ASSUME DllInv, NEW t \in Threads, UNCHANGED <<machine, mgm>>, KeepNPF(t)
  PROVE  DllInv'
<1> DEFINE a == IF th[t].file THEN Entry(Arg(t), "ndis") ELSE ad[t]
           s == Then(t, << >>)
<1>1. Doing(t, "keep") /\ ad' = [ad EXCEPT ![t] = a] /\ Becomes(t, s)
      /\ UNCHANGED <<svc, drv, below, dll, machine, mgm>>
  BY DEF KeepNPF, KeepService, Goes
<1>2. "keep" \in OpenItems /\ "keep" \in AfterChain /\ After("keep") = Plain
  BY Plainly DEF OpenItems, AfterChain
<1>3. /\ th[t].work # << >> /\ th[t].work[1].do = "keep" /\ DllThread(th[t], ad[t]) /\ ThreadFields(th[t])
      /\ ad[t] = NoAdapter /\ th[t].file \in BOOLEAN
  BY <1>1, <1>2, AtWork, NoneYet DEF ThreadFields
<1>4. /\ th[t].file => a = Entry(Arg(t), "ndis")
      /\ ~th[t].file => a = NoAdapter
  BY <1>3
<1>5. NextRecord(th[t], s, << >> \o Tail(th[t].work))
  <2>1. TRUE \in BOOLEAN
    OBVIOUS
  <2>2. QED
    BY <1>3, <2>1, ThenNext
<1> HIDE DEF a, s
<1>6. DllThread(s, a) /\ Loose(s)
  <2>1. Shape(<< >>) /\ NoneOpens(<< >>)
    BY TupleShape
  <2>2. QED
    BY <1>2, <1>3, <1>5, <2>1, PushThread
<1>7. AdapterOK(a)
  BY <1>4 DEF AdapterOK, Entry, NoAdapter, Libraries
<1>8. HandleStep(t, s, a, svc.handles, dll.leaked, drv.files)
  <2>1. ServiceNow(svc', drv', svc.handles, drv.files)
    BY <1>1, SameService
  <2>2. QED
    BY <1>1, <2>1 DEF HandleStep, Becomes, DllInv, DllTypes
<1>9. /\ ~ServiceOf(s) /\ ~ServiceOf(th[t]) /\ ~FileOf(s) /\ (FileOf(th[t]) <=> th[t].file)
      /\ \A lib : ~CardOf(s, lib) /\ ~CardOf(th[t], lib)
  BY <1>2, <1>3, <1>6, AfterChainHolds DEF Loose
<1>10. svc.handles - dll.leaked - N(ServiceOf(s)) = svc.handles - dll.leaked - N(ServiceOf(th[t]))
  BY <1>9 DEF N
<1>11. drv.files - N(FileOf(s)) - N(Has(a, "ndis")) = drv.files - N(FileOf(th[t])) - N(Has(ad[t], "ndis"))
  <2>1. N(FileOf(s)) = 0 /\ N(Has(ad[t], "ndis")) = 0
    BY <1>3, <1>9, HasNothing DEF N
  <2>2. N(Has(a, "ndis")) = N(FileOf(th[t]))
    BY <1>4, <1>9, HasNothing DEF N
  <2>3. N(FileOf(th[t])) \in Int /\ drv.files \in Int
    BY ServiceIs DEF N
  <2>4. QED
    BY <2>1, <2>2, <2>3
<1>12. ASSUME NEW lib \in Libraries
       PROVE  below'[lib] - N(CardOf(s, lib)) - N(Has(a, lib)) = below[lib] - N(CardOf(th[t], lib)) - N(Has(ad[t], lib))
  <2>1. ~Has(a, lib) /\ ~Has(ad[t], lib)
    BY <1>3, <1>4, HasNothing
  <2>2. N(CardOf(s, lib)) = N(CardOf(th[t], lib)) /\ N(Has(a, lib)) = N(Has(ad[t], lib)) /\ below' = below
    BY <1>1, <1>9, <2>1 DEF N
  <2>3. QED
    BY <2>2
<1>13. QED
  BY <1>6, <1>7, <1>8, <1>10, <1>11, <1>12, HandlesMove

-----------------------------------------------------------------------------
(* Steps in which a library opens or closes a card.                        *)

LibraryStep(t, s, a) ==
  /\ th' = [th EXCEPT ![t] = s]
  /\ ad' = [ad EXCEPT ![t] = a] \/ (ad' = ad /\ a = ad[t])
  /\ UNCHANGED <<machine, mgm, svc, drv, dll>>

(* What a thread with record r and adapter a has open of a library.        *)
Own(r, a, lib) == N(CardOf(r, lib)) + N(Has(a, lib))

Moved(r, a, s, b) ==
  /\ below' \in [Libraries -> Int]
  /\ \A lib \in Libraries : below'[lib] - Own(s, b, lib) = below[lib] - Own(r, a, lib)

LEMMA LibraryMoves ==
  ASSUME DllInv, NEW t \in Threads, NEW s, NEW a, LibraryStep(t, s, a), Moved(th[t], ad[t], s, a),
         ~ServiceOf(s), ~FileOf(s), ~ServiceOf(th[t]), ~FileOf(th[t]),
         (Has(a, "ndis") <=> Has(ad[t], "ndis")), DllThread(s, a), AdapterOK(a)
  PROVE  DllInv'
<1>1. HandleStep(t, s, a, svc.handles, dll.leaked, drv.files)
  <2>1. ServiceNow(svc', drv', svc.handles, drv.files)
    BY SameService DEF LibraryStep
  <2>2. QED
    BY <2>1 DEF HandleStep, LibraryStep, Moved, DllInv, DllTypes
<1>2. svc.handles - dll.leaked - N(ServiceOf(s)) = svc.handles - dll.leaked - N(ServiceOf(th[t]))
  BY DEF N
<1>3. drv.files - N(FileOf(s)) - N(Has(a, "ndis")) = drv.files - N(FileOf(th[t])) - N(Has(ad[t], "ndis"))
  <2>1. N(FileOf(s)) = N(FileOf(th[t])) /\ N(Has(a, "ndis")) = N(Has(ad[t], "ndis"))
    BY DEF N
  <2>2. QED
    BY <2>1
<1>4. ASSUME NEW lib \in Libraries
      PROVE  below'[lib] - N(CardOf(s, lib)) - N(Has(a, lib)) = below[lib] - N(CardOf(th[t], lib)) - N(Has(ad[t], lib))
  <2> DEFINE x == below[lib]
             y == below'[lib]
             i == N(CardOf(s, lib))
             j == N(Has(a, lib))
             k == N(CardOf(th[t], lib))
             l == N(Has(ad[t], lib))
  <2>1. x \in Int /\ y \in Int /\ i \in Int /\ j \in Int /\ k \in Int /\ l \in Int
    BY DEF Moved, DllInv, DllTypes, N
  <2>2. y - (i + j) = x - (k + l)
    BY DEF Moved, Own
  <2> HIDE DEF x, y, i, j, k, l
  <2>3. y - i - j = x - k - l
    BY <2>1, <2>2
  <2>4. QED
    BY <2>3 DEF x, y, i, j, k, l
<1>5. QED
  BY <1>1, <1>2, <1>3, <1>4, HandlesMove

LEMMA LibraryOpens ==
  ASSUME DllInv, NEW r, NEW a, NEW s, NEW b, NEW lib \in Libraries, Opens(lib),
         \A l \in Libraries : Own(s, b, l) = Own(r, a, l) + N(l = lib)
  PROVE  Moved(r, a, s, b)
<1>1. below \in [Libraries -> Int]
  BY DEF DllInv, DllTypes
<1>2. below' \in [Libraries -> Int] /\ \A l \in Libraries : below'[l] = below[l] + N(l = lib)
  BY <1>1 DEF Opens, N
<1>3. ASSUME NEW l \in Libraries
      PROVE  below'[l] - Own(s, b, l) = below[l] - Own(r, a, l)
  <2> DEFINE x == below[l]
             y == below'[l]
             i == Own(s, b, l)
             j == Own(r, a, l)
             k == N(l = lib)
  <2>1. x \in Int /\ y \in Int /\ i \in Int /\ j \in Int /\ k \in Int
    BY <1>1, <1>2 DEF Own, N
  <2>2. y = x + k /\ i = j + k
    BY <1>2
  <2> HIDE DEF x, y, i, j, k
  <2>3. y - i = x - j
    BY <2>1, <2>2
  <2>4. QED
    BY <2>3 DEF x, y, i, j
<1>4. QED
  BY <1>2, <1>3 DEF Moved

LEMMA LibraryCloses ==
  ASSUME DllInv, NEW r, NEW a, NEW s, NEW b, NEW lib \in Libraries, Closes(lib),
         \A l \in Libraries : Own(r, a, l) = Own(s, b, l) + N(l = lib)
  PROVE  Moved(r, a, s, b)
<1>1. below \in [Libraries -> Int]
  BY DEF DllInv, DllTypes
<1>2. below' \in [Libraries -> Int] /\ \A l \in Libraries : below'[l] = below[l] - N(l = lib)
  BY <1>1 DEF Closes, N
<1>3. ASSUME NEW l \in Libraries
      PROVE  below'[l] - Own(s, b, l) = below[l] - Own(r, a, l)
  <2> DEFINE x == below[l]
             y == below'[l]
             i == Own(s, b, l)
             j == Own(r, a, l)
             k == N(l = lib)
  <2>1. x \in Int /\ y \in Int /\ i \in Int /\ j \in Int /\ k \in Int
    BY <1>1, <1>2 DEF Own, N
  <2>2. y = x - k /\ j = i + k
    BY <1>2
  <2> HIDE DEF x, y, i, j, k
  <2>3. y - i = x - j
    BY <2>1, <2>2
  <2>4. QED
    BY <2>3 DEF x, y, i, j
<1>4. QED
  BY <1>2, <1>3 DEF Moved

LEMMA LibraryKeeps ==
  ASSUME DllInv, NEW r, NEW a, NEW s, NEW b, below' = below,
         \A l \in Libraries : Own(r, a, l) = Own(s, b, l)
  PROVE  Moved(r, a, s, b)
  BY DEF Moved, DllInv, DllTypes

(* What is open for the first item.                                        *)
LEMMA FirstOwns ==
  ASSUME NEW r
  PROVE  /\ r.work # << >> /\ r.work[1].do = "card" => \A lib : CardOf(r, lib) <=> lib = r.work[1].name
         /\ r.work # << >> /\ r.work[1].do \in {"dagcard", "daglink"} => \A lib : CardOf(r, lib) <=> lib = "dag"
         /\ (r.work # << >> => r.work[1].do \notin {"card", "dagcard", "daglink"}) => \A lib : ~CardOf(r, lib)
         /\ (r.work # << >> => r.work[1].do \notin {"start", "close", "control", "done"}) => ~ServiceOf(r)
         /\ (r.work # << >> => r.work[1].do \notin AfterChain \cup {"event"}) => ~FileOf(r)
  BY DEF CardOf, ServiceOf, FileOf

(* What is left once v has taken the place of an item.                     *)
LeftWith(s, v) ==
  /\ v = << >> => Loose(s)
  /\ v # << >> => s.work # << >> /\ s.work[1] = v[1]

ServiceItems == AfterChain \cup {"start", "close", "control", "done", "event"}

(* An item is done in a step that only moves what a library has open.      *)
LEMMA LibraryGoes ==
  ASSUME DllInv, NEW t \in Threads, NEW do, Doing(t, do), After(do) = Plain, do \notin ServiceItems,
         NEW v, Shape(v), NoneOpens(v),
         NEW a, AdapterOK(a), (Has(a, "ndis") <=> Has(ad[t], "ndis")),
         v # << >> => AtItem(v[1], a) /\ v[1].do \notin ServiceItems,
         a = ad[t] \/ a = NoAdapter \/ do \in OpenItems,
         NEW s, NextRecord(th[t], s, v \o Tail(th[t].work)), LibraryStep(t, s, a),
         LeftWith(s, v) => Moved(th[t], ad[t], s, a)
  PROVE  DllInv'
<1>1. /\ th[t].work # << >> /\ th[t].work[1].do = do /\ DllThread(th[t], ad[t])
  BY AtWork
<1>2. DllThread(s, a) /\ LeftWith(s, v)
  BY <1>1, PushThread DEF LeftWith
<1>3. ~ServiceOf(th[t]) /\ ~FileOf(th[t])
  BY <1>1, FirstOwns DEF ServiceItems
<1>4. ~ServiceOf(s) /\ ~FileOf(s)
  <2>1. CASE v = << >>
    BY <1>2, <2>1 DEF Loose, LeftWith
  <2>2. CASE v # << >>
    BY <1>2, <2>2, FirstOwns DEF LeftWith, ServiceItems
  <2>3. QED
    BY <2>1, <2>2
<1>5. Moved(th[t], ad[t], s, a)
  BY <1>2
<1>6. QED
  BY <1>2, <1>3, <1>4, <1>5, LibraryMoves

(* What a thread owns then.                                                *)
LEMMA LeftOwns ==
  ASSUME NEW s, NEW v, LeftWith(s, v), NEW a
  PROVE  /\ (v # << >> => v[1].do \notin {"card", "dagcard", "daglink"})
              => \A lib : Own(s, a, lib) = N(Has(a, lib))
         /\ v # << >> /\ v[1].do = "card" => \A lib : Own(s, a, lib) = N(lib = v[1].name) + N(Has(a, lib))
         /\ v # << >> /\ v[1].do \in {"dagcard", "daglink"}
              => \A lib : Own(s, a, lib) = N(lib = "dag") + N(Has(a, lib))
<1>0. N(FALSE) = 0 /\ N(TRUE) = 1 /\ \A b : N(b) \in Int
  BY DEF N
<1>1. ASSUME v # << >> => v[1].do \notin {"card", "dagcard", "daglink"}, NEW lib
      PROVE  Own(s, a, lib) = N(Has(a, lib))
  <2>1. ~CardOf(s, lib)
    <3>1. CASE v = << >>
      BY <3>1 DEF LeftWith, Loose
    <3>2. CASE v # << >>
      BY <1>1, <3>2, FirstOwns DEF LeftWith
    <3>3. QED
      BY <3>1, <3>2
  <2>2. N(CardOf(s, lib)) = 0 /\ N(Has(a, lib)) \in Int
    BY <2>1 DEF N
  <2>3. QED
    BY <2>2 DEF Own
<1>2. ASSUME v # << >>, v[1].do = "card", NEW lib
      PROVE  Own(s, a, lib) = N(lib = v[1].name) + N(Has(a, lib))
  <2>1. CardOf(s, lib) <=> lib = v[1].name
    BY <1>2, FirstOwns DEF LeftWith
  <2>2. N(CardOf(s, lib)) = N(lib = v[1].name)
    BY <2>1 DEF N
  <2>3. QED
    BY <2>2 DEF Own
<1>3. ASSUME v # << >>, v[1].do \in {"dagcard", "daglink"}, NEW lib
      PROVE  Own(s, a, lib) = N(lib = "dag") + N(Has(a, lib))
  <2>1. CardOf(s, lib) <=> lib = "dag"
    BY <1>3, FirstOwns DEF LeftWith
  <2>2. N(CardOf(s, lib)) = N(lib = "dag")
    BY <2>1 DEF N
  <2>3. QED
    BY <2>2 DEF Own
<1>4. QED
  BY <1>1, <1>2, <1>3

LEMMA FirstLeft ==
  ASSUME NEW r, r.work # << >>
  PROVE  LeftWith(r, <<r.work[1]>>) /\ <<r.work[1]>> # << >> /\ <<r.work[1]>>[1] = r.work[1]
<1>1. <<r.work[1]>> # << >>
  BY TupleList
<1>2. QED
  BY <1>1 DEF LeftWith

LEMMA OwnsNow ==
  ASSUME NEW r, r.work # << >>, NEW a
  PROVE  /\ r.work[1].do \notin {"card", "dagcard", "daglink"} => \A lib : Own(r, a, lib) = N(Has(a, lib))
         /\ r.work[1].do = "card" => \A lib : Own(r, a, lib) = N(lib = r.work[1].name) + N(Has(a, lib))
         /\ r.work[1].do \in {"dagcard", "daglink"} => \A lib : Own(r, a, lib) = N(lib = "dag") + N(Has(a, lib))
<1> DEFINE v == <<r.work[1]>>
<1>1. LeftWith(r, v) /\ v # << >> /\ v[1] = r.work[1]
  BY FirstLeft
<1> HIDE DEF v
<1>2. /\ (v # << >> => v[1].do \notin {"card", "dagcard", "daglink"})
           => \A lib : Own(r, a, lib) = N(Has(a, lib))
      /\ v # << >> /\ v[1].do = "card" => \A lib : Own(r, a, lib) = N(lib = v[1].name) + N(Has(a, lib))
      /\ v # << >> /\ v[1].do \in {"dagcard", "daglink"}
           => \A lib : Own(r, a, lib) = N(lib = "dag") + N(Has(a, lib))
  BY <1>1, LeftOwns
<1>3. QED
  BY <1>1, <1>2

LEMMA ThenPlain ==
  ASSUME DllInv, NEW t \in Threads, NEW do, Doing(t, do), NEW v
  PROVE  /\ NextRecord(th[t], Then(t, v), v \o Tail(th[t].work))
         /\ \A b : NextRecord(th[t], [Then(t, v) EXCEPT !.ok = b], v \o Tail(th[t].work))
         /\ th[t].work # << >> /\ th[t].work[1].do = do /\ AdapterOK(ad[t])
<1>1. ThreadFields(th[t]) /\ th[t].work # << >> /\ th[t].work[1].do = do /\ AdapterOK(ad[t])
  BY AtWork
<1>2. TRUE \in BOOLEAN
  OBVIOUS
<1>3. QED
  BY <1>1, <1>2, ThenNext

LEMMA CardKeeps ==
  ASSUME DllInv, NEW t \in Threads, UNCHANGED <<machine, mgm>>,
         PacketAddAdapterAirpcap(t) \/ PacketAddAdapterNpfIm(t)
  PROVE  DllInv'
<1>1. PICK lib \in {"air", "im"} : AddCard(t, lib)
  BY DEF PacketAddAdapterAirpcap, PacketAddAdapterNpfIm
<1>2. Doing(t, lib) /\ UNCHANGED <<machine, mgm, svc, drv, ad, dll>> /\ lib \in Libraries /\ lib \in QuietDos
  BY <1>1 DEF AddCard, Libraries, QuietDos, Plain
<1>3. CASE Goes(t, <<Do("unlock", Arg(t))>>) /\ below' = below
  <2>1. QuietGo(t, lib, <<Do("unlock", Arg(t))>>)
    BY <1>2, <1>3, KeptWhen, QuietLiterals DEF QuietGo
  <2>2. QED
    BY <1>3, <2>1, QuietGoes
<1>4. CASE Opens(lib) /\ Goes(t, <<Do("card", lib), Do("unlock", Arg(t))>>)
  <2> DEFINE x == Do("card", lib)
             y == Do("unlock", Arg(t))
             v == <<x, y>>
             s == Then(t, v)
  <2>1. x.do = "card" /\ x.name = lib /\ y.do = "unlock" /\ v # << >> /\ v[1] = x
    BY TupleList DEF Do
  <2>2. Shape(v) /\ NoneOpens(v)
    <3>1. y.do \in After(x.do) /\ x.do \notin OpenItems /\ y.do \notin OpenItems
      BY <2>1 DEF After, Chain, Plain, OpenItems
    <3> HIDE DEF x, y
    <3>2. QED
      BY <3>1, TupleShape
  <2>3. NextRecord(th[t], s, v \o Tail(th[t].work)) /\ th[t].work # << >> /\ th[t].work[1].do = lib
        /\ AdapterOK(ad[t])
    BY <1>2, ThenPlain
  <2>4. th' = [th EXCEPT ![t] = s]
    BY <1>4 DEF Goes, Becomes
  <2> HIDE DEF x, y, v, s
  <2>5. LibraryStep(t, s, ad[t])
    BY <1>2, <2>4 DEF LibraryStep
  <2>6. v[1].do \notin ServiceItems /\ AtItem(v[1], ad[t]) /\ After(lib) = Plain /\ lib \notin ServiceItems
    BY <2>1, Plainly DEF ServiceItems, AfterChain, AtItem, Plain
  <2>7. LeftWith(s, v) => Moved(th[t], ad[t], s, ad[t])
    <3>1. ASSUME LeftWith(s, v), NEW l \in Libraries
          PROVE  Own(s, ad[t], l) = Own(th[t], ad[t], l) + N(l = lib)
      <4>1. Own(s, ad[t], l) = N(l = lib) + N(Has(ad[t], l))
        BY <2>1, <3>1, LeftOwns
      <4>2. Own(th[t], ad[t], l) = N(Has(ad[t], l))
        BY <1>2, <2>3, OwnsNow
      <4>3. N(l = lib) \in Int /\ N(Has(ad[t], l)) \in Int
        BY DEF N
      <4>4. QED
        BY <4>1, <4>2, <4>3
    <3>2. QED
      BY <1>2, <1>4, <3>1, LibraryOpens
  <2>8. QED
    BY <1>2, <2>2, <2>3, <2>5, <2>6, <2>7, LibraryGoes
<1>5. QED
  BY <1>1, <1>3, <1>4 DEF AddCard

LEMMA LinkCardKeeps ==
  ASSUME DllInv, NEW t \in Threads, UNCHANGED <<machine, mgm>>, LinkCard(t)
  PROVE  DllInv'
<1> DEFINE s == Then(t, << >>)
<1>1. Doing(t, "card") /\ Closes(Arg(t)) /\ UNCHANGED <<machine, mgm, svc, drv, ad, dll>>
      /\ th' = [th EXCEPT ![t] = s]
  BY DEF LinkCard, Goes, Becomes
<1>2. /\ NextRecord(th[t], s, << >> \o Tail(th[t].work)) /\ th[t].work # << >> /\ th[t].work[1].do = "card"
      /\ AdapterOK(ad[t])
  BY <1>1, ThenPlain
<1> HIDE DEF s
<1>3. Arg(t) = th[t].work[1].name /\ Arg(t) \in Libraries
  BY <1>1, AtWork DEF AtItem, Libraries
<1>4. LibraryStep(t, s, ad[t])
  BY <1>1 DEF LibraryStep
<1>5. After("card") = Plain /\ "card" \notin ServiceItems /\ Shape(<< >>) /\ NoneOpens(<< >>)
  BY TupleShape, Plainly DEF ServiceItems, AfterChain, Chain
<1>6. LeftWith(s, << >>) => Moved(th[t], ad[t], s, ad[t])
  <2>1. ASSUME LeftWith(s, << >>), NEW l \in Libraries
        PROVE  Own(th[t], ad[t], l) = Own(s, ad[t], l) + N(l = Arg(t))
    <3>1. Own(s, ad[t], l) = N(Has(ad[t], l))
      BY <2>1, LeftOwns
    <3>2. Own(th[t], ad[t], l) = N(l = Arg(t)) + N(Has(ad[t], l))
      BY <1>2, <1>3, OwnsNow
    <3>3. N(l = Arg(t)) \in Int /\ N(Has(ad[t], l)) \in Int
      BY DEF N
    <3>4. QED
      BY <3>1, <3>2, <3>3
  <2>2. QED
    BY <1>1, <1>3, <2>1, LibraryCloses
<1>7. QED
  BY <1>1, <1>2, <1>4, <1>5, <1>6, LibraryGoes

(* An item that another must follow gives way to it, or to x.              *)
LEMMA DagFileGoes ==
  ASSUME DllInv, NEW t \in Threads, NEW do \in {"dagfile", "daglink"}, Doing(t, do),
         NEW s, LibraryStep(t, s, ad[t]), DllThread(s, ad[t]), s.work # << >>,
         s.work[1].do \in {"daglink", "openfile"},
         below' \in [Libraries -> Int],
         \A lib \in Libraries :
           below'[lib] - N(lib = "dag" /\ s.work[1].do = "daglink") = below[lib] - N(lib = "dag" /\ do = "daglink")
  PROVE  DllInv'
<1>1. th[t].work # << >> /\ th[t].work[1].do = do
  BY AtWork
<1>2. ~ServiceOf(th[t]) /\ ~FileOf(th[t]) /\ ~ServiceOf(s) /\ ~FileOf(s)
  BY <1>1, FirstOwns DEF AfterChain
<1>3. ASSUME NEW lib \in Libraries
      PROVE  below'[lib] - Own(s, ad[t], lib) = below[lib] - Own(th[t], ad[t], lib)
  <2> DEFINE x == below[lib]
             y == below'[lib]
             i == N(lib = "dag" /\ s.work[1].do = "daglink")
             j == N(lib = "dag" /\ do = "daglink")
             k == N(Has(ad[t], lib))
  <2>1. /\ CardOf(s, lib) = (lib = "dag" /\ s.work[1].do = "daglink")
        /\ CardOf(th[t], lib) = (lib = "dag" /\ do = "daglink")
    BY <1>1 DEF CardOf
  <2>2. N(CardOf(s, lib)) = i /\ N(CardOf(th[t], lib)) = j
    BY <2>1 DEF N
  <2>3. Own(s, ad[t], lib) = i + k /\ Own(th[t], ad[t], lib) = j + k
    BY <2>2 DEF Own
  <2>4. x \in Int /\ y \in Int /\ i \in Int /\ j \in Int /\ k \in Int
    BY DEF DllInv, DllTypes, N
  <2>5. y - i = x - j
    OBVIOUS
  <2> HIDE DEF x, y, i, j, k
  <2>6. y - (i + k) = x - (j + k)
    BY <2>4, <2>5
  <2>7. QED
    BY <2>3, <2>6 DEF x, y
<1>4. Moved(th[t], ad[t], s, ad[t])
  BY <1>3 DEF Moved
<1>5. AdapterOK(ad[t])
  BY DEF DllInv
<1>6. QED
  BY <1>2, <1>4, <1>5, LibraryMoves

LEMMA DagKeeps ==
  ASSUME DllInv, NEW t \in Threads, UNCHANGED <<machine, mgm>>, PacketAddAdapterDag(t)
  PROVE  DllInv'
<1>1. UNCHANGED <<machine, mgm, svc, drv, ad, dll>> /\ "dag" \in Libraries
  BY DEF PacketAddAdapterDag, Libraries
<1>2. CASE Doing(t, "dag") /\ Opens("dag") /\ Becomes(t, [Then(t, <<Do("dagcard", Arg(t))>>) EXCEPT !.ok = TRUE])
  <2> DEFINE x == Do("dagcard", Arg(t))
             v == <<x>>
             s == [Then(t, v) EXCEPT !.ok = TRUE]
  <2>1. x.do = "dagcard" /\ v # << >> /\ v[1] = x
    BY TupleList DEF Do
  <2>2. Shape(v) /\ NoneOpens(v)
    <3>1. After(x.do) = Plain /\ x.do \notin OpenItems
      BY <2>1, Plainly DEF Chain, OpenItems
    <3> HIDE DEF x
    <3>2. QED
      BY <3>1, TupleShape
  <2>3. NextRecord(th[t], s, v \o Tail(th[t].work)) /\ th[t].work # << >> /\ th[t].work[1].do = "dag"
        /\ AdapterOK(ad[t])
    BY <1>2, ThenPlain
  <2>4. th' = [th EXCEPT ![t] = s]
    BY <1>2 DEF Becomes
  <2> HIDE DEF x, v, s
  <2>5. LibraryStep(t, s, ad[t])
    BY <1>1, <2>4 DEF LibraryStep
  <2>6. v[1].do \notin ServiceItems /\ AtItem(v[1], ad[t]) /\ After("dag") = Plain /\ "dag" \notin ServiceItems
    BY <2>1, Plainly DEF ServiceItems, AfterChain, AtItem, Plain
  <2>7. LeftWith(s, v) => Moved(th[t], ad[t], s, ad[t])
    <3>1. ASSUME LeftWith(s, v), NEW l \in Libraries
          PROVE  Own(s, ad[t], l) = Own(th[t], ad[t], l) + N(l = "dag")
      <4>1. Own(s, ad[t], l) = N(l = "dag") + N(Has(ad[t], l))
        BY <2>1, <3>1, LeftOwns
      <4>2. Own(th[t], ad[t], l) = N(Has(ad[t], l))
        BY <2>3, OwnsNow
      <4>3. N(l = "dag") \in Int /\ N(Has(ad[t], l)) \in Int
        BY DEF N
      <4>4. QED
        BY <4>1, <4>2, <4>3
    <3>2. QED
      BY <1>1, <1>2, <3>1, LibraryOpens
  <2>8. QED
    BY <1>2, <2>2, <2>3, <2>5, <2>6, <2>7, LibraryGoes
<1>3. CASE Doing(t, "dag") /\ below' = below /\ Becomes(t, [Then(t, << >>) EXCEPT !.ok = FALSE])
  <2>1. QuietGo(t, "dag", << >>)
    BY <1>1, <1>3, KeptWhen, QuietLiterals DEF QuietGo, QuietDos, Plain
  <2>2. QED
    BY <1>3, <2>1, QuietGoes
<1>4. After("dagfile") = {"openfile"} /\ After("daglink") = {"openfile"} /\ {"openfile"} # Plain
  BY Plainly DEF Plain
<1>5. CASE Doing(t, "dagfile") /\ Opens("dag") /\ Becomes(t, [Then(t, <<Do("daglink", Arg(t))>>) EXCEPT !.ok = TRUE])
  <2> DEFINE x == Do("daglink", Arg(t))
             s == [Then(t, <<x>>) EXCEPT !.ok = TRUE]
  <2>1. NextRecord(th[t], s, <<x>> \o Tail(th[t].work)) /\ x.do = "daglink"
    BY <1>5, ThenPlain DEF Do
  <2>2. th[t].work # << >> /\ th[t].work[1].do = "dagfile" /\ DllThread(th[t], ad[t])
    BY <1>5, AtWork
  <2>3. th' = [th EXCEPT ![t] = s]
    BY <1>5 DEF Becomes
  <2> HIDE DEF x, s
  <2>4. x.do \notin OpenItems /\ AtItem(x, ad[t]) /\ After(x.do) = After(th[t].work[1].do)
    BY <1>4, <2>1, <2>2 DEF OpenItems, AtItem
  <2>5. DllThread(s, ad[t]) /\ s.work # << >> /\ s.work[1] = x
    BY <2>1, <2>2, <2>4, SwapThread
  <2>6. LibraryStep(t, s, ad[t])
    BY <1>1, <2>3 DEF LibraryStep
  <2>7. below \in [Libraries -> Int]
    BY DEF DllInv, DllTypes
  <2>8. below' \in [Libraries -> Int]
    BY <1>1, <1>5, <2>7 DEF Opens
  <2>9. ASSUME NEW lib \in Libraries
        PROVE  below'[lib] - N(lib = "dag" /\ s.work[1].do = "daglink") = below[lib] - N(lib = "dag" /\ "dagfile" = "daglink")
    <3>1. N(lib = "dag" /\ s.work[1].do = "daglink") = N(lib = "dag") /\ N(lib = "dag" /\ "dagfile" = "daglink") = 0
      BY <2>1, <2>5 DEF N
    <3>2. CASE lib = "dag"
      BY <1>5, <2>7, <3>1, <3>2 DEF Opens, N
    <3>3. CASE lib # "dag"
      BY <1>5, <2>7, <3>1, <3>3 DEF Opens, N
    <3>4. QED
      BY <3>2, <3>3
  <2>10. s.work[1].do \in {"daglink", "openfile"} /\ "dagfile" \in {"dagfile", "daglink"}
    BY <2>1, <2>5
  <2>11. QED
    BY <1>5, <2>5, <2>6, <2>8, <2>9, <2>10, DagFileGoes
<1>6. CASE Doing(t, "dagfile") /\ below' = below /\ Becomes(t, [Then(t, << >>) EXCEPT !.ok = FALSE])
  <2> DEFINE s == [Then(t, << >>) EXCEPT !.ok = FALSE]
  <2>1. NextRecord(th[t], s, << >> \o Tail(th[t].work))
    BY <1>6, ThenPlain
  <2>2. th[t].work # << >> /\ th[t].work[1].do = "dagfile" /\ DllThread(th[t], ad[t])
    BY <1>6, AtWork
  <2>3. th' = [th EXCEPT ![t] = s]
    BY <1>6 DEF Becomes
  <2> HIDE DEF s
  <2>4. After(th[t].work[1].do) # Plain
    BY <1>4, <2>2
  <2>5. DllThread(s, ad[t]) /\ s.work # << >> /\ s.work[1].do = "openfile"
    BY <1>4, <2>1, <2>2, <2>4, PopThread
  <2>6. LibraryStep(t, s, ad[t])
    BY <1>1, <2>3 DEF LibraryStep
  <2>7. below' \in [Libraries -> Int]
    BY <1>6 DEF DllInv, DllTypes
  <2>8. ASSUME NEW lib \in Libraries
        PROVE  below'[lib] - N(lib = "dag" /\ s.work[1].do = "daglink") = below[lib] - N(lib = "dag" /\ "dagfile" = "daglink")
    <3>1. N(lib = "dag" /\ s.work[1].do = "daglink") = 0 /\ N(lib = "dag" /\ "dagfile" = "daglink") = 0
      BY <2>5 DEF N
    <3>2. QED
      BY <1>6, <3>1
  <2>9. s.work[1].do \in {"daglink", "openfile"} /\ "dagfile" \in {"dagfile", "daglink"}
    BY <2>5
  <2>10. QED
    BY <1>6, <2>5, <2>6, <2>7, <2>8, <2>9, DagFileGoes
<1>7. QED
  BY <1>2, <1>3, <1>5, <1>6 DEF PacketAddAdapterDag, AddDag

LEMMA LinkDagKeeps ==
  ASSUME DllInv, NEW t \in Threads, UNCHANGED <<machine, mgm>>, LinkDag(t)
  PROVE  DllInv'
<1> DEFINE s == Then(t, << >>)
<1>1. Closes("dag") /\ UNCHANGED <<machine, mgm, svc, drv, ad, dll>> /\ "dag" \in Libraries
      /\ th' = [th EXCEPT ![t] = s]
  BY DEF LinkDag, KeepService, Goes, Becomes, Libraries
<1>2. PICK do \in {"dagcard", "daglink"} : Doing(t, do)
  BY DEF LinkDag
<1>3. NextRecord(th[t], s, << >> \o Tail(th[t].work)) /\ th[t].work # << >> /\ th[t].work[1].do = do
      /\ AdapterOK(ad[t]) /\ DllThread(th[t], ad[t])
  BY <1>2, ThenPlain, AtWork
<1> HIDE DEF s
<1>4. LibraryStep(t, s, ad[t])
  BY <1>1 DEF LibraryStep
<1>5. CASE do = "dagcard"
  <2>1. After(do) = Plain /\ do \notin ServiceItems /\ Shape(<< >>) /\ NoneOpens(<< >>)
    BY <1>5, TupleShape, Plainly DEF ServiceItems, AfterChain, Chain
  <2>2. LeftWith(s, << >>) => Moved(th[t], ad[t], s, ad[t])
    <3>1. ASSUME LeftWith(s, << >>), NEW l \in Libraries
          PROVE  Own(th[t], ad[t], l) = Own(s, ad[t], l) + N(l = "dag")
      <4>1. Own(s, ad[t], l) = N(Has(ad[t], l))
        BY <3>1, LeftOwns
      <4>2. Own(th[t], ad[t], l) = N(l = "dag") + N(Has(ad[t], l))
        BY <1>3, OwnsNow
      <4>3. N(l = "dag") \in Int /\ N(Has(ad[t], l)) \in Int
        BY DEF N
      <4>4. QED
        BY <4>1, <4>2, <4>3
    <3>2. QED
      BY <1>1, <3>1, LibraryCloses
  <2>3. QED
    BY <1>2, <1>3, <1>4, <2>1, <2>2, LibraryGoes
<1>6. CASE do = "daglink"
  <2>1. After("daglink") = {"openfile"} /\ {"openfile"} # Plain
    BY Plainly DEF Plain
  <2>2. After(th[t].work[1].do) # Plain
    BY <1>3, <1>6, <2>1
  <2>3. DllThread(s, ad[t]) /\ s.work # << >> /\ s.work[1].do = "openfile"
    BY <1>3, <1>6, <2>1, <2>2, PopThread
  <2>4. below \in [Libraries -> Int]
    BY DEF DllInv, DllTypes
  <2>5. below' \in [Libraries -> Int]
    BY <1>1, <2>4 DEF Closes
  <2>6. ASSUME NEW lib \in Libraries
        PROVE  below'[lib] - N(lib = "dag" /\ s.work[1].do = "daglink") = below[lib] - N(lib = "dag" /\ do = "daglink")
    <3>1. N(lib = "dag" /\ s.work[1].do = "daglink") = 0 /\ N(lib = "dag" /\ do = "daglink") = N(lib = "dag")
      BY <1>6, <2>3 DEF N
    <3>2. CASE lib = "dag"
      BY <1>1, <2>4, <3>1, <3>2 DEF Closes, N
    <3>3. CASE lib # "dag"
      BY <1>1, <2>4, <3>1, <3>3 DEF Closes, N
    <3>4. QED
      BY <3>2, <3>3
  <2>7. s.work[1].do \in {"daglink", "openfile"} /\ do \in {"dagfile", "daglink"}
    BY <1>6, <2>3
  <2>8. QED
    BY <1>2, <1>4, <2>3, <2>5, <2>6, <2>7, DagFileGoes
<1>7. QED
  BY <1>2, <1>5, <1>6

-----------------------------------------------------------------------------
(* The adapter of the thread is opened and closed.                         *)

LEMMA AdapterHas ==
  ASSUME NEW a, AdapterOK(a)
  PROVE  /\ a.flag # "none" /\ a.flag # "ndis"
              => /\ Library(a.flag) \in Libraries /\ ~Has(a, "ndis")
                 /\ \A lib \in Libraries : Has(a, lib) <=> lib = Library(a.flag)
         /\ a.flag = "ndis" => Has(a, "ndis") /\ \A lib \in Libraries : ~Has(a, lib)
         /\ a.flag = "none" => a = NoAdapter
  BY DEF AdapterOK, Library, Libraries, Has

(* Adapter b is of library lib, and a of none.                             *)
More(a, b, lib) ==
  \A l \in Libraries : (Has(b, l) <=> Has(a, l) \/ l = lib) /\ (l = lib => ~Has(a, l))

LEMMA AdapterStep ==
  ASSUME DllInv, NEW t \in Threads, NEW do, Doing(t, do), After(do) = Plain,
         do \notin ServiceItems \cup {"card", "dagcard", "daglink"},
         NEW v, Goes(t, v), Shape(v), NoneOpens(v), UNCHANGED <<machine, mgm, svc, drv, dll>>,
         NEW a, AdapterOK(a), (Has(a, "ndis") <=> Has(ad[t], "ndis")),
         ad' = [ad EXCEPT ![t] = a] \/ (ad' = ad /\ a = ad[t]),
         v # << >> => AtItem(v[1], a) /\ v[1].do \notin ServiceItems \cup {"card", "dagcard", "daglink"},
         a = ad[t] \/ a = NoAdapter \/ do \in OpenItems,
         \/ below' = below /\ \A l \in Libraries : Has(a, l) <=> Has(ad[t], l)
         \/ \E lib \in Libraries : Opens(lib) /\ More(ad[t], a, lib)
         \/ \E lib \in Libraries : Closes(lib) /\ More(a, ad[t], lib)
  PROVE  DllInv'
<1> DEFINE s == Then(t, v)
<1>1. NextRecord(th[t], s, v \o Tail(th[t].work)) /\ th[t].work # << >> /\ th[t].work[1].do = do
  BY ThenPlain
<1>2. LibraryStep(t, s, a)
  BY DEF LibraryStep, Goes, Becomes
<1> HIDE DEF s
<1>3. ASSUME LeftWith(s, v), NEW l
      PROVE  Own(s, a, l) = N(Has(a, l)) /\ Own(th[t], ad[t], l) = N(Has(ad[t], l))
  <2>1. Own(s, a, l) = N(Has(a, l))
    BY <1>3, LeftOwns
  <2>2. Own(th[t], ad[t], l) = N(Has(ad[t], l))
    BY <1>1, OwnsNow
  <2>3. QED
    BY <2>1, <2>2
<1>4. LeftWith(s, v) => Moved(th[t], ad[t], s, a)
  <2> SUFFICES ASSUME LeftWith(s, v)
               PROVE  Moved(th[t], ad[t], s, a)
    OBVIOUS
  <2>1. CASE below' = below /\ \A l \in Libraries : Has(a, l) <=> Has(ad[t], l)
    <3>1. ASSUME NEW l \in Libraries
          PROVE  Own(th[t], ad[t], l) = Own(s, a, l)
      <4>1. N(Has(a, l)) = N(Has(ad[t], l))
        BY <2>1 DEF N
      <4>2. QED
        BY <1>3, <4>1
    <3>2. QED
      BY <2>1, <3>1, LibraryKeeps
  <2>2. CASE \E lib \in Libraries : Opens(lib) /\ More(ad[t], a, lib)
    <3>1. PICK lib \in Libraries : Opens(lib) /\ More(ad[t], a, lib)
      BY <2>2
    <3>2. ASSUME NEW l \in Libraries
          PROVE  Own(s, a, l) = Own(th[t], ad[t], l) + N(l = lib)
      <4>1. N(Has(a, l)) = N(Has(ad[t], l)) + N(l = lib)
        BY <3>1 DEF N, More
      <4>2. QED
        BY <1>3, <4>1
    <3>3. QED
      BY <3>1, <3>2, LibraryOpens
  <2>3. CASE \E lib \in Libraries : Closes(lib) /\ More(a, ad[t], lib)
    <3>1. PICK lib \in Libraries : Closes(lib) /\ More(a, ad[t], lib)
      BY <2>3
    <3>2. ASSUME NEW l \in Libraries
          PROVE  Own(th[t], ad[t], l) = Own(s, a, l) + N(l = lib)
      <4>1. N(Has(ad[t], l)) = N(Has(a, l)) + N(l = lib)
        BY <3>1 DEF N, More
      <4>2. QED
        BY <1>3, <4>1
    <3>3. QED
      BY <3>1, <3>2, LibraryCloses
  <2>4. QED
    BY <2>1, <2>2, <2>3
<1>5. v # << >> => AtItem(v[1], a) /\ v[1].do \notin ServiceItems
  OBVIOUS
<1>6. do \notin ServiceItems
  OBVIOUS
<1>7. QED
  BY <1>1, <1>2, <1>4, <1>5, <1>6, LibraryGoes

LEMMA WaitItems ==
  ASSUME NEW lib \in {"air", "im"}, NEW a, a.flag = lib
  PROVE  LET v == <<Do("wait", lib)>>
         IN /\ Shape(v) /\ NoneOpens(v) /\ AtItem(v[1], a)
            /\ v[1].do \notin ServiceItems \cup {"card", "dagcard", "daglink"}
<1> DEFINE x == Do("wait", lib)
<1>1. x.do = "wait" /\ x.name = lib /\ <<x>>[1] = x
  BY DEF Do
<1>2. AtItem(x, a)
  BY <1>1 DEF AtItem
<1>3. After(x.do) = Plain /\ x.do \notin OpenItems \cup ServiceItems \cup {"card", "dagcard", "daglink"}
  BY <1>1, Plainly DEF Chain, OpenItems, ServiceItems, AfterChain
<1> HIDE DEF x
<1>4. Shape(<<x>>) /\ NoneOpens(<<x>>)
  BY <1>3, TupleShape
<1>5. Shape(<<x>>) /\ NoneOpens(<<x>>) /\ AtItem(<<x>>[1], a)
      /\ <<x>>[1].do \notin ServiceItems \cup {"card", "dagcard", "daglink"}
  BY <1>1, <1>2, <1>3, <1>4
<1>6. QED
  BY <1>5 DEF x

LEMMA OpenItemIs ==
  /\ After("open") = Plain /\ "open" \notin ServiceItems \cup {"card", "dagcard", "daglink"} /\ "open" \in OpenItems
  /\ After("openfile") = Plain /\ "openfile" \notin ServiceItems \cup {"card", "dagcard", "daglink"}
  /\ "openfile" \in OpenItems
  /\ After("wait") = Plain /\ "wait" \notin ServiceItems \cup {"card", "dagcard", "daglink"}
  /\ After("shutad") = Plain /\ "shutad" \notin ServiceItems \cup {"card", "dagcard", "daglink"}
  BY Plainly DEF Chain, OpenItems, ServiceItems, AfterChain

LEMMA OpensKeep ==
  ASSUME DllInv, NEW t \in Threads, UNCHANGED <<machine, mgm>>, NEW lib \in Libraries, OpensByLibrary(t, lib),
         NEW v, Goes(t, v), v = << >> \/ (lib \in {"air", "im"} /\ ad'[t].flag = lib /\ v = <<Do("wait", lib)>>)
  PROVE  DllInv'
<1>1. Doing(t, "open") /\ UNCHANGED <<machine, mgm, svc, drv, dll>>
  BY DEF OpensByLibrary
<1>2. ad[t] = NoAdapter /\ DOMAIN ad = Threads
  BY <1>1, NoneYet, OpenItemIs DEF DllInv, DllTypes
<1>3. Shape(<< >>) /\ NoneOpens(<< >>)
  BY TupleShape
<1>4. ASSUME ad' = [ad EXCEPT ![t] = Entry(Arg(t), lib)], Opens(lib)
      PROVE  DllInv'
  <2> DEFINE a == Entry(Arg(t), lib)
  <2>1. ad'[t] = a /\ a.flag = lib
    BY <1>2, <1>4 DEF Entry
  <2>2. AdapterOK(a)
    BY DEF AdapterOK, Entry, Libraries
  <2>3. ~Has(a, "ndis") /\ More(ad[t], a, lib) /\ ~Has(ad[t], "ndis")
    <3>1. "ndis" \notin Libraries
      BY DEF Libraries
    <3>2. QED
      BY <1>2, <3>1, HasNothing DEF More
  <2>4. ad' = [ad EXCEPT ![t] = a]
    BY <1>4
  <2> HIDE DEF a
  <2>5. v # << >> => AtItem(v[1], a) /\ v[1].do \notin ServiceItems \cup {"card", "dagcard", "daglink"}
    BY <2>1, WaitItems
  <2>6. Shape(v) /\ NoneOpens(v)
    <3>1. CASE v = << >>
      BY <1>3, <3>1
    <3>2. CASE v # << >>
      BY <2>1, <3>2, WaitItems
    <3>3. QED
      BY <3>1, <3>2
  <2>7. \E l \in Libraries : Opens(l) /\ More(ad[t], a, l)
    BY <1>4, <2>3
  <2>8. (Has(a, "ndis") <=> Has(ad[t], "ndis"))
    BY <2>3
  <2>9. QED
    BY <1>1, <2>2, <2>4, <2>5, <2>6, <2>7, <2>8, OpenItemIs, AdapterStep
<1>5. ASSUME UNCHANGED <<ad, below>>
      PROVE  DllInv'
  <2>1. ad'[t] = NoAdapter /\ lib # NoAdapter.flag
    BY <1>2, <1>5 DEF NoAdapter, Libraries
  <2>2. v = << >>
    BY <2>1
  <2>3. AdapterOK(ad[t]) /\ ad' = ad /\ below' = below
    BY <1>5 DEF DllInv
  <2>4. QED
    BY <1>1, <1>3, <2>2, <2>3, OpenItemIs, AdapterStep
<1>6. QED
  BY <1>4, <1>5 DEF OpensByLibrary

LEMMA OpenersKeep ==
  ASSUME DllInv, NEW t \in Threads, UNCHANGED <<machine, mgm>>,
         \/ PacketOpenAdapterWanPacket(t) \/ PacketOpenAdapterAirpcap(t)
         \/ PacketOpenAdapterNpfIm(t) \/ PacketOpenAdapterDAG(t)
  PROVE  DllInv'
<1>1. "wan" \in Libraries /\ "air" \in Libraries /\ "im" \in Libraries /\ "dag" \in Libraries
  BY DEF Libraries
<1>2. CASE PacketOpenAdapterWanPacket(t)
  <2>1. OpensByLibrary(t, "wan") /\ Goes(t, << >>)
    BY <1>2 DEF PacketOpenAdapterWanPacket
  <2>2. QED
    BY <1>1, <2>1, OpensKeep
<1>3. CASE PacketOpenAdapterAirpcap(t)
  <2> DEFINE v == IF ad'[t].flag = "air" THEN <<Do("wait", "air")>> ELSE << >>
  <2>1. OpensByLibrary(t, "air") /\ Goes(t, v)
    BY <1>3 DEF PacketOpenAdapterAirpcap
  <2>2. v = << >> \/ ("air" \in {"air", "im"} /\ ad'[t].flag = "air" /\ v = <<Do("wait", "air")>>)
    OBVIOUS
  <2> HIDE DEF v
  <2>3. QED
    BY <1>1, <2>1, <2>2, OpensKeep
<1>4. CASE PacketOpenAdapterNpfIm(t)
  <2> DEFINE v == IF ad'[t].flag = "im" THEN <<Do("wait", "im")>> ELSE << >>
  <2>1. OpensByLibrary(t, "im") /\ Goes(t, v)
    BY <1>4 DEF PacketOpenAdapterNpfIm
  <2>2. v = << >> \/ ("im" \in {"air", "im"} /\ ad'[t].flag = "im" /\ v = <<Do("wait", "im")>>)
    OBVIOUS
  <2> HIDE DEF v
  <2>3. QED
    BY <1>1, <2>1, <2>2, OpensKeep
<1>5. CASE PacketOpenAdapterDAG(t)
  <2>1. OpensByLibrary(t, "dag") /\ Goes(t, << >>)
    BY <1>5 DEF PacketOpenAdapterDAG
  <2>2. QED
    BY <1>1, <2>1, OpensKeep
<1>6. QED
  BY <1>2, <1>3, <1>4, <1>5

LEMMA ReadEventKeeps ==
  ASSUME DllInv, NEW t \in Threads, UNCHANGED <<machine, mgm>>, GetReadEvent(t)
  PROVE  DllInv'
<1>1. Doing(t, "wait") /\ UNCHANGED <<machine, mgm, svc, drv, dll>> /\ Goes(t, << >>)
  BY DEF GetReadEvent
<1>2. Shape(<< >>) /\ NoneOpens(<< >>) /\ AdapterOK(ad[t]) /\ AdapterOK(NoAdapter)
  BY TupleShape DEF DllInv, AdapterOK, NoAdapter
<1>3. CASE UNCHANGED <<ad, below>>
  <2>1. ad' = ad /\ below' = below
    BY <1>3
  <2>2. QED
    BY <1>1, <1>2, <2>1, OpenItemIs, AdapterStep
<1>4. CASE Closes(Arg(t)) /\ ad' = [ad EXCEPT ![t] = NoAdapter]
  <2>1. ad[t].flag = Arg(t) /\ Arg(t) \in {"air", "im"}
    BY <1>1, AtWork DEF AtItem
  <2>2. Library(ad[t].flag) = Arg(t) /\ Arg(t) \in Libraries
    BY <2>1 DEF Library, Libraries
  <2>3. ~Has(ad[t], "ndis") /\ \A lib \in Libraries : Has(ad[t], lib) <=> lib = Arg(t)
    BY <2>1, <2>2 DEF Has
  <2>4. (Has(NoAdapter, "ndis") <=> Has(ad[t], "ndis")) /\ More(NoAdapter, ad[t], Arg(t))
    BY <2>3, HasNothing DEF More
  <2>5. \E l \in Libraries : Closes(l) /\ More(NoAdapter, ad[t], l)
    BY <1>4, <2>2, <2>4
  <2>6. QED
    BY <1>1, <1>2, <1>4, <2>4, <2>5, OpenItemIs, AdapterStep
<1>5. QED
  BY <1>3, <1>4 DEF GetReadEvent

LEMMA DagFileOpens ==
  ASSUME DllInv, NEW t \in Threads, UNCHANGED <<machine, mgm>>, OpenDagFile(t)
  PROVE  DllInv'
<1>1. Doing(t, "openfile") /\ UNCHANGED <<machine, mgm, svc, drv, dll>> /\ Goes(t, << >>)
  BY DEF OpenDagFile
<1>2. Shape(<< >>) /\ NoneOpens(<< >>) /\ AdapterOK(ad[t]) /\ ad[t] = NoAdapter /\ "dag" \in Libraries
  BY <1>1, TupleShape, NoneYet, OpenItemIs DEF DllInv, Libraries
<1>3. CASE UNCHANGED <<ad, below>>
  <2>1. ad' = ad /\ below' = below
    BY <1>3
  <2>2. QED
    BY <1>1, <1>2, <2>1, OpenItemIs, AdapterStep
<1>4. CASE Opens("dag") /\ ad' = [ad EXCEPT ![t] = Entry(Arg(t), "dagfile")]
  <2> DEFINE a == Entry(Arg(t), "dagfile")
  <2>1. AdapterOK(a)
    BY DEF AdapterOK, Entry
  <2>2. \A who \in Libraries \cup {"ndis"} : Has(a, who) <=> who = "dag"
    BY HasNothing
  <2>3. ad' = [ad EXCEPT ![t] = a]
    BY <1>4
  <2> HIDE DEF a
  <2>4. ~Has(a, "ndis") /\ ~Has(ad[t], "ndis") /\ More(ad[t], a, "dag")
    BY <1>2, <2>2, HasNothing DEF More
  <2>5. (Has(a, "ndis") <=> Has(ad[t], "ndis")) /\ \E l \in Libraries : Opens(l) /\ More(ad[t], a, l)
    BY <1>2, <1>4, <2>4
  <2>6. QED
    BY <1>1, <1>2, <2>1, <2>3, <2>5, OpenItemIs, AdapterStep
<1>5. QED
  BY <1>3, <1>4 DEF OpenDagFile

LEMMA CloseKeeps ==
  ASSUME DllInv, NEW t \in Threads, UNCHANGED <<machine, mgm>>, PacketCloseAdapter(t)
  PROVE  DllInv'
<1>1. Doing(t, "shutad") /\ UNCHANGED <<machine, mgm, dll>> /\ Goes(t, << >>) /\ ad' = [ad EXCEPT ![t] = NoAdapter]
  BY DEF PacketCloseAdapter
<1>2. Shape(<< >>) /\ NoneOpens(<< >>) /\ AdapterOK(ad[t]) /\ AdapterOK(NoAdapter)
  BY TupleShape DEF DllInv, AdapterOK, NoAdapter
<1>3. CASE ad[t].flag = "none" /\ UNCHANGED <<svc, drv, below>>
  <2>1. ad[t] = NoAdapter
    BY <1>2, <1>3, AdapterHas
  <2>2. below' = below /\ svc' = svc /\ drv' = drv
    BY <1>3
  <2>3. QED
    BY <1>1, <1>2, <2>1, <2>2, OpenItemIs, AdapterStep
<1>4. CASE ad[t].flag \notin {"none", "ndis"} /\ Closes(Library(ad[t].flag)) /\ UNCHANGED <<svc, drv>>
  <2> DEFINE lib == Library(ad[t].flag)
  <2>1. lib \in Libraries /\ ~Has(ad[t], "ndis") /\ \A l \in Libraries : Has(ad[t], l) <=> l = lib
    BY <1>2, <1>4, AdapterHas
  <2>2. Closes(lib)
    BY <1>4
  <2> HIDE DEF lib
  <2>3. (Has(NoAdapter, "ndis") <=> Has(ad[t], "ndis")) /\ More(NoAdapter, ad[t], lib)
    BY <2>1, HasNothing DEF More
  <2>4. \E l \in Libraries : Closes(l) /\ More(NoAdapter, ad[t], l)
    BY <2>1, <2>2, <2>3
  <2>5. svc' = svc /\ drv' = drv
    BY <1>4
  <2>6. QED
    BY <1>1, <1>2, <2>3, <2>4, <2>5, OpenItemIs, AdapterStep
<1>5. CASE ad[t].flag = "ndis" /\ CloseFile /\ UNCHANGED below
  <2> DEFINE s == Then(t, << >>)
  <2>1. NextRecord(th[t], s, << >> \o Tail(th[t].work)) /\ th[t].work # << >> /\ th[t].work[1].do = "shutad"
        /\ DllThread(th[t], ad[t])
    BY <1>1, ThenPlain, AtWork
  <2>2. th' = [th EXCEPT ![t] = s]
    BY <1>1 DEF Goes, Becomes
  <2> HIDE DEF s
  <2>3. After("shutad") = Plain /\ "shutad" \notin Holds
    BY OpenItemIs DEF Holds, ServiceItems
  <2>4. DllThread(s, NoAdapter) /\ Loose(s)
    BY <1>2, <2>1, <2>3, PushThread
  <2>5. Loose(th[t])
    BY <2>1, <2>3, LooseAt
  <2>6. ServiceNow(svc', drv', svc.handles, drv.files - 1)
    BY <1>5, CloseFileIs
  <2>7. HandleStep(t, s, NoAdapter, svc.handles, dll.leaked, drv.files - 1)
    BY <1>1, <1>5, <2>2, <2>6 DEF HandleStep, DllInv, DllTypes
  <2>8. svc.handles - dll.leaked - N(ServiceOf(s)) = svc.handles - dll.leaked - N(ServiceOf(th[t]))
    BY <2>4, <2>5 DEF N, Loose
  <2>9. (drv.files - 1) - N(FileOf(s)) - N(Has(NoAdapter, "ndis")) = drv.files - N(FileOf(th[t])) - N(Has(ad[t], "ndis"))
    <3>1. N(FileOf(s)) = 0 /\ N(FileOf(th[t])) = 0
      BY <2>4, <2>5 DEF N, Loose
    <3>2. ~Has(NoAdapter, "ndis") /\ Has(ad[t], "ndis")
      BY <1>2, <1>5, HasNothing, AdapterHas
    <3>3. N(Has(NoAdapter, "ndis")) = 0 /\ N(Has(ad[t], "ndis")) = 1
      BY <3>2 DEF N
    <3>4. drv.files \in Int
      BY ServiceIs
    <3>5. QED
      BY <3>1, <3>3, <3>4
  <2>10. ASSUME NEW lib \in Libraries
         PROVE  below'[lib] - N(CardOf(s, lib)) - N(Has(NoAdapter, lib))
                  = below[lib] - N(CardOf(th[t], lib)) - N(Has(ad[t], lib))
    <3>1. N(CardOf(s, lib)) = N(CardOf(th[t], lib))
      BY <2>4, <2>5 DEF N, Loose
    <3>2. ~Has(NoAdapter, lib) /\ ~Has(ad[t], lib)
      BY <1>2, <1>5, HasNothing, AdapterHas
    <3>3. N(Has(NoAdapter, lib)) = N(Has(ad[t], lib)) /\ below' = below
      BY <1>5, <3>2 DEF N
    <3>4. QED
      BY <3>1, <3>3
  <2>11. QED
    BY <1>2, <2>4, <2>7, <2>8, <2>9, <2>10, HandlesMove
<1>6. QED
  BY <1>3, <1>4, <1>5 DEF PacketCloseAdapter

LEMMA StopKeeps ==
  ASSUME DllInv, NEW t \in Threads, UNCHANGED <<machine, mgm>>, PacketStopDriver(t)
  PROVE  DllInv'
<1>1. ChainRest /\ dll' = dll
  BY DEF PacketStopDriver, KeepAdapters, ChainRest
<1>2. svc.handles \in Int /\ drv.files \in Int /\ dll.leaked \in Int
  BY ServiceIs DEF DllInv, DllTypes
<1>3. CASE Doing(t, "stop") /\ OpenService /\ Goes(t, <<Do("control", "svc"), Do("done", "svc")>>)
  <2> DEFINE x == Do("control", "svc")
             y == Do("done", "svc")
             v == <<x, y>>
             s == Then(t, v)
  <2>1. x.do = "control" /\ y.do = "done" /\ v # << >> /\ v[1] = x
    BY TupleList DEF Do
  <2>2. NextRecord(th[t], s, v \o Tail(th[t].work)) /\ th[t].work # << >> /\ th[t].work[1].do = "stop"
        /\ DllThread(th[t], ad[t])
    BY <1>3, ThenPlain, AtWork
  <2>3. ServiceStep(t, s, svc.handles + 1, dll.leaked, drv.files)
    BY <1>1, <1>3, OpenServiceIs, ChainStep
  <2>4. Shape(v) /\ NoneOpens(v)
    <3>1. y.do \in After(x.do) /\ x.do \notin OpenItems /\ y.do \notin OpenItems
      BY <2>1, Plainly DEF OpenItems
    <3> HIDE DEF x, y
    <3>2. QED
      BY <3>1, TupleShape
  <2>5. AtItem(v[1], ad[t]) /\ After(th[t].work[1].do) = Plain
    BY <2>1, <2>2, Plainly DEF AtItem, Plain
  <2> HIDE DEF x, y, v, s
  <2>6. DllThread(s, ad[t]) /\ s.work # << >> /\ s.work[1] = x
    <3>1. NoneOpens(v) /\ (ad[t] = ad[t] \/ ad[t] = NoAdapter \/ th[t].work[1].do \in OpenItems)
      BY <2>4
    <3>2. /\ DllThread(s, ad[t])
          /\ v # << >> => s.work # << >> /\ s.work[1] = v[1]
          /\ v = << >> => Loose(s)
      BY <2>2, <2>4, <2>5, <3>1, PushThread
    <3>3. QED
      BY <2>1, <3>2
  <2>7. ServiceOf(s) /\ ~ServiceOf(th[t]) /\ ~FileOf(s) /\ ~FileOf(th[t])
        /\ \A lib : ~CardOf(s, lib) /\ ~CardOf(th[t], lib)
    BY <2>1, <2>2, <2>6 DEF ServiceOf, FileOf, CardOf, AfterChain
  <2>8. (svc.handles + 1) - dll.leaked - N(ServiceOf(s)) = svc.handles - dll.leaked - N(ServiceOf(th[t]))
    <3>1. N(ServiceOf(s)) = 1 /\ N(ServiceOf(th[t])) = 0
      BY <2>7 DEF N
    <3>2. QED
      BY <1>2, <3>1
  <2>9. drv.files - N(FileOf(s)) = drv.files - N(FileOf(th[t]))
    BY <2>7 DEF N
  <2>10. QED
    BY <2>3, <2>6, <2>7, <2>8, <2>9, ServiceMoves
<1>4. CASE Doing(t, "stop") /\ UNCHANGED <<svc, drv>> /\ Goes(t, << >>)
  <2>1. QuietGo(t, "stop", << >>)
    BY <1>1, <1>4, KeptWhen, QuietLiterals DEF QuietGo, QuietDos, Plain, ChainRest
  <2>2. QED
    BY <1>4, <2>1, QuietGoes
<1>5. CASE Doing(t, "control") /\ ControlStop /\ Goes(t, << >>)
  <2> DEFINE s == Then(t, << >>)
  <2>1. NextRecord(th[t], s, << >> \o Tail(th[t].work)) /\ th[t].work # << >> /\ th[t].work[1].do = "control"
        /\ DllThread(th[t], ad[t])
    BY <1>5, ThenPlain, AtWork
  <2>2. ServiceStep(t, s, svc.handles, dll.leaked, drv.files)
    BY <1>1, <1>5, ControlStopIs, ChainStep
  <2> HIDE DEF s
  <2>3. After(th[t].work[1].do) = {"done"} /\ {"done"} # Plain
    BY <2>1, Plainly DEF Plain
  <2>4. DllThread(s, ad[t]) /\ s.work # << >> /\ s.work[1].do = "done"
    BY <2>1, <2>3, PopThread
  <2>5. ServiceOf(s) /\ ServiceOf(th[t]) /\ ~FileOf(s) /\ ~FileOf(th[t])
        /\ \A lib : ~CardOf(s, lib) /\ ~CardOf(th[t], lib)
    BY <2>1, <2>4 DEF ServiceOf, FileOf, CardOf, AfterChain
  <2>6. svc.handles - dll.leaked - N(ServiceOf(s)) = svc.handles - dll.leaked - N(ServiceOf(th[t]))
        /\ drv.files - N(FileOf(s)) = drv.files - N(FileOf(th[t]))
    BY <2>5 DEF N
  <2>7. QED
    BY <2>2, <2>4, <2>5, <2>6, ServiceMoves
<1>6. CASE Doing(t, "done") /\ CloseServiceHandle /\ Goes(t, << >>)
  <2> DEFINE s == Then(t, << >>)
  <2>1. NextRecord(th[t], s, << >> \o Tail(th[t].work)) /\ th[t].work # << >> /\ th[t].work[1].do = "done"
        /\ DllThread(th[t], ad[t])
    BY <1>6, ThenPlain, AtWork
  <2>2. svc.there
    BY <2>1, ServiceIsThere DEF ServiceOf
  <2>3. ServiceStep(t, s, svc.handles - 1, dll.leaked, drv.files)
    BY <1>1, <1>6, <2>2, CloseHandleIs, ChainStep
  <2> HIDE DEF s
  <2>4. After("done") = Plain /\ Shape(<< >>) /\ NoneOpens(<< >>)
    BY TupleShape, Plainly DEF Chain
  <2>5. DllThread(s, ad[t]) /\ Loose(s)
    BY <2>1, <2>4, PushThread
  <2>6. ServiceOf(th[t]) /\ ~FileOf(th[t]) /\ \A lib : ~CardOf(th[t], lib)
    BY <2>1 DEF ServiceOf, FileOf, CardOf, AfterChain
  <2>7. (svc.handles - 1) - dll.leaked - N(ServiceOf(s)) = svc.handles - dll.leaked - N(ServiceOf(th[t]))
    <3>1. N(ServiceOf(s)) = 0 /\ N(ServiceOf(th[t])) = 1
      BY <2>5, <2>6 DEF N, Loose
    <3>2. QED
      BY <1>2, <3>1
  <2>8. drv.files - N(FileOf(s)) = drv.files - N(FileOf(th[t]))
    BY <2>5, <2>6 DEF N, Loose
  <2>9. \A lib \in Libraries : ~CardOf(s, lib) /\ ~CardOf(th[t], lib)
    BY <2>5, <2>6 DEF Loose
  <2>10. QED
    BY <2>3, <2>5, <2>7, <2>8, <2>9, ServiceMoves
<1>7. QED
  BY <1>3, <1>4, <1>5, <1>6 DEF PacketStopDriver

-----------------------------------------------------------------------------
(* A call begins and returns.                                              *)

LEMMA PlainShape ==
  ASSUME NEW v, IsList(v), \A i \in DOMAIN v : v[i].do \in Plain
  PROVE  Shape(v) /\ (v # << >> => v[1].do \notin Holds /\ \A a : AtItem(v[1], a))
<1>1. Len(v) \in Nat /\ DOMAIN v = 1..Len(v) /\ (v = << >> <=> Len(v) = 0)
  BY ListIsSeq
<1>2. \A i \in DOMAIN v : After(v[i].do) = Plain
  BY Plainly
<1>3. (v # << >> => 1 \in DOMAIN v) /\ (Len(v) >= 2 => 2 \in DOMAIN v /\ v # << >>)
  BY <1>1
<1>4. Shape(v)
  BY <1>2, <1>3 DEF Shape
<1>5. \A do \in Plain : do \notin Holds \cup {"wait", "card", "asked", "ask"}
  BY DEF Plain, Holds, AfterChain
<1>6. QED
  BY <1>3, <1>4, <1>5 DEF AtItem

(* What a program may be.                                                  *)
ProgramOK(w, a) ==
  /\ Shape(w) /\ OpensOne(w)
  /\ w # << >> => AtItem(w[1], a) /\ w[1].do \notin Holds

LEMMA TuplesOfItems ==
  ASSUME NEW a, NEW x, NEW y, NEW z, NEW u,
         \A i \in {x, y, z, u} : i.do \in Plain \ {"choose"}
  PROVE  /\ ProgramOK(<< >>, a) /\ NoneOpens(<< >>) /\ ProgramOK(<<x>>, a) /\ NoneOpens(<<x>>)
         /\ ProgramOK(<<x, y>>, a) /\ NoneOpens(<<x, y>>) /\ ProgramOK(<<x, y, z>>, a) /\ NoneOpens(<<x, y, z>>)
         /\ ProgramOK(<<x, y, z, u>>, a) /\ NoneOpens(<<x, y, z, u>>)
<1>1. ASSUME NEW v, IsList(v), \A i \in DOMAIN v : v[i] \in {x, y, z, u}
      PROVE  ProgramOK(v, a) /\ NoneOpens(v)
  <2>1. \A i \in DOMAIN v : v[i].do \in Plain \ {"choose"}
    BY <1>1
  <2>2. NoneOpens(v)
    BY <2>1 DEF NoneOpens, OpenItems, Plain
  <2>3. OpensOne(v)
    BY <2>2 DEF NoneOpens, OpensOne
  <2>4. QED
    BY <1>1, <2>1, <2>2, <2>3, PlainShape DEF ProgramOK
<1>2. IsList(<< >>) /\ IsList(<<x>>) /\ IsList(<<x, y>>) /\ IsList(<<x, y, z>>)
  BY TupleList
<1>3. IsList(<<x, y, z, u>>)
  <2>1. <<x, y, z, u>> \in Seq({x, y, z, u})
    OBVIOUS
  <2>2. QED
    BY <2>1, SeqIsList
<1>4. /\ \A i \in DOMAIN << >> : << >>[i] \in {x, y, z, u}
      /\ \A i \in DOMAIN <<x>> : <<x>>[i] \in {x, y, z, u}
      /\ \A i \in DOMAIN <<x, y>> : <<x, y>>[i] \in {x, y, z, u}
      /\ \A i \in DOMAIN <<x, y, z>> : <<x, y, z>>[i] \in {x, y, z, u}
      /\ \A i \in DOMAIN <<x, y, z, u>> : <<x, y, z, u>>[i] \in {x, y, z, u}
  OBVIOUS
<1>5. QED
  BY <1>1, <1>2, <1>3, <1>4

LEMMA DoIs ==
  ASSUME NEW do, NEW n
  PROVE  Do(do, n).do = do /\ Do(do, n).name = n
  BY DEF Do

LEMMA OpenProgram ==
  ASSUME NEW n, NEW a
  PROVE  ProgramOK(OpenAdapter(n), a)
<1> DEFINE l == Do("load", "all")
           k == Do("lock", n)
           f == Do("find", n)
           m == Do("missing", n)
           c == Do("choose", n)
           u == Do("unlock", n)
           v == <<l, k, f, m, c, u>>
<1>1. l.do = "load" /\ k.do = "lock" /\ f.do = "find" /\ m.do = "missing" /\ c.do = "choose" /\ u.do = "unlock"
  BY DoIs
<1>2. OpenAdapter(n) = v
  BY DEF OpenAdapter
<1> HIDE DEF l, k, f, m, c, u
<1>3. v \in Seq({l, k, f, m, c, u}) /\ DOMAIN v = 1..6 /\ v[1] = l /\ v[2] = k /\ v[3] = f /\ v[4] = m /\ v[5] = c /\ v[6] = u
  OBVIOUS
<1> HIDE DEF v
<1>4. IsList(v)
  BY <1>3, SeqIsList
<1>5. \A i \in DOMAIN v : i \in {1, 2, 3, 4, 5, 6}
  BY <1>3
<1>6. \A i \in DOMAIN v : v[i].do \in Plain
  BY <1>1, <1>3, <1>5 DEF Plain
<1>7. \A i \in DOMAIN v : v[i].do \in OpenItems => i = 5
  BY <1>1, <1>3, <1>5 DEF OpenItems
<1>8. OpensOne(v)
  BY <1>7 DEF OpensOne
<1>9. ProgramOK(v, a)
  BY <1>4, <1>6, <1>8, PlainShape DEF ProgramOK
<1>10. QED
  BY <1>2, <1>9

LEMMA PairOfItems ==
  ASSUME NEW a, NEW x, NEW y, x.do \in Plain \ {"choose"}, y.do \in Plain \ {"choose"}
  PROVE  ProgramOK(<<x>> \o <<y>>, a) /\ NoneOpens(<<x>> \o <<y>>)
<1> DEFINE p == <<x>>
           q == <<y>>
           v == p \o q
<1>1. IsList(p) /\ IsList(q) /\ Len(p) = 1 /\ Len(q) = 1 /\ p[1] = x /\ q[1] = y
  BY TupleList
<1> HIDE DEF p, q
<1>2. /\ IsList(v) /\ Len(v) = Len(p) + Len(q)
      /\ \A i \in DOMAIN v : v[i] = IF i <= Len(p) THEN p[i] ELSE q[i - Len(p)]
  BY <1>1, ListBefore
<1> HIDE DEF v
<1>3. DOMAIN v = 1..2
  BY <1>1, <1>2, ListIsSeq
<1>4. \A i \in DOMAIN v : v[i] \in {x, y}
  <2>1. v[1] = x
    BY <1>1, <1>2, <1>3
  <2>2. v[2] = y
    BY <1>1, <1>2, <1>3
  <2>3. QED
    BY <1>3, <2>1, <2>2
<1>5. \A i \in DOMAIN v : v[i].do \in Plain \ {"choose"}
  BY <1>4
<1>6. NoneOpens(v)
  BY <1>5 DEF NoneOpens, OpenItems, Plain
<1>7. OpensOne(v)
  BY <1>6 DEF NoneOpens, OpensOne
<1>8. ProgramOK(v, a)
  BY <1>2, <1>5, <1>7, PlainShape DEF ProgramOK
<1>9. QED
  BY <1>6, <1>8 DEF v, p, q

LEMMA ProgramIs ==
  ASSUME NEW call, call.do \in DllCalls, NEW a, AdapterOK(a)
  PROVE  ProgramOK(Program(call, a), a) /\ (call.do # "open" => NoneOpens(Program(call, a)))
<1> DEFINE w == Program(call, a)
<1>1. /\ {"load", "populate", "lock", "unlock", "update", "find", "stop", "send", "shutad"} \subseteq Plain \ {"choose"}
  BY DEF Plain
<1>0. ProgramOK(<< >>, a) /\ NoneOpens(<< >>)
  <2>1. OpensOne(<< >>)
    BY DEF OpensOne
  <2>2. QED
    BY <2>1, TupleShape DEF ProgramOK
<1>2. CASE call.do = "names"
  <2> DEFINE x == Do("load", "all")
             y == Do("populate", "all")
             z == Do("lock", "all")
             u == Do("unlock", "all")
  <2>1. \A i \in {x, y, z, u} : i.do \in Plain \ {"choose"}
    BY <1>1, DoIs
  <2>2. w = <<x, y, z, u>>
    BY <1>2 DEF Program, PacketGetAdapterNames
  <2> HIDE DEF x, y, z, u, w
  <2>3. ProgramOK(w, a) /\ NoneOpens(w)
    BY <2>1, <2>2, TuplesOfItems
  <2>4. QED
    BY <2>3 DEF w
<1>3. CASE call.do = "netinfo"
  <2> DEFINE x == Do("update", call.name)
             y == Do("lock", call.name)
             z == Do("find", call.name)
             u == Do("unlock", call.name)
  <2>1. \A i \in {x, y, z, u} : i.do \in Plain \ {"choose"}
    BY <1>1, DoIs
  <2>2. w = <<x, y, z, u>>
    BY <1>3 DEF Program, PacketGetNetInfoEx
  <2> HIDE DEF x, y, z, u, w
  <2>3. ProgramOK(w, a) /\ NoneOpens(w)
    BY <2>1, <2>2, TuplesOfItems
  <2>4. QED
    BY <2>3 DEF w
<1>4. CASE call.do = "nettype"
  <2> DEFINE y == Do("lock", a.name)
             z == Do("find", a.name)
             u == Do("unlock", a.name)
  <2>1. \A i \in {y, z, u, u} : i.do \in Plain \ {"choose"}
    BY <1>1, DoIs
  <2>2. w = << >> \/ w = <<y, z, u>>
    BY <1>4 DEF Program, PacketGetNetType
  <2> HIDE DEF y, z, u, w
  <2>3. ProgramOK(w, a) /\ NoneOpens(w)
    BY <1>0, <2>1, <2>2, TuplesOfItems
  <2>4. QED
    BY <2>3 DEF w
<1>5. CASE call.do = "open"
  <2>1. w = OpenAdapter(call.name)
    BY <1>5 DEF Program
  <2>2. QED
    BY <1>5, <2>1, OpenProgram
<1>6. CASE call.do = "close"
  <2> DEFINE x == Do("update", a.name)
             y == Do("shutad", a.name)
  <2>1. \A i \in {x, y, y, y} : i.do \in Plain \ {"choose"}
    BY <1>1, DoIs
  <2>2. w = (IF a.flag = "dagfile" THEN <<x>> ELSE << >>) \o <<y>>
    BY <1>6 DEF Program, CloseAdapter
  <2> HIDE DEF x, y, w
  <2>3. w = <<x>> \o <<y>> \/ w = <<y>>
    <3>1. << >> \o <<y>> = <<y>>
      BY TupleList, NothingBefore
    <3>2. QED
      BY <2>2, <3>1
  <2>4. ProgramOK(w, a) /\ NoneOpens(w)
    BY <2>1, <2>3, TuplesOfItems, PairOfItems
  <2>5. QED
    BY <2>4 DEF w
<1>7. CASE call.do \in {"stopdriver", "send"}
  <2> DEFINE x == Do("stop", "svc")
             y == Do("send", call.name)
  <2>1. \A i \in {x, x, x, x} : i.do \in Plain \ {"choose"}
    BY <1>1, DoIs
  <2>2. \A i \in {y, y, y, y} : i.do \in Plain \ {"choose"}
    BY <1>1, DoIs
  <2>3. w = << >> \/ w = <<x>> \/ w = <<y>>
    BY <1>7 DEF Program
  <2> HIDE DEF x, y, w
  <2>4. ProgramOK(w, a) /\ NoneOpens(w)
    BY <1>0, <2>1, <2>2, <2>3, TuplesOfItems
  <2>5. QED
    BY <2>4 DEF w
<1>8. CASE call.do = "ask"
  <2> DEFINE x == Do("ask", call.name)
  <2>1. x.do = "ask"
    BY DoIs
  <2>2. w = << >> \/ (w = <<x>> /\ a # NoAdapter)
    BY <1>8 DEF Program
  <2> HIDE DEF x, w
  <2>3. a # NoAdapter => a.flag # "none"
    BY DEF AdapterOK
  <2>4. After(x.do) = Plain /\ x.do \notin OpenItems /\ x.do \notin Holds /\ (a # NoAdapter => AtItem(x, a))
    BY <2>1, <2>3, Plainly DEF Chain, OpenItems, Holds, AfterChain, AtItem
  <2>5. Shape(<<x>>) /\ NoneOpens(<<x>>) /\ OpensOne(<<x>>) /\ <<x>>[1] = x
    BY <2>4, TupleShape
  <2>6. ProgramOK(w, a) /\ NoneOpens(w)
    BY <1>0, <2>2, <2>4, <2>5 DEF ProgramOK
  <2>7. QED
    BY <2>6 DEF w
<1>9. QED
  BY <1>2, <1>3, <1>4, <1>5, <1>6, <1>7, <1>8 DEF DllCalls

LEMMA EnterKeeps ==
  ASSUME DllInv, NEW t \in Threads, UNCHANGED <<machine, mgm>>, Enter(t)
  PROVE  DllInv'
<1> DEFINE call == Head(th[t].calls)
           w == Program(call, ad[t])
           s == [Waiting(Tail(th[t].calls)) EXCEPT !.call = call, !.work = w]
<1>1. /\ th[t].call = Idle /\ th[t].calls # << >> /\ (call.do = "open" => ad[t] = NoAdapter)
      /\ th' = [th EXCEPT ![t] = s] /\ UNCHANGED <<machine, mgm, svc, drv, ad, below, dll>>
  BY DEF Enter, Becomes, KeepService, KeepAdapters
<1>2. DllThread(th[t], ad[t]) /\ AdapterOK(ad[t])
  BY DEF DllInv
<1>3. /\ IsList(th[t].calls) /\ \A i \in DOMAIN th[t].calls : th[t].calls[i].do \in DllCalls
  BY <1>2 DEF DllThread, ThreadFields
<1>4. /\ IsList(Tail(th[t].calls)) /\ call = th[t].calls[1]
      /\ \A i \in DOMAIN Tail(th[t].calls) : Tail(th[t].calls)[i] = th[t].calls[i + 1] /\ i + 1 \in DOMAIN th[t].calls
  BY <1>1, <1>3, ListTail
<1>5. call.do \in DllCalls
  BY <1>1, <1>3, <1>4, ListIsSeq
<1>6. ProgramOK(w, ad[t]) /\ (call.do # "open" => NoneOpens(w))
  BY <1>2, <1>5, ProgramIs
<1>7. /\ {"calls", "call", "work", "ok", "found", "file", "seen"} = DOMAIN s
      /\ s.calls = Tail(th[t].calls) /\ s.call = call /\ s.work = w /\ s.file = FALSE
  BY DEF Waiting
<1>8. call # Idle
  BY <1>5 DEF Idle, Do, DllCalls
<1> HIDE DEF call, w, s
<1>9. ThreadFields(s)
  BY <1>3, <1>4, <1>7 DEF ThreadFields
<1>10. DllThread(s, ad[t])
  <2>1. Shape(s.work) /\ OpensOne(s.work) /\ (s.work # << >> => AtItem(s.work[1], ad[t]))
    BY <1>6, <1>7 DEF ProgramOK
  <2>2. ~NoneOpens(s.work) => ad[t] = NoAdapter
    BY <1>1, <1>6, <1>7
  <2>3. s.call # Idle
    BY <1>7, <1>8
  <2>4. QED
    BY <1>9, <2>1, <2>2, <2>3 DEF DllThread
<1>11. Loose(s) /\ Loose(th[t])
  <2>1. s.work # << >> => s.work[1].do \notin Holds
    BY <1>6, <1>7 DEF ProgramOK
  <2>2. th[t].work = << >>
    BY <1>1, <1>2 DEF DllThread
  <2>3. QED
    BY <2>1, <2>2, LooseAt
<1>12. StepTo(t, s)
  BY <1>1, KeptWhen DEF StepTo
<1>13. ServiceTypes'
  BY <1>1, ServiceStays
<1>14. QED
  BY <1>1, <1>10, <1>11, <1>12, <1>13, QuietKeepsDll

LEMMA NoWork ==
  ASSUME NEW calls, IsList(calls), \A i \in DOMAIN calls : calls[i].do \in DllCalls, NEW a
  PROVE  DllThread(Waiting(calls), a) /\ Loose(Waiting(calls)) /\ Waiting(calls).work = << >>
<1>1. /\ {"calls", "call", "work", "ok", "found", "file", "seen"} = DOMAIN Waiting(calls)
      /\ Waiting(calls).calls = calls /\ Waiting(calls).work = << >> /\ Waiting(calls).file = FALSE
  BY DEF Waiting
<1>2. Shape(<< >>) /\ NoneOpens(<< >>)
  BY TupleShape
<1>3. OpensOne(<< >>)
  BY DEF OpensOne
<1>4. Loose(Waiting(calls))
  BY <1>1, LooseAt
<1>5. ThreadFields(Waiting(calls))
  BY <1>1 DEF ThreadFields
<1>6. QED
  BY <1>1, <1>2, <1>3, <1>4, <1>5 DEF DllThread

LEMMA ReturnKeeps ==
  ASSUME DllInv, NEW t \in Threads, UNCHANGED <<machine, mgm>>, Return(t)
  PROVE  DllInv'
<1> DEFINE s == Waiting(th[t].calls)
<1>1. th[t].work = << >> /\ th' = [th EXCEPT ![t] = s] /\ UNCHANGED <<machine, mgm, svc, drv, ad, below, dll>>
  BY DEF Return, Becomes, KeepService, KeepAdapters
<1>2. DllThread(th[t], ad[t])
  BY DEF DllInv
<1>3. IsList(th[t].calls) /\ \A i \in DOMAIN th[t].calls : th[t].calls[i].do \in DllCalls
  BY <1>2 DEF DllThread, ThreadFields
<1>4. DllThread(s, ad[t]) /\ Loose(s)
  BY <1>3, NoWork
<1> HIDE DEF s
<1>5. Loose(th[t])
  BY <1>1, LooseAt
<1>6. StepTo(t, s)
  BY <1>1, KeptWhen DEF StepTo
<1>7. ServiceTypes'
  BY <1>1, ServiceStays
<1>8. QED
  BY <1>1, <1>4, <1>5, <1>6, <1>7, QuietKeepsDll

-----------------------------------------------------------------------------
(* npf_mgm, and an adapter that goes.                                      *)

MgmSet == [cmds : Seq(MgmCommands), todo : Seq(MgmFunctions), at : MgmFunctions \cup {"main", "remove", "close"}]
MgmOK(m) == m \in MgmSet /\ (m.todo = << >> => m.at = "main")

LEMMA MgmMoves ==
  ASSUME DllInv, UNCHANGED dllVars, machine' = machine, MgmOK(mgm'),
         NEW h, ServiceNow(svc', drv', h, drv.files), h - N(MgmHolds') = svc.handles - N(MgmHolds)
  PROVE  DllInv'
<1>1. /\ th' = th /\ ad' = ad /\ below' = below /\ dll' = dll
  BY DEF dllVars
<1>2. MacNames' = MacNames /\ MachineLists'
  BY MachineStays DEF DllInv, DllTypes
<1>3. ServiceTypes' /\ svc'.handles = h /\ drv'.files = drv.files
  BY <1>2 DEF ServiceTypes, ServiceNow, SvcSet, DrvSet, MgmOK, MgmSet
<1>4. DllTypes'
  BY <1>1, <1>2, <1>3 DEF DllInv, DllTypes
<1>5. Counts'
  <2> DEFINE c == Cardinality({t \in Threads : ServiceOf(th[t])})
  <2>1. c \in Nat
    <3>1. IsFiniteSet(Threads)
      BY ThreadsAssumption
    <3>2. {t \in Threads : ServiceOf(th[t])} \subseteq Threads
      OBVIOUS
    <3>3. QED
      BY <3>1, <3>2, FS_Subset, FS_CardinalityType
  <2>2. svc.handles = dll.leaked + N(MgmHolds) + c /\ dll.leaked \in Int /\ svc.handles \in Int /\ svc'.handles \in Int
    BY <1>3 DEF DllInv, Counts, DllTypes, ServiceTypes
  <2>3. N(MgmHolds') \in Int /\ N(MgmHolds) \in Int
    BY DEF N
  <2>4. c = Cardinality({t \in Threads : ServiceOf(th'[t])})
    BY <1>1
  <2> HIDE DEF c
  <2>5. svc'.handles = dll'.leaked + N(MgmHolds') + c
    BY <1>1, <1>3, <2>1, <2>2, <2>3
  <2>6. drv'.files = Holding("ndis")' + Cardinality({t \in Threads : FileOf(th'[t])})
    BY <1>1, <1>3 DEF DllInv, Counts, Holding
  <2>7. ASSUME NEW lib \in Libraries
        PROVE  below'[lib] = Holding(lib)' + Cardinality({t \in Threads : CardOf(th'[t], lib)})
    BY <1>1 DEF DllInv, Counts, Holding
  <2>8. QED
    BY <2>4, <2>5, <2>6, <2>7 DEF Counts
<1>6. \A t \in Threads : DllThread(th'[t], ad'[t]) /\ AdapterOK(ad'[t])
  BY <1>1 DEF DllInv
<1>7. QED
  BY <1>4, <1>5, <1>6 DEF DllInv

LEMMA MgmIs ==
  ASSUME DllInv
  PROVE  /\ MgmOK(mgm) /\ (mgm.todo # << >> => MgmOK(MgmReturn) /\ MgmReturn.at = "main" /\ Head(mgm.todo) \in MgmFunctions)
         /\ \A at \in MgmFunctions \cup {"remove", "close"} :
              mgm.todo # << >> => MgmOK([mgm EXCEPT !.at = at])
<1>1. mgm \in MgmSet /\ (mgm.todo = << >> => mgm.at = "main")
  BY DEF DllInv, DllTypes, ServiceTypes, MgmSet
<1>2. mgm.todo \in Seq(MgmFunctions)
  BY <1>1 DEF MgmSet
<1>3. mgm.todo # << >> => Tail(mgm.todo) \in Seq(MgmFunctions) /\ Head(mgm.todo) \in MgmFunctions
  BY <1>2, HeadTailProperties
<1>4. mgm.todo # << >> => MgmOK(MgmReturn) /\ MgmReturn.at = "main"
  BY <1>1, <1>3 DEF MgmReturn, MgmOK, MgmSet
<1>5. ASSUME NEW at \in MgmFunctions \cup {"remove", "close"}, mgm.todo # << >>
      PROVE  MgmOK([mgm EXCEPT !.at = at])
  BY <1>1, <1>5 DEF MgmOK, MgmSet
<1>6. QED
  BY <1>1, <1>3, <1>4, <1>5 DEF MgmOK

(* A step of a function of npf_mgm between opening and closing.            *)
LEMMA MgmWorks ==
  ASSUME DllInv, UNCHANGED dllVars, machine' = machine,
         NEW place \in MgmFunctions \cup {"remove", "close"}, MgmAt(place),
         NEW at \in MgmFunctions \cup {"remove", "close"}, mgm' = [mgm EXCEPT !.at = at],
         ServiceNow(svc', drv', svc.handles, drv.files)
  PROVE  DllInv'
<1>1. mgm.at = place /\ mgm.todo # << >> /\ mgm \in MgmSet
  BY MgmIs DEF MgmAt, MgmOK
<1>2. mgm'.at = at /\ mgm'.todo = mgm.todo /\ MgmOK(mgm')
  BY <1>1, MgmIs DEF MgmSet
<1>3. MgmHolds /\ MgmHolds'
  BY <1>1, <1>2 DEF MgmHolds, MgmFunctions
<1>4. svc.handles - N(MgmHolds') = svc.handles - N(MgmHolds)
  BY <1>3 DEF N
<1>5. QED
  BY <1>2, <1>4, MgmMoves

LEMMA ServiceKeeps ==
  ASSUME DllInv, ServiceNext, UNCHANGED dllVars
  PROVE  DllInv'
<1>0. svc.handles \in Int /\ "remove" \in MgmFunctions \cup {"remove", "close"}
      /\ "close" \in MgmFunctions \cup {"remove", "close"}
      /\ {"delete", "start", "stop", "auto"} \subseteq MgmFunctions \cup {"remove", "close"}
  BY ServiceIs DEF MgmFunctions
<1>m. machine' = machine
  BY DEF ServiceNext, MgmMain, MgmOpen, create_driver_service, delete_service, MgmRemove, stop_service,
         start_service, change_start_type_service, MgmClose
<1>1. CASE MgmMain
  <2>1. mgm.todo = << >> /\ mgm.cmds # << >> /\ UNCHANGED <<svc, drv>>
        /\ mgm' = [mgm EXCEPT !.todo = Functions(Head(mgm.cmds)), !.cmds = Tail(mgm.cmds)]
    BY <1>1 DEF MgmMain
  <2>2. mgm \in MgmSet /\ mgm.at = "main"
    BY <2>1, MgmIs DEF MgmOK
  <2>3. Head(mgm.cmds) \in MgmCommands /\ Tail(mgm.cmds) \in Seq(MgmCommands)
    <3>1. mgm.cmds \in Seq(MgmCommands)
      BY <2>2 DEF MgmSet
    <3>2. QED
      BY <2>1, <3>1, HeadTailProperties
  <2> DEFINE f == Functions(Head(mgm.cmds))
  <2>4. f \in Seq(MgmFunctions)
    <3>1. CASE Head(mgm.cmds) = "reinstall"
      BY <3>1 DEF Functions, MgmFunctions
    <3>2. CASE Head(mgm.cmds) # "reinstall"
      <4>1. Head(mgm.cmds) \in MgmFunctions
        BY <2>3, <3>2 DEF MgmCommands, MgmFunctions
      <4>2. QED
        BY <3>2, <4>1 DEF Functions
    <3>3. QED
      BY <3>1, <3>2
  <2>5. mgm' = [mgm EXCEPT !.todo = f, !.cmds = Tail(mgm.cmds)]
    BY <2>1
  <2> HIDE DEF f
  <2>6. MgmOK(mgm') /\ mgm'.at = "main"
    BY <2>2, <2>3, <2>4, <2>5 DEF MgmOK, MgmSet
  <2>7. svc.handles - N(MgmHolds') = svc.handles - N(MgmHolds)
    BY <2>2, <2>6 DEF MgmHolds, N
  <2>8. ServiceNow(svc', drv', svc.handles, drv.files)
    BY <2>1, SameService
  <2>9. QED
    BY <1>m, <2>6, <2>7, <2>8, MgmMoves
<1>2. ASSUME MgmAt("main"), mgm' = MgmReturn, ServiceNow(svc', drv', svc.handles, drv.files)
      PROVE  DllInv'
  <2>1. MgmOK(mgm') /\ mgm'.at = "main" /\ mgm.at = "main"
    BY <1>2, MgmIs DEF MgmAt
  <2>2. svc.handles - N(MgmHolds') = svc.handles - N(MgmHolds)
    BY <2>1 DEF MgmHolds, N
  <2>3. QED
    BY <1>2, <1>m, <2>1, <2>2, MgmMoves
<1>3. CASE MgmOpen
  <2>1. CASE OpenService /\ mgm' = [mgm EXCEPT !.at = Head(mgm.todo)]
    <3>1. mgm.at = "main" /\ mgm.todo # << >>
      BY <1>3 DEF MgmOpen, MgmAt
    <3>2. Head(mgm.todo) \in MgmFunctions /\ mgm \in MgmSet
      BY <3>1, MgmIs DEF MgmOK
    <3>3. MgmOK(mgm') /\ mgm'.at = Head(mgm.todo) /\ mgm'.todo = mgm.todo
      BY <2>1, <3>1, <3>2, MgmIs DEF MgmSet
    <3>4. MgmHolds' /\ ~MgmHolds
      BY <3>1, <3>2, <3>3 DEF MgmHolds, MgmFunctions
    <3>5. (svc.handles + 1) - N(MgmHolds') = svc.handles - N(MgmHolds)
      <4>1. N(MgmHolds') = 1 /\ N(MgmHolds) = 0
        BY <3>4 DEF N
      <4>2. QED
        BY <1>0, <4>1
    <3>6. ServiceNow(svc', drv', svc.handles + 1, drv.files)
      BY <2>1, OpenServiceIs
    <3>7. QED
      BY <1>m, <3>3, <3>5, <3>6, MgmMoves
  <2>2. CASE mgm' = MgmReturn /\ UNCHANGED <<svc, drv>>
    BY <1>2, <1>3, <2>2, SameService DEF MgmOpen
  <2>3. QED
    BY <1>3, <2>1, <2>2 DEF MgmOpen
<1>4. CASE create_driver_service
  <2>1. CreateService \/ UNCHANGED <<svc, drv>>
    BY <1>4 DEF create_driver_service
  <2>2. QED
    BY <1>2, <1>4, <2>1, CreateServiceIs DEF create_driver_service
<1>5. CASE delete_service
  <2>1. MgmAt("delete") /\ mgm' = [mgm EXCEPT !.at = "remove"] /\ ControlStop
    BY <1>5 DEF delete_service
  <2>2. QED
    BY <1>0, <1>m, <2>1, ControlStopIs, MgmWorks
<1>6. CASE MgmRemove
  <2>1. MgmAt("remove") /\ mgm' = [mgm EXCEPT !.at = "close"] /\ (DeleteService \/ UNCHANGED <<svc, drv>>)
    BY <1>6 DEF MgmRemove
  <2>2. ServiceNow(svc', drv', svc.handles, drv.files)
    BY <2>1, DeleteServiceIs, SameService
  <2>3. QED
    BY <1>0, <1>m, <2>1, <2>2, MgmWorks
<1>7. CASE stop_service
  <2>1. MgmAt("stop") /\ mgm' = [mgm EXCEPT !.at = "close"] /\ ControlStop
    BY <1>7 DEF stop_service
  <2>2. QED
    BY <1>0, <1>m, <2>1, ControlStopIs, MgmWorks
<1>8. CASE start_service
  <2>1. MgmAt("start") /\ mgm' = [mgm EXCEPT !.at = "close"] /\ \E how : StartService(how)
    BY <1>8 DEF start_service
  <2>2. ServiceNow(svc', drv', svc.handles, drv.files)
    BY <2>1, StartServiceIs
  <2>3. QED
    BY <1>0, <1>m, <2>1, <2>2, MgmWorks
<1>9. CASE change_start_type_service
  <2>1. MgmAt("auto") /\ mgm' = [mgm EXCEPT !.at = "close"] /\ UNCHANGED <<svc, drv>>
    BY <1>9 DEF change_start_type_service
  <2>2. QED
    BY <1>0, <1>m, <2>1, SameService, MgmWorks
<1>10. CASE MgmClose
  <2>1. mgm.at = "close" /\ mgm.todo # << >> /\ CloseServiceHandle /\ mgm' = MgmReturn
    BY <1>10 DEF MgmClose, MgmAt
  <2>2. MgmOK(mgm') /\ mgm'.at = "main"
    BY <2>1, MgmIs
  <2>3. MgmHolds /\ ~MgmHolds'
    BY <2>1, <2>2 DEF MgmHolds
  <2>4. svc.there
    BY <2>3, ServiceIsThere
  <2>5. ServiceNow(svc', drv', svc.handles - 1, drv.files)
    BY <2>1, <2>4, CloseHandleIs
  <2>6. (svc.handles - 1) - N(MgmHolds') = svc.handles - N(MgmHolds)
    <3>1. N(MgmHolds') = 0 /\ N(MgmHolds) = 1
      BY <2>3 DEF N
    <3>2. QED
      BY <1>0, <3>1
  <2>7. QED
    BY <1>m, <2>2, <2>5, <2>6, MgmMoves
<1>11. QED
  BY <1>1, <1>3, <1>4, <1>5, <1>6, <1>7, <1>8, <1>9, <1>10 DEF ServiceNext

LEMMA NothingMoves ==
  ASSUME DllInv, UNCHANGED serviceVars, UNCHANGED <<th, ad, below>>,
         dll' = dll \/ AdapterGoes
  PROVE  DllInv'
<1>1. /\ machine' = machine /\ svc' = svc /\ drv' = drv /\ mgm' = mgm
      /\ th' = th /\ ad' = ad /\ below' = below
  BY DEF serviceVars
<1>2. DllKept
  BY KeptWhen DEF AdapterGoes
<1>3. ServiceTypes'
  BY <1>1, ServiceStays
<1>4. DllTypes'
  <2>1. below' \in [Libraries -> Int] /\ DOMAIN th' = Threads /\ DOMAIN ad' = Threads
    BY <1>1 DEF DllInv, DllTypes
  <2>2. QED
    BY <1>1, <1>2, <1>3, <2>1, TypesStay
<1>5. Counts'
  <2>1. dll'.leaked = dll.leaked
    BY <1>2 DEF DllKept
  <2>2. QED
    BY <1>1, <2>1 DEF DllInv, Counts, Holding, MgmHolds
<1>6. QED
  BY <1>1, <1>4, <1>5 DEF DllInv

-----------------------------------------------------------------------------
(* The invariant holds, and with it what an application is promised.       *)

LEMMA CountNone ==
  ASSUME NEW S, S \subseteq Threads
  PROVE  /\ Cardinality(S) \in Nat
         /\ S = {} => Cardinality(S) = 0
         /\ \A t : t \in S => Cardinality(S) > 0
<1>1. IsFiniteSet(S)
  BY ThreadsAssumption, FS_Subset
<1>2. Cardinality(S) \in Nat
  BY <1>1, FS_CardinalityType
<1>3. Cardinality(S) = 0 <=> S = {}
  BY <1>1, FS_EmptySet
<1>4. QED
  BY <1>2, <1>3

LEMMA DllInvAtStart ==
  ASSUME DllStart
  PROVE  DllInv
<1>1. ServiceTypes /\ svc.handles = 0 /\ drv.files = 0 /\ ~MgmHolds
  <2>1. svc \in {NotThere, Installed} /\ drv = [linked |-> {}, files |-> 0]
    BY DEF DllStart
  <2>2. mgm.todo = << >> /\ mgm.at = "main" /\ mgm \in MgmSet
    <3> DEFINE c == mgm.cmds
    <3>1. c \in Seq(MgmCommands) /\ mgm = [cmds |-> c, todo |-> << >>, at |-> "main"]
      BY DEF DllStart
    <3>2. << >> \in Seq(MgmFunctions)
      OBVIOUS
    <3> HIDE DEF c
    <3>3. QED
      BY <3>1, <3>2 DEF MgmSet
  <2>3. svc \in [there : BOOLEAN, marked : BOOLEAN, state : {"stopped", "running", "stopping"}, handles : Int]
        /\ svc.handles = 0
    <3>1. CASE svc = NotThere
      BY <3>1 DEF NotThere
    <3>2. CASE svc = Installed
      <4> DEFINE S == [there : BOOLEAN, marked : BOOLEAN, state : {"stopped", "running", "stopping"}, handles : Int]
      <4>1. NotThere \in S /\ NotThere.handles = 0
        BY DEF NotThere
      <4>2. [NotThere EXCEPT !.there = TRUE] \in S
        BY <4>1
      <4>3. [NotThere EXCEPT !.there = TRUE].handles = 0
        BY <4>1
      <4>4. QED
        BY <3>2, <4>2, <4>3 DEF Installed
    <3>3. QED
      BY <2>1, <3>1, <3>2
  <2>4. drv \in [linked : SUBSET MacNames, files : Int] /\ drv.files = 0
    BY <2>1
  <2>5. ~MgmHolds
    BY <2>2 DEF MgmHolds
  <2>6. ServiceTypes
    BY <2>2, <2>3, <2>4 DEF ServiceTypes, MgmSet
  <2>7. QED
    BY <2>3, <2>4, <2>5, <2>6
<1>2. DllTypes
  BY <1>1 DEF DllStart, DllInit, DllTypes, MachineLists
<1>3. ASSUME NEW t \in Threads
      PROVE  DllThread(th[t], ad[t]) /\ AdapterOK(ad[t]) /\ Loose(th[t]) /\ ad[t] = NoAdapter
  <2>1. /\ th[t] = Waiting(th[t].calls) /\ IsList(th[t].calls)
        /\ \A i \in DOMAIN th[t].calls : th[t].calls[i].do \in DllCalls
    BY DEF DllStart
  <2>2. ad[t] = NoAdapter
    BY DEF DllStart, DllInit
  <2> DEFINE c == th[t].calls
  <2>3. th[t] = Waiting(c) /\ IsList(c) /\ \A i \in DOMAIN c : c[i].do \in DllCalls
    BY <2>1
  <2> HIDE DEF c
  <2>4. DllThread(th[t], ad[t]) /\ Loose(th[t])
    BY <2>3, NoWork
  <2>5. QED
    BY <2>2, <2>4 DEF AdapterOK, NoAdapter
<1>4. Counts
  <2>1. {t \in Threads : ServiceOf(th[t])} = {} /\ {t \in Threads : FileOf(th[t])} = {}
        /\ \A lib : {t \in Threads : CardOf(th[t], lib)} = {}
    BY <1>3 DEF Loose
  <2>2. ASSUME NEW who \in Libraries \cup {"ndis"}
        PROVE  Holding(who) = 0
    <3>1. {t \in Threads : Library(ad[t].flag) = who} = {}
      BY <1>3, HasNothing DEF Has
    <3>2. QED
      BY <3>1, CountNone DEF Holding
  <2>3. Cardinality({}) = 0
    BY FS_EmptySet
  <2>4. dll.leaked = 0 /\ \A lib \in Libraries : below[lib] = 0
    BY DEF DllStart, DllInit
  <2>5. N(MgmHolds) = 0
    BY <1>1 DEF N
  <2>6. Holding("ndis") = 0 /\ \A lib \in Libraries : Holding(lib) = 0
    BY <2>2
  <2>7. /\ Cardinality({t \in Threads : ServiceOf(th[t])}) = 0
        /\ Cardinality({t \in Threads : FileOf(th[t])}) = 0
    BY <2>1, <2>3
  <2>8. ASSUME NEW lib \in Libraries
        PROVE  below[lib] = Holding(lib) + Cardinality({t \in Threads : CardOf(th[t], lib)})
    <3>1. Cardinality({t \in Threads : CardOf(th[t], lib)}) = 0
      BY <2>1, <2>3
    <3>2. 0 = 0 + 0
      OBVIOUS
    <3>3. QED
      BY <2>4, <2>6, <3>1, <3>2
  <2>9. 0 = 0 + 0 + 0 /\ 0 = 0 + 0
    OBVIOUS
  <2>10. svc.handles = dll.leaked + N(MgmHolds) + Cardinality({t \in Threads : ServiceOf(th[t])})
    BY <1>1, <2>4, <2>5, <2>7, <2>9
  <2>11. drv.files = Holding("ndis") + Cardinality({t \in Threads : FileOf(th[t])})
    BY <1>1, <2>6, <2>7, <2>9
  <2>12. QED
    BY <2>8, <2>10, <2>11 DEF Counts
<1>5. QED
  BY <1>2, <1>3, <1>4 DEF DllInv

LEMMA DllInvStep ==
  ASSUME DllInv, [DllNext]_<<serviceVars, dllVars>>
  PROVE  DllInv'
<1>1. CASE UNCHANGED <<serviceVars, dllVars>>
  BY <1>1, NothingMoves DEF dllVars
<1>2. CASE AdapterGoes
  BY <1>2, NothingMoves DEF AdapterGoes
<1>3. CASE ServiceNext /\ UNCHANGED dllVars
  BY <1>3, ServiceKeeps
<1>4. ASSUME NEW t \in Threads, ThreadNext(t)
      PROVE  DllInv'
  <2>0. UNCHANGED <<machine, mgm>>
    BY <1>4 DEF ThreadNext
  <2>1. CASE Enter(t)
    BY <2>0, <2>1, EnterKeeps
  <2>2. CASE NpfNext(t)
    BY <2>0, <2>2, NpfKeeps, OpenServiceKeeps, StartDriverKeeps, FileKeeps DEF NpfNext
  <2>3. CASE ListNext(t)
    BY <2>0, <2>3, AddNPFKeeps, GetNPFKeeps, IPHKeeps, FirstKeeps, MutexKeeps, AskKeeps, FindKeeps, UpdateKeeps,
       LinkKeeps, ShutKeeps DEF ListNext
  <2>4. CASE CardsNext(t)
    BY <2>0, <2>4, GetAdaptersKeeps, CardKeeps, LinkCardKeeps, DagKeeps, LinkDagKeeps DEF CardsNext
  <2>5. CASE OpenNext(t)
    BY <2>0, <2>5, MissingKeeps, ChooseKeeps, KeepKeeps, OpenersKeep, ReadEventKeeps, DagFileOpens, CloseKeeps
       DEF OpenNext
  <2>6. CASE CallNext(t)
    BY <2>0, <2>6, AskedKeeps, MutexKeeps, MissingKeeps, StopKeeps DEF CallNext
  <2>7. CASE Return(t)
    BY <2>0, <2>7, ReturnKeeps
  <2>8. QED
    BY <1>4, <2>1, <2>2, <2>3, <2>4, <2>5, <2>6, <2>7 DEF ThreadNext, Working
<1>5. QED
  BY <1>1, <1>2, <1>3, <1>4 DEF DllNext

LEMMA DllInvReleases ==
  ASSUME DllInv
  PROVE  HandlesReleased
<1>1. ASSUME NEW t \in Threads, Doing(t, "asked")
      PROVE  HandleOf(Arg(t))
  <2>1. ad[t].flag # "none" /\ Arg(t) = Library(ad[t].flag) /\ AdapterOK(ad[t])
    BY <1>1, AtWork DEF AtItem
  <2> DEFINE who == Arg(t)
             S == {q \in Threads : Library(ad[q].flag) = who}
  <2>2. t \in S /\ S \subseteq Threads /\ Holding(who) = Cardinality(S)
    BY <2>1 DEF Holding
  <2> HIDE DEF S
  <2>3. Holding(who) \in Nat /\ Holding(who) > 0
    BY <2>2, CountNone
  <2>4. CASE who = "ndis"
    <3>1. drv.files = Holding("ndis") + Cardinality({q \in Threads : FileOf(th[q])})
      BY DEF DllInv, Counts
    <3>2. Cardinality({q \in Threads : FileOf(th[q])}) \in Nat
      BY CountNone
    <3>3. QED
      BY <2>3, <2>4, <3>1, <3>2 DEF HandleOf
  <2>5. CASE who # "ndis"
    <3>1. ad[t].flag # "ndis"
      BY <2>1, <2>5 DEF Library
    <3>2. who \in Libraries
      BY <2>1, <3>1, AdapterHas
    <3>3. below[who] = Holding(who) + Cardinality({q \in Threads : CardOf(th[q], who)})
      BY <3>2 DEF DllInv, Counts
    <3>4. Cardinality({q \in Threads : CardOf(th[q], who)}) \in Nat
      BY CountNone
    <3>5. below[who] > 0
      BY <2>3, <3>3, <3>4
    <3>6. QED
      BY <2>5, <3>5 DEF HandleOf
  <2>6. QED
    BY <2>4, <2>5
<1>2. ASSUME \A t \in Threads : th[t].call = Idle
      PROVE  /\ \A lib \in Libraries : below[lib] = Holding(lib)
             /\ drv.files = Holding("ndis")
             /\ svc.handles = dll.leaked + (IF MgmHolds THEN 1 ELSE 0)
  <2>1. \A t \in Threads : th[t].work = << >>
    BY <1>2 DEF DllInv, DllThread
  <2>2. {t \in Threads : ServiceOf(th[t])} = {} /\ {t \in Threads : FileOf(th[t])} = {}
        /\ \A lib : {t \in Threads : CardOf(th[t], lib)} = {}
    BY <2>1 DEF ServiceOf, FileOf, CardOf
  <2>3. Cardinality({}) = 0
    BY FS_EmptySet
  <2>4. \A who : Holding(who) \in Nat
    BY CountNone DEF Holding
  <2>5. ASSUME NEW lib \in Libraries
        PROVE  below[lib] = Holding(lib)
    <3>1. below[lib] = Holding(lib) + Cardinality({t \in Threads : CardOf(th[t], lib)})
      BY DEF DllInv, Counts
    <3>2. below[lib] = Holding(lib) + 0
      BY <2>2, <2>3, <3>1
    <3>3. QED
      BY <2>4, <3>2
  <2>6. drv.files = Holding("ndis")
    <3>1. drv.files = Holding("ndis") + 0
      BY <2>2, <2>3 DEF DllInv, Counts
    <3>2. QED
      BY <2>4, <3>1
  <2>7. svc.handles = dll.leaked + N(MgmHolds)
    <3>1. svc.handles = dll.leaked + N(MgmHolds) + 0
      BY <2>2, <2>3 DEF DllInv, Counts
    <3>2. dll.leaked \in Nat /\ N(MgmHolds) \in Nat
      BY DEF DllInv, DllTypes, N
    <3>3. QED
      BY <3>1, <3>2
  <2>8. QED
    BY <2>5, <2>6, <2>7 DEF N
<1>3. QED
  BY <1>1, <1>2 DEF HandlesReleased

(* Whatever the machine has, whichever calls of the system fail, and       *)
(* however the threads of the application interleave with each other, with *)
(* npf_mgm and with adapters that go: PacketReceivePacket and the other    *)
(* calls on an adapter reach a driver or library that has a handle open,   *)
(* and when no call of packet.dll is in progress no handle is open but     *)
(* those of the adapters the application has, of npf_mgm, and of the       *)
(* service where PacketOpenAdapterNPF could not start the driver.          *)
THEOREM HandlesAreReleased == DllSpec => []HandlesReleased
<1>1. DllStart => DllInv
  BY DllInvAtStart
<1>2. DllInv /\ [DllNext]_<<serviceVars, dllVars>> => DllInv'
  BY DllInvStep
<1>3. DllInv => HandlesReleased
  BY DllInvReleases
<1>4. QED
  BY <1>1, <1>2, <1>3, PTL DEF DllSpec

-----------------------------------------------------------------------------
(* The list.  What is said of it besides needs names that tell the kinds   *)
(* of adapters apart.                                                      *)

AirCards == {machine.air[i] : i \in DOMAIN machine.air}
ImCards == {machine.im[i] : i \in DOMAIN machine.im}
Dags == machine.dagfiles \cup {machine.dag[i] : i \in DOMAIN machine.dag}
Bound == {machine.iph[i].name : i \in DOMAIN machine.iph}
Ndis == MacNames \cup {machine.class[i].name : i \in DOMAIN machine.class} \cup Bound

NamesDiffer ==
  /\ \A i, j \in DOMAIN machine.class :
       machine.class[i].name = machine.class[j].name => (IsFireWire(i) <=> IsFireWire(j))
  /\ AirCards \cap (ImCards \cup Dags \cup Ndis \cup {FakeWan}) = {}
  /\ ImCards \cap (Dags \cup Ndis \cup {FakeWan}) = {}
  /\ FireWire \cap (Dags \cup {FakeWan}) = {}

(* How often a thread holds the mutex: f[i] is the depth before item i.    *)
(* What is left of a call releases what it has locked; items that need the *)
(* mutex come while it is held, and those that hide an adapter before any  *)
(* that would show it.                                                     *)
Hides == {"hide", "npfs"}
BeforeHides(x, F) ==
  x.do \in {"hide", "add", "unlock", "link"} \cup Chain /\ (x.do = "add" => x.name \notin F)

Steps(do, a, b) ==
  /\ do = "lock" => b = a + 1
  /\ do = "unlock" => a = b + 1
  /\ do \notin {"lock", "unlock"} => b = a

Levels(w, f) ==
  /\ f \in [1..(Len(w) + 1) -> Nat] /\ f[Len(w) + 1] = 0
  /\ \A i \in DOMAIN w : Steps(w[i].do, f[i], f[i + 1])

Guarded(w, f, F) ==
  /\ \A i \in DOMAIN w : w[i].do \in {"link", "card"} => f[i] >= 1
  /\ \A j \in DOMAIN w : w[j].do \in Hides =>
       \A i \in 1..j : f[i] >= 1 /\ (i < j => BeforeHides(w[i], F))

Level(w, d, F) == \E f : Levels(w, f) /\ Guarded(w, f, F) /\ f[1] = d

Depth(m, t) == IF m.owner = t THEN m.depth ELSE 0

MutexHeld ==
  /\ mutex.depth \in Nat /\ (mutex.owner = NoOne => mutex.depth = 0)
  /\ (mutex.depth = 0 => mutex.owner = NoOne)
  /\ \A t \in Threads : Level(th[t].work, Depth(mutex, t), FireWire)

(* Items name what they can be applied to.                                 *)
ItemNames(x) ==
  /\ x.do = "air" => x.name \in AirCards
  /\ x.do = "im" => x.name \in ImCards
  /\ x.do \in {"iph", "first", "prepend", "shut"} => x.name \in Bound
  /\ x.do = "hide" => x.name \in FireWire
  /\ x.do \in {"dagcard", "daglink"} => x.name \in Dags

CardsOf(lib) == IF lib = "air" THEN AirCards ELSE ImCards

HeadNamed(r) ==
  LET w == r.work
  IN w # << >> => /\ w[1].do \in Chain => w[2].name = w[1].name
                  /\ w[1].do = "event" \/ (w[1].do = "link" /\ r.file) => w[1].name \in MacNames
                  /\ w[1].do = "card" => w[2].do = "unlock" /\ w[2].name \in CardsOf(w[1].name)

Named(r) == (\A i \in DOMAIN r.work : ItemNames(r.work[i])) /\ HeadNamed(r)

(* At an item, or on the way to it through PacketOpenAdapterNPF.           *)
Towards(w, do) ==
  w # << >> /\ (w[1].do = do \/ (w[1].do \in Chain /\ w[2].do = do))

(* What a thread has seen of the list still holds.                         *)
Unlisting(r, l, shown) ==
  LET w == r.work
  IN /\ Towards(w, "link") => w[1].name \notin Names(l) /\ (w[1].name \in FireWire => w[1].name \in shown)
     /\ w # << >> /\ w[1].do = "card" => w[2].name \notin Names(l)
     /\ Towards(w, "shut") \/ Towards(w, "first") \/ Towards(w, "prepend")
          => w[1].name \notin Names(r.seen)

(* A FireWire adapter is listed or shown, or will be hidden by who holds   *)
(* the mutex; or nobody is about to add it yet.                            *)
ToHide(n) ==
  \E t \in Threads : \E i \in DOMAIN th[t].work :
     th[t].work[i].do = "npfs" \/ (th[t].work[i].do = "hide" /\ th[t].work[i].name = n)
Known(n) == n \in dll.shown \/ n \in Names(list) \/ ToHide(n)

Harmless(x, n) ==
  x.do \notin {"iphs", "iph", "shut", "first", "prepend"} /\ (x.do = "add" => x.name # n)
Untold(n) == \A t \in Threads : \A i \in DOMAIN th[t].work : Harmless(th[t].work[i], n)

Entries ==
  /\ IsList(list)
  /\ \A i \in DOMAIN list :
       /\ list[i] = Entry(list[i].name, list[i].flag)
       /\ list[i].name \in AirCards => list[i].flag = "air"
       /\ list[i].name \in ImCards => list[i].flag = "im"
       /\ list[i].name \in FireWire \ dll.shown => list[i].flag = "hidden"
  /\ \A i, j \in Unlisted("dag") : i # j => list[i].name # list[j].name

ListHolds ==
  /\ Entries
  /\ \A t \in Threads : Unlisting(th[t], list, dll.shown)
  /\ \A n \in FireWire : Known(n) \/ Untold(n)

ListInv ==
  /\ DllInv /\ NamesDiffer /\ MutexHeld
  /\ \A t \in Threads : Named(th[t])
  /\ ~dll.raced => ListHolds

-----------------------------------------------------------------------------
(* Lists of items and the depth of the mutex.                              *)

(* The items end with an unlock if u is 1, and have no other.              *)
Ends(v, u) ==
  /\ u \in {0, 1} /\ (u = 1 => v # << >>)
  /\ \A i \in DOMAIN v : v[i].do # "lock" /\ (v[i].do = "unlock" <=> u = 1 /\ i = Len(v))

(* What may come before w, while the mutex is held d times.                *)
Fits(v, d, F) ==
  /\ \A i \in DOMAIN v : v[i].do \in {"link", "card"} => d >= 1
  /\ \A j \in DOMAIN v : v[j].do \in Hides => d >= 1 /\ \A i \in 1..j : i < j => BeforeHides(v[i], F)

NoHides(w) == \A i \in DOMAIN w : w[i].do \notin Hides

LEMMA LevelOfNothing ==
  ASSUME NEW F
  PROVE  Level(<< >>, 0, F)
<1> DEFINE f == [i \in {1} |-> 0]
<1>1. Len(<< >>) = 0 /\ DOMAIN << >> = {} /\ 1..(0 + 1) = {1}
  OBVIOUS
<1>2. f \in [1..(Len(<< >>) + 1) -> Nat] /\ f[Len(<< >>) + 1] = 0 /\ f[1] = 0
  BY <1>1
<1> HIDE DEF f
<1>3. Levels(<< >>, f) /\ Guarded(<< >>, f, F)
  BY <1>1, <1>2 DEF Levels, Guarded
<1>4. QED
  BY <1>2, <1>3 DEF Level

LEMMA LevelIsNat ==
  ASSUME NEW F, NEW w, IsList(w), NEW d, Level(w, d, F)
  PROVE  d \in Nat
<1>1. PICK f : Levels(w, f) /\ f[1] = d
  BY DEF Level
<1>2. Len(w) \in Nat
  BY ListIsSeq
<1>3. 1 \in 1..(Len(w) + 1)
  BY <1>2
<1>4. QED
  BY <1>1, <1>3 DEF Levels

LEMMA LevelTail ==
  ASSUME NEW F, NEW w, IsList(w), w # << >>, NEW d, Level(w, d, F)
  PROVE  \E e \in Nat : Level(Tail(w), e, F) /\ Steps(w[1].do, d, e)
<1>1. PICK f : Levels(w, f) /\ Guarded(w, f, F) /\ f[1] = d
  BY DEF Level
<1> DEFINE x == Tail(w)
           g == [i \in 1..(Len(x) + 1) |-> f[i + 1]]
<1>2. /\ IsList(x) /\ Len(x) = Len(w) - 1
      /\ \A i \in DOMAIN x : x[i] = w[i + 1] /\ i + 1 \in DOMAIN w
  BY ListTail
<1>3. Len(w) \in Nat /\ DOMAIN w = 1..Len(w) /\ Len(w) # 0 /\ DOMAIN x = 1..(Len(w) - 1)
  BY <1>2, ListIsSeq
<1>4. /\ \A i \in 1..Len(w) : i + 1 \in 1..(Len(w) + 1) /\ f[i + 1] \in Nat /\ g[i] = f[i + 1]
      /\ g \in [1..(Len(x) + 1) -> Nat]
  BY <1>1, <1>2, <1>3 DEF Levels
<1>5. f[2] \in Nat /\ g[1] = f[2] /\ Steps(w[1].do, d, f[2])
  <2>1. 1 \in 1..Len(w) /\ 1 + 1 = 2
    BY <1>3
  <2>2. QED
    BY <1>1, <1>3, <1>4, <2>1 DEF Levels
<1> HIDE DEF x, g
<1>6. Levels(x, g)
  <2>1. g[Len(x) + 1] = 0
    BY <1>1, <1>2, <1>3, <1>4 DEF Levels
  <2>2. ASSUME NEW i \in DOMAIN x
        PROVE  Steps(x[i].do, g[i], g[i + 1])
    <3>1. i \in 1..Len(w) /\ i + 1 \in 1..Len(w)
      BY <1>3
    <3>2. g[i] = f[i + 1] /\ g[i + 1] = f[(i + 1) + 1] /\ x[i] = w[i + 1]
      BY <1>2, <1>4, <3>1
    <3>3. Steps(w[i + 1].do, f[i + 1], f[(i + 1) + 1])
      BY <1>1, <1>3, <3>1 DEF Levels
    <3>4. QED
      BY <3>2, <3>3
  <2>3. QED
    BY <1>4, <2>1, <2>2 DEF Levels
<1>7. Guarded(x, g, F)
  <2>1. ASSUME NEW i \in DOMAIN x, x[i].do \in {"link", "card"}
        PROVE  g[i] >= 1
    BY <1>1, <1>2, <1>3, <1>4, <2>1 DEF Guarded
  <2>2. ASSUME NEW j \in DOMAIN x, x[j].do \in Hides, NEW i \in 1..j
        PROVE  g[i] >= 1 /\ (i < j => BeforeHides(x[i], F))
    <3>1. j + 1 \in DOMAIN w /\ x[j] = w[j + 1] /\ i + 1 \in 1..(j + 1) /\ i \in 1..Len(w) /\ j \in Nat /\ i \in Nat
      BY <1>2, <1>3
    <3>2. f[i + 1] >= 1 /\ (i + 1 < j + 1 => BeforeHides(w[i + 1], F))
      BY <1>1, <2>2, <3>1 DEF Guarded
    <3>3. i < j => i \in DOMAIN x
      BY <1>3
    <3>4. QED
      BY <1>2, <1>4, <3>1, <3>2, <3>3
  <2>3. QED
    BY <2>1, <2>2 DEF Guarded
<1>8. Level(x, f[2], F)
  BY <1>5, <1>6, <1>7 DEF Level
<1>9. QED
  BY <1>5, <1>8 DEF x

(* After an item that does not come before those that hide, there are none.*)
LEMMA HidesAfter ==
  ASSUME NEW F, NEW w, IsList(w), w # << >>, NEW d, Level(w, d, F), ~BeforeHides(w[1], F)
  PROVE  NoHides(Tail(w))
<1>1. PICK f : Levels(w, f) /\ Guarded(w, f, F) /\ f[1] = d
  BY DEF Level
<1> SUFFICES ASSUME NEW i \in DOMAIN Tail(w), Tail(w)[i].do \in Hides
             PROVE  FALSE
  BY DEF NoHides
<1>2. IsList(Tail(w)) /\ Tail(w)[i] = w[i + 1] /\ i + 1 \in DOMAIN w
  BY ListTail
<1>3. DOMAIN Tail(w) = 1..Len(Tail(w)) /\ Len(Tail(w)) \in Nat
  BY <1>2, ListIsSeq
<1>4. 1 \in 1..(i + 1) /\ 1 < i + 1
  BY <1>3
<1>5. QED
  BY <1>1, <1>2, <1>4 DEF Guarded

LEMMA LevelPush ==
  ASSUME NEW F, NEW v, IsList(v), NEW w, IsList(w), NEW d, Level(w, d, F), NEW u, Ends(v, u), Fits(v, d + u, F),
         (\A i \in DOMAIN v : BeforeHides(v[i], F)) \/ NoHides(w)
  PROVE  Level(v \o w, d + u, F)
<1>1. PICK f : Levels(w, f) /\ Guarded(w, f, F) /\ f[1] = d
  BY DEF Level
<1> DEFINE x == v \o w
           n == Len(v)
           g == [i \in 1..(Len(x) + 1) |-> IF i <= n THEN d + u ELSE f[i - n]]
<1>2. /\ IsList(x) /\ Len(x) = n + Len(w)
      /\ \A i \in DOMAIN x : x[i] = IF i <= n THEN v[i] ELSE w[i - n]
  BY ListBefore
<1>3. /\ n \in Nat /\ DOMAIN v = 1..n /\ (v = << >> <=> n = 0)
      /\ Len(w) \in Nat /\ DOMAIN w = 1..Len(w) /\ DOMAIN x = 1..Len(x)
  BY <1>2, ListIsSeq
<1>4. d \in Nat /\ u \in {0, 1} /\ d + u \in Nat
  BY LevelIsNat DEF Ends
<1>5. \A i \in 1..(Len(w) + 1) : f[i] \in Nat
  BY <1>1 DEF Levels
<1>6. g \in [1..(Len(x) + 1) -> Nat]
  <2> SUFFICES ASSUME NEW i \in 1..(Len(x) + 1)
               PROVE  (IF i <= n THEN d + u ELSE f[i - n]) \in Nat
    OBVIOUS
  <2>1. CASE i <= n
    BY <1>4, <2>1
  <2>2. CASE ~(i <= n)
    <3>1. i - n \in 1..(Len(w) + 1)
      BY <1>2, <1>3, <2>2
    <3>2. QED
      BY <1>5, <2>2, <3>1
  <2>3. QED
    BY <2>1, <2>2
<1>7. /\ \A i \in 1..(Len(x) + 1) : i <= n => g[i] = d + u
      /\ \A i \in 1..(Len(x) + 1) : i > n => g[i] = f[i - n]
  BY <1>3
<1>8. /\ \A i \in DOMAIN x : i <= n => x[i] = v[i] /\ i \in DOMAIN v
      /\ \A i \in DOMAIN x : i > n => x[i] = w[i - n] /\ i - n \in DOMAIN w
  BY <1>2, <1>3
<1> HIDE DEF x, g, n
<1>9. g[1] = d + u
  <2>1. 1 \in 1..(Len(x) + 1)
    BY <1>2, <1>3
  <2>2. CASE n = 0
    <3>1. u = 0
      BY <1>3, <2>2 DEF Ends
    <3>2. g[1] = f[1]
      BY <1>7, <2>1, <2>2
    <3>3. QED
      BY <1>1, <1>4, <3>1, <3>2
  <2>3. CASE n # 0
    BY <1>3, <1>7, <2>1, <2>3
  <2>4. QED
    BY <2>2, <2>3
<1>10. Levels(x, g)
  <2>1. g[Len(x) + 1] = 0
    <3>1. Len(x) + 1 \in 1..(Len(x) + 1) /\ Len(x) + 1 > n /\ (Len(x) + 1) - n = Len(w) + 1
      BY <1>2, <1>3
    <3>2. QED
      BY <1>1, <1>7, <3>1 DEF Levels
  <2>2. ASSUME NEW i \in DOMAIN x
        PROVE  Steps(x[i].do, g[i], g[i + 1])
    <3>1. i \in 1..(Len(x) + 1) /\ i + 1 \in 1..(Len(x) + 1) /\ i \in Nat
      BY <1>2, <1>3
    <3>2. CASE i < n
      <4>1. g[i] = d + u /\ g[i + 1] = d + u /\ x[i] = v[i] /\ i \in DOMAIN v
        BY <1>3, <1>7, <1>8, <3>1, <3>2
      <4>2. v[i].do \notin {"lock", "unlock"}
        BY <3>2, <4>1 DEF Ends, n
      <4>3. QED
        BY <4>1, <4>2 DEF Steps
    <3>3. CASE i = n
      <4>1. g[i] = d + u /\ x[i] = v[i] /\ i \in DOMAIN v
        BY <1>3, <1>7, <1>8, <3>1, <3>3
      <4>2. g[i + 1] = d
        <5>1. i + 1 > n /\ (i + 1) - n = 1
          BY <1>3, <3>1, <3>3
        <5>2. QED
          BY <1>1, <1>7, <3>1, <5>1
      <4>3. v[i].do # "lock" /\ (v[i].do = "unlock" <=> u = 1)
        BY <3>3, <4>1 DEF Ends, n
      <4>4. QED
        BY <1>4, <4>1, <4>2, <4>3 DEF Steps
    <3>4. CASE i > n
      <4>1. x[i] = w[i - n] /\ i - n \in DOMAIN w /\ g[i] = f[i - n]
        BY <1>7, <1>8, <3>1, <3>4
      <4>2. g[i + 1] = f[(i - n) + 1]
        <5>1. i + 1 > n /\ (i + 1) - n = (i - n) + 1
          BY <1>3, <3>1, <3>4
        <5>2. QED
          BY <1>7, <3>1, <5>1
      <4>3. QED
        BY <1>1, <4>1, <4>2 DEF Levels
    <3>5. QED
      BY <1>3, <3>1, <3>2, <3>3, <3>4
  <2>3. QED
    BY <1>6, <2>1, <2>2 DEF Levels
<1>11. Guarded(x, g, F)
  <2>0. \A i \in DOMAIN x : i \in 1..(Len(x) + 1) /\ i \in Nat
    BY <1>2, <1>3
  <2>1. ASSUME NEW i \in DOMAIN x, x[i].do \in {"link", "card"}
        PROVE  g[i] >= 1
    <3>1. CASE i <= n
      BY <1>7, <1>8, <2>0, <2>1, <3>1 DEF Fits
    <3>2. CASE i > n
      BY <1>1, <1>7, <1>8, <2>0, <2>1, <3>2 DEF Guarded
    <3>3. QED
      BY <1>3, <2>0, <3>1, <3>2
  <2>2. ASSUME NEW j \in DOMAIN x, x[j].do \in Hides, NEW i \in 1..j
        PROVE  g[i] >= 1 /\ (i < j => BeforeHides(x[i], F))
    <3>0. i \in DOMAIN x /\ i \in Nat /\ j \in Nat /\ i <= j
      BY <1>2, <1>3
    <3>1. CASE j <= n
      <4>1. v[j].do \in Hides /\ j \in DOMAIN v /\ i <= n
        BY <1>3, <1>8, <2>2, <3>0, <3>1
      <4>2. d + u >= 1 /\ (i < j => BeforeHides(v[i], F))
        BY <4>1 DEF Fits
      <4>3. QED
        BY <1>7, <1>8, <2>0, <3>0, <4>1, <4>2
    <3>2. CASE j > n
      <4>1. w[j - n].do \in Hides /\ j - n \in DOMAIN w
        BY <1>8, <2>2, <3>2
      <4>2. \A k \in 1..(j - n) : f[k] >= 1 /\ (k < j - n => BeforeHides(w[k], F))
        BY <1>1, <4>1 DEF Guarded
      <4>3. \A k \in DOMAIN v : BeforeHides(v[k], F)
        BY <4>1 DEF NoHides
      <4>4. CASE i <= n
        <5>1. 1 \in 1..(j - n)
          BY <1>3, <3>0, <3>2
        <5>2. d >= 1
          BY <1>1, <4>2, <5>1
        <5>3. g[i] = d + u /\ x[i] = v[i] /\ i \in DOMAIN v
          BY <1>7, <1>8, <2>0, <3>0, <4>4
        <5>4. d + u >= 1
          BY <1>4, <5>2
        <5>5. QED
          BY <4>3, <5>3, <5>4
      <4>5. CASE i > n
        <5>1. g[i] = f[i - n] /\ x[i] = w[i - n]
          BY <1>7, <1>8, <2>0, <3>0, <4>5
        <5>2. i - n \in 1..(j - n) /\ (i < j => i - n < j - n)
          BY <1>3, <3>0, <4>5
        <5>3. QED
          BY <4>2, <5>1, <5>2
      <4>6. QED
        BY <1>3, <3>0, <4>4, <4>5
    <3>3. QED
      BY <1>3, <3>0, <3>1, <3>2
  <2>3. QED
    BY <2>1, <2>2 DEF Guarded
<1>12. QED
  BY <1>9, <1>10, <1>11 DEF Level, x

-----------------------------------------------------------------------------
(* A step of a thread: the first item goes and v takes its place; when v   *)
(* ends with an unlock (u = 1) the thread locks the mutex.                 *)

LEMMA NamesStay ==
  ASSUME machine' = machine
  PROVE  /\ AirCards' = AirCards /\ ImCards' = ImCards /\ Dags' = Dags /\ Bound' = Bound /\ Ndis' = Ndis
         /\ MacNames' = MacNames /\ FireWire' = FireWire /\ (NamesDiffer => NamesDiffer')
<1>1. MacNames' = MacNames
  BY MachineStays
<1>2. /\ AirCards' = AirCards /\ ImCards' = ImCards /\ Dags' = Dags /\ Bound' = Bound
      /\ FireWire' = FireWire /\ \A i : IsFireWire(i)' <=> IsFireWire(i)
  BY DEF AirCards, ImCards, Dags, Bound, FireWire, IsFireWire
<1>3. Ndis' = Ndis
  BY <1>1, <1>2 DEF Ndis
<1>4. NamesDiffer => NamesDiffer'
  BY <1>1, <1>2, <1>3 DEF NamesDiffer
<1>5. QED
  BY <1>1, <1>2, <1>3, <1>4

LEMMA MutexMoves ==
  ASSUME DllInv, MutexHeld, machine' = machine, NEW t \in Threads, NEW s, th' = [th EXCEPT ![t] = s],
         NEW e, Level(s.work, e, FireWire),
         \/ mutex' = mutex /\ e = Depth(mutex, t)
         \/ Lock(t) /\ e = Depth(mutex, t) + 1
         \/ mutex' = Released /\ mutex.owner = t /\ e + 1 = mutex.depth /\ e \in Nat
  PROVE  MutexHeld'
<1>1. FireWire' = FireWire /\ DOMAIN th = Threads /\ NoOne \notin Threads
  BY NamesStay, ThreadsAssumption DEF DllInv, DllTypes
<1>2. th'[t] = s /\ \A q \in Threads \ {t} : th'[q] = th[q]
  BY <1>1
<1>3. /\ mutex'.depth \in Nat /\ (mutex'.owner = NoOne => mutex'.depth = 0)
      /\ (mutex'.depth = 0 => mutex'.owner = NoOne)
      /\ Depth(mutex', t) = e /\ \A q \in Threads \ {t} : Depth(mutex', q) = Depth(mutex, q)
  <2>0. mutex.depth \in Nat /\ (mutex.owner = NoOne <=> mutex.depth = 0)
    BY DEF MutexHeld
  <2>1. CASE mutex' = mutex /\ e = Depth(mutex, t)
    BY <2>0, <2>1
  <2>2. CASE Lock(t) /\ e = Depth(mutex, t) + 1
    <3>1. mutex' = [owner |-> t, depth |-> mutex.depth + 1] /\ mutex.owner \in {NoOne, t}
      BY <2>2 DEF Lock, CanLock
    <3>2. mutex'.owner = t /\ mutex'.depth = mutex.depth + 1
      BY <3>1
    <3>3. Depth(mutex', t) = e
      BY <1>1, <2>0, <2>2, <3>1, <3>2 DEF Depth
    <3>4. \A q \in Threads \ {t} : Depth(mutex', q) = 0 /\ Depth(mutex, q) = 0
      BY <1>1, <3>1, <3>2 DEF Depth
    <3>5. QED
      BY <1>1, <2>0, <3>2, <3>3, <3>4
  <2>3. CASE mutex' = Released /\ mutex.owner = t /\ e + 1 = mutex.depth /\ e \in Nat
    <3>1. CASE mutex.depth = 1
      <4>1. mutex' = [owner |-> NoOne, depth |-> 0]
        BY <2>3, <3>1 DEF Released
      <4>2. QED
        BY <1>1, <2>3, <3>1, <4>1 DEF Depth
    <3>2. CASE mutex.depth # 1
      <4>1. mutex' = [mutex EXCEPT !.depth = @ - 1]
        BY <2>3, <3>2 DEF Released
      <4>2. mutex'.owner = t /\ mutex'.depth = e
        BY <2>3, <4>1
      <4>3. QED
        BY <1>1, <2>3, <3>2, <4>2 DEF Depth
    <3>3. QED
      BY <3>1, <3>2
  <2>4. QED
    BY <2>1, <2>2, <2>3
<1>4. ASSUME NEW q \in Threads
      PROVE  Level(th'[q].work, Depth(mutex', q), FireWire')
  <2>1. CASE q = t
    BY <1>1, <1>2, <1>3, <2>1
  <2>2. CASE q # t
    BY <1>1, <1>2, <1>3, <2>2 DEF MutexHeld
  <2>3. QED
    BY <2>1, <2>2
<1>5. QED
  BY <1>3, <1>4 DEF MutexHeld

Turn(t, v, s) ==
  /\ th' = [th EXCEPT ![t] = s] /\ s.work = v \o Tail(th[t].work) /\ th[t].work # << >> /\ IsList(v)
  /\ machine' = machine

Move(t, v, u, s) ==
  /\ Turn(t, v, s) /\ th[t].work[1].do \notin {"lock", "unlock"} /\ Ends(v, u)
  /\ u = 0 => mutex' = mutex
  /\ u = 1 => Lock(t)

Pushable(t, v, u) ==
  /\ Fits(v, Depth(mutex, t) + u, FireWire)
  /\ (\A i \in DOMAIN v : BeforeHides(v[i], FireWire)) \/ ~BeforeHides(th[t].work[1], FireWire)
  /\ \A i \in DOMAIN v : ItemNames(v[i])

LEMMA WorkIs ==
  ASSUME DllInv, NEW t \in Threads
  PROVE  IsList(th[t].work) /\ Shape(th[t].work) /\ DOMAIN th = Threads
  BY DEF DllInv, DllThread, Shape, DllTypes

LEMMA MoveLevel ==
  ASSUME DllInv, MutexHeld, NEW t \in Threads, NEW v, NEW u, NEW s, Move(t, v, u, s), Pushable(t, v, u)
  PROVE  MutexHeld' /\ Depth(mutex, t) \in Nat
<1> DEFINE w == th[t].work
           d == Depth(mutex, t)
<1>1. IsList(w) /\ w # << >> /\ Level(w, d, FireWire)
  BY WorkIs DEF Move, Turn, MutexHeld
<1>2. d \in Nat
  BY <1>1, LevelIsNat
<1>3. Level(Tail(w), d, FireWire) /\ IsList(Tail(w))
  <2>1. PICK e \in Nat : Level(Tail(w), e, FireWire) /\ Steps(w[1].do, d, e)
    BY <1>1, LevelTail
  <2>2. e = d
    BY <2>1 DEF Steps, Move
  <2>3. QED
    BY <1>1, <2>1, <2>2, ListTail
<1>4. (\A i \in DOMAIN v : BeforeHides(v[i], FireWire)) \/ NoHides(Tail(w))
  BY <1>1, HidesAfter DEF Pushable
<1>5. Level(v \o Tail(w), d + u, FireWire)
  BY <1>3, <1>4, LevelPush DEF Pushable, Move, Turn
<1>6. u \in {0, 1} /\ s.work = v \o Tail(w)
  BY DEF Move, Turn, Ends
<1>7. Level(s.work, d + u, FireWire) /\ machine' = machine /\ th' = [th EXCEPT ![t] = s]
  BY <1>5, <1>6 DEF Move, Turn
<1>8. \/ mutex' = mutex /\ d + u = Depth(mutex, t)
      \/ Lock(t) /\ d + u = Depth(mutex, t) + 1
  BY <1>2, <1>6 DEF Move, Turn
<1> HIDE DEF d
<1>9. MutexHeld'
  BY <1>7, <1>8, MutexMoves
<1>10. QED
  BY <1>2, <1>9 DEF d

LEMMA MoveNames ==
  ASSUME DllInv, NEW t \in Threads, NEW v, NEW s, Turn(t, v, s), (\A i \in DOMAIN v : ItemNames(v[i])),
         \A q \in Threads : Named(th[q]), HeadNamed(s)
  PROVE  \A q \in Threads : Named(th[q])'
<1>2. th'[t] = s /\ \A q \in Threads \ {t} : th'[q] = th[q]
  BY WorkIs DEF Turn
<1>3. Named(s)
  <2> DEFINE w == th[t].work
  <2>1. IsList(w) /\ w # << >> /\ IsList(v) /\ s.work = v \o Tail(w)
    BY WorkIs DEF Turn
  <2>2. IsList(Tail(w)) /\ \A i \in DOMAIN Tail(w) : Tail(w)[i] = w[i + 1] /\ i + 1 \in DOMAIN w
    BY <2>1, ListTail
  <2>3. /\ IsList(v \o Tail(w)) /\ Len(v \o Tail(w)) = Len(v) + Len(Tail(w))
        /\ \A i \in DOMAIN (v \o Tail(w)) : (v \o Tail(w))[i] = IF i <= Len(v) THEN v[i] ELSE Tail(w)[i - Len(v)]
    BY <2>1, <2>2, ListBefore
  <2>4. /\ Len(v) \in Nat /\ DOMAIN v = 1..Len(v) /\ Len(Tail(w)) \in Nat /\ DOMAIN Tail(w) = 1..Len(Tail(w))
        /\ DOMAIN (v \o Tail(w)) = 1..(Len(v) + Len(Tail(w)))
    BY <2>1, <2>2, <2>3, ListIsSeq
  <2>5. ASSUME NEW i \in DOMAIN (v \o Tail(w))
        PROVE  ItemNames((v \o Tail(w))[i])
    <3>1. CASE i <= Len(v)
      BY <2>3, <2>4, <3>1
    <3>2. CASE ~(i <= Len(v))
      <4>1. i - Len(v) \in DOMAIN Tail(w) /\ (v \o Tail(w))[i] = Tail(w)[i - Len(v)]
        BY <2>3, <2>4, <3>2
      <4>2. QED
        BY <2>2, <4>1 DEF Named
    <3>3. QED
      BY <3>1, <3>2
  <2>6. QED
    BY <2>1, <2>5 DEF Named
<1>4. \A q \in Threads : Named(th'[q])
  BY <1>2, <1>3
<1>5. QED
  <2>1. /\ AirCards' = AirCards /\ ImCards' = ImCards /\ Dags' = Dags /\ Bound' = Bound
        /\ MacNames' = MacNames /\ FireWire' = FireWire
    BY NamesStay DEF Turn
  <2>2. QED
    BY <1>4, <2>1 DEF Named, HeadNamed, ItemNames, CardsOf

-----------------------------------------------------------------------------
(* What a step does to what is known of the list.                          *)

LEMMA HoldsMutex ==
  ASSUME DllInv, MutexHeld, NEW q \in Threads,
         \/ Towards(th[q].work, "link")
         \/ th[q].work # << >> /\ th[q].work[1].do = "card"
         \/ \E i \in DOMAIN th[q].work : th[q].work[i].do \in Hides
  PROVE  mutex.owner = q
<1> DEFINE w == th[q].work
<1>1. IsList(w) /\ Shape(w) /\ Level(w, Depth(mutex, q), FireWire)
  BY WorkIs DEF MutexHeld
<1>2. PICK f : Levels(w, f) /\ Guarded(w, f, FireWire) /\ f[1] = Depth(mutex, q)
  BY <1>1 DEF Level
<1>3. Len(w) \in Nat /\ DOMAIN w = 1..Len(w) /\ (w = << >> <=> Len(w) = 0)
  BY <1>1, ListIsSeq
<1> HIDE DEF w
<1>4. f[1] >= 1
  <2>1. ASSUME w # << >>, w[1].do \in {"link", "card"}
        PROVE  f[1] >= 1
    <3>1. 1 \in DOMAIN w
      BY <1>3, <2>1
    <3>2. QED
      BY <1>2, <2>1, <3>1 DEF Guarded
  <2>2. ASSUME w # << >>, w[1].do \in Chain, w[2].do = "link"
        PROVE  f[1] >= 1
    <3>1. After(w[1].do) # Plain
      BY <2>2, Plainly DEF AfterChain, Plain
    <3>2. 1 \in DOMAIN w /\ 2 \in DOMAIN w /\ 1 + 1 = 2
      BY <1>1, <1>3, <2>2, <3>1 DEF Shape
    <3>3. f[2] >= 1
      BY <1>2, <2>2, <3>2 DEF Guarded
    <3>4. Steps(w[1].do, f[1], f[2])
      BY <1>2, <3>2 DEF Levels
    <3>5. f[2] = f[1]
      BY <2>2, <3>4 DEF Steps, Chain
    <3>6. QED
      BY <3>3, <3>5
  <2>3. ASSUME NEW i \in DOMAIN w, w[i].do \in Hides
        PROVE  f[1] >= 1
    <3>1. 1 \in 1..i
      BY <1>3
    <3>2. QED
      BY <1>2, <2>3, <3>1 DEF Guarded
  <2>4. QED
    BY <2>1, <2>2, <2>3 DEF Towards, w
<1>5. QED
  BY <1>2, <1>4 DEF Depth

(* Who could lock the mutex changes the list, or nobody.                   *)
Frame(t) == CanLock(t) \/ (list' = list /\ dll.shown \subseteq dll'.shown)

LEMMA OthersSee ==
  ASSUME DllInv, MutexHeld, NEW t \in Threads, NEW q \in Threads \ {t}, Frame(t), machine' = machine,
         Unlisting(th[q], list, dll.shown), th'[q] = th[q]
  PROVE  Unlisting(th[q], list, dll.shown)'
<1>1. FireWire' = FireWire
  BY NamesStay
<1>2. CASE list' = list /\ dll.shown \subseteq dll'.shown
  BY <1>1, <1>2 DEF Unlisting
<1>3. CASE CanLock(t)
  <2>1. mutex.owner # q
    BY <1>3, ThreadsAssumption DEF CanLock
  <2>2. ~Towards(th[q].work, "link") /\ ~(th[q].work # << >> /\ th[q].work[1].do = "card")
    BY <2>1, HoldsMutex
  <2>3. QED
    BY <1>1, <2>2 DEF Unlisting
<1>4. QED
  BY <1>2, <1>3 DEF Frame

Hiding(x, n) == x.do = "npfs" \/ (x.do = "hide" /\ x.name = n)

Told(t, v) ==
  \A n \in FireWire :
    \/ n \in dll'.shown \/ n \in Names(list') \/ \E i \in DOMAIN v : Hiding(v[i], n)
    \/ /\ n \notin dll.shown /\ n \notin Names(list)
       /\ th[t].work[1].do # "npfs" /\ ~(th[t].work[1].do = "hide" /\ th[t].work[1].name = n)
       /\ (\A i \in DOMAIN v : Harmless(v[i], n)) \/ ~Harmless(th[t].work[1], n)

(* The items of v, and then those of w but the first.                      *)
Places(x, v, w) ==
  /\ \A i \in DOMAIN v : i \in DOMAIN x /\ x[i] = v[i]
  /\ \A i \in DOMAIN w : i # 1 => \E k \in DOMAIN x : x[k] = w[i]
  /\ \A k \in DOMAIN x : \/ k \in DOMAIN v /\ x[k] = v[k]
                         \/ \E i \in DOMAIN w : i # 1 /\ x[k] = w[i]

LEMMA PlacesAfter ==
  ASSUME NEW w, IsList(w), w # << >>, NEW v, IsList(v)
  PROVE  Places(v \o Tail(w), v, w)
<1> DEFINE y == Tail(w)
           x == v \o y
<1>1. /\ IsList(y) /\ Len(y) = Len(w) - 1 /\ \A i \in DOMAIN y : y[i] = w[i + 1] /\ i + 1 \in DOMAIN w
  BY ListTail
<1>2. IsList(x) /\ Len(x) = Len(v) + Len(y) /\ \A i \in DOMAIN x : x[i] = IF i <= Len(v) THEN v[i] ELSE y[i - Len(v)]
  BY <1>1, ListBefore
<1>3. /\ Len(v) \in Nat /\ DOMAIN v = 1..Len(v) /\ Len(w) \in Nat /\ DOMAIN w = 1..Len(w)
      /\ DOMAIN y = 1..(Len(w) - 1) /\ DOMAIN x = 1..(Len(v) + Len(w) - 1) /\ Len(w) # 0
  BY <1>1, <1>2, ListIsSeq
<1> HIDE DEF x, y
<1>4. \A i \in DOMAIN v : i \in DOMAIN x /\ x[i] = v[i]
  BY <1>2, <1>3
<1>5. ASSUME NEW i \in DOMAIN w, i # 1
      PROVE  \E k \in DOMAIN x : x[k] = w[i]
  <2> DEFINE k == Len(v) + (i - 1)
  <2>1. k \in DOMAIN x /\ ~(k <= Len(v)) /\ k - Len(v) = i - 1 /\ i - 1 \in DOMAIN y /\ (i - 1) + 1 = i
    BY <1>3, <1>5
  <2> HIDE DEF k
  <2>2. x[k] = w[i]
    BY <1>1, <1>2, <2>1
  <2>3. QED
    BY <2>1, <2>2
<1>6. ASSUME NEW k \in DOMAIN x
      PROVE  \/ k \in DOMAIN v /\ x[k] = v[k]
             \/ \E i \in DOMAIN w : i # 1 /\ x[k] = w[i]
  <2>1. CASE k <= Len(v)
    BY <1>2, <1>3, <2>1
  <2>2. CASE ~(k <= Len(v))
    <3>1. k - Len(v) \in DOMAIN y /\ x[k] = y[k - Len(v)] /\ (k - Len(v)) + 1 # 1
      BY <1>2, <1>3, <2>2
    <3>2. QED
      BY <1>1, <3>1
  <2>3. QED
    BY <2>1, <2>2
<1>7. QED
  BY <1>4, <1>5, <1>6 DEF x, y, Places

LEMMA MoveTold ==
  ASSUME DllInv, NEW t \in Threads, NEW v, NEW s, Turn(t, v, s), Told(t, v),
         NEW n \in FireWire, Known(n) \/ Untold(n)
  PROVE  (Known(n) \/ Untold(n))'
<1> DEFINE w == th[t].work
<1>1. IsList(w) /\ w # << >> /\ IsList(v) /\ s.work = v \o Tail(w)
  BY WorkIs DEF Turn
<1>2. th'[t] = s /\ \A q \in Threads \ {t} : th'[q] = th[q]
  BY WorkIs DEF Turn
<1>3. /\ \A i \in DOMAIN v : i \in DOMAIN s.work /\ s.work[i] = v[i]
      /\ \A i \in DOMAIN w : i # 1 => \E k \in DOMAIN s.work : s.work[k] = w[i]
      /\ \A k \in DOMAIN s.work : \/ k \in DOMAIN v /\ s.work[k] = v[k]
                                  \/ \E i \in DOMAIN w : i # 1 /\ s.work[k] = w[i]
  <2>1. Places(v \o Tail(w), v, w)
    BY <1>1, PlacesAfter
  <2>2. Places(s.work, v, w)
    BY <1>1, <2>1
  <2>3. QED
    BY <2>2 DEF Places
<1>4. 1 \in DOMAIN w
  <2>1. Len(w) \in Nat /\ DOMAIN w = 1..Len(w) /\ Len(w) # 0
    BY <1>1, ListIsSeq
  <2>2. QED
    BY <2>1
<1>5. CASE n \in dll'.shown \/ n \in Names(list')
  BY <1>5 DEF Known, Names
<1>6. CASE \E i \in DOMAIN v : Hiding(v[i], n)
  <2>1. PICK i \in DOMAIN v : Hiding(v[i], n)
    BY <1>6
  <2>2. i \in DOMAIN th'[t].work /\ Hiding(th'[t].work[i], n)
    BY <1>2, <1>3, <2>1
  <2>3. ToHide(n)'
    BY <2>2 DEF ToHide, Hiding
  <2>4. QED
    BY <2>3 DEF Known
<1>7. CASE /\ n \notin dll.shown /\ n \notin Names(list)
           /\ w[1].do # "npfs" /\ ~(w[1].do = "hide" /\ w[1].name = n)
           /\ (\A i \in DOMAIN v : Harmless(v[i], n)) \/ ~Harmless(w[1], n)
  <2>1. CASE Known(n)
    <3>1. PICK q \in Threads : \E i \in DOMAIN th[q].work :
                                 \/ th[q].work[i].do = "npfs"
                                 \/ th[q].work[i].do = "hide" /\ th[q].work[i].name = n
      BY <1>7, <2>1 DEF Known, ToHide
    <3>2. \E i \in DOMAIN th'[q].work : \/ th'[q].work[i].do = "npfs"
                                        \/ th'[q].work[i].do = "hide" /\ th'[q].work[i].name = n
      <4>1. CASE q # t
        BY <1>2, <3>1, <4>1
      <4>2. CASE q = t
        <5>1. PICK i \in DOMAIN w : w[i].do = "npfs" \/ (w[i].do = "hide" /\ w[i].name = n)
          BY <3>1, <4>2
        <5>2. i # 1
          BY <1>7, <5>1
        <5>3. PICK k \in DOMAIN s.work : s.work[k] = w[i]
          BY <1>3, <5>2
        <5>4. QED
          BY <1>2, <4>2, <5>1, <5>3
      <4>3. QED
        BY <4>1, <4>2
    <3>3. ToHide(n)'
      BY <3>2 DEF ToHide
    <3>4. QED
      BY <3>3 DEF Known
  <2>2. CASE Untold(n)
    <3>1. \A q \in Threads : \A i \in DOMAIN th[q].work : Harmless(th[q].work[i], n)
      BY <2>2 DEF Untold
    <3>2. \A i \in DOMAIN v : Harmless(v[i], n)
      BY <1>4, <1>7, <3>1
    <3>3. \A k \in DOMAIN s.work : Harmless(s.work[k], n)
      BY <1>3, <3>1, <3>2
    <3>4. \A q \in Threads : \A i \in DOMAIN th'[q].work : Harmless(th'[q].work[i], n)
      BY <1>2, <3>1, <3>3
    <3>5. Untold(n)'
      BY <3>4 DEF Untold, Harmless
    <3>6. QED
      BY <3>5
  <2>3. QED
    BY <2>1, <2>2
<1>8. QED
  BY <1>5, <1>6, <1>7 DEF Told

LEMMA MoveList ==
  ASSUME DllInv, MutexHeld, ListHolds, NEW t \in Threads, NEW v, NEW s, Turn(t, v, s),
         Frame(t), Entries', Unlisting(s, list', dll'.shown), Told(t, v)
  PROVE  ListHolds'
<1>1. th'[t] = s /\ machine' = machine /\ \A q \in Threads \ {t} : th'[q] = th[q]
  BY WorkIs DEF Turn
<1>2. FireWire' = FireWire
  BY <1>1, NamesStay
<1>3. \A q \in Threads : Unlisting(th[q], list, dll.shown)'
  <2>1. Unlisting(th[t], list, dll.shown)'
    BY <1>1, <1>2 DEF Unlisting
  <2>2. ASSUME NEW q \in Threads \ {t}
        PROVE  Unlisting(th[q], list, dll.shown)'
    BY <1>1, OthersSee DEF ListHolds
  <2>3. QED
    BY <2>1, <2>2
<1>4. \A n \in FireWire : (Known(n) \/ Untold(n))'
  BY MoveTold DEF ListHolds
<1>5. QED
  BY <1>2, <1>3, <1>4 DEF ListHolds

(* All together.                                                           *)
LEMMA Turns ==
  ASSUME ListInv, DllInv', MutexHeld', NEW t \in Threads, NEW v, NEW s, Turn(t, v, s),
         \A i \in DOMAIN v : ItemNames(v[i]), HeadNamed(s),
         ~dll'.raced => /\ ~dll.raced /\ Frame(t) /\ Entries'
                        /\ Unlisting(s, list', dll'.shown) /\ Told(t, v)
  PROVE  ListInv'
<1>1. DllInv /\ NamesDiffer /\ MutexHeld /\ (\A q \in Threads : Named(th[q])) /\ (~dll.raced => ListHolds)
  BY DEF ListInv
<1>3. \A q \in Threads : Named(th[q])'
  BY <1>1, MoveNames
<1>4. NamesDiffer'
  BY <1>1, NamesStay DEF Turn
<1>5. ASSUME ~dll'.raced
      PROVE  ListHolds'
  BY <1>1, <1>5, MoveList
<1>6. QED
  BY <1>3, <1>4, <1>5 DEF ListInv

LEMMA Moves ==
  ASSUME ListInv, DllInv', NEW t \in Threads, NEW v, NEW u, NEW s, Move(t, v, u, s), Pushable(t, v, u),
         HeadNamed(s),
         ~dll'.raced => /\ ~dll.raced /\ Frame(t) /\ Entries'
                        /\ Unlisting(s, list', dll'.shown) /\ Told(t, v)
  PROVE  ListInv'
<1>1. DllInv /\ MutexHeld
  BY DEF ListInv
<1>2. MutexHeld'
  BY <1>1, MoveLevel
<1>3. Turn(t, v, s) /\ \A i \in DOMAIN v : ItemNames(v[i])
  BY DEF Move, Pushable
<1>4. QED
  BY <1>2, <1>3, Turns

-----------------------------------------------------------------------------
(* Items that have nothing to do with the list.                            *)

Wary == {"link", "card", "event", "shut", "first", "prepend"} \cup Chain

Mild(x) ==
  /\ x.do \notin Wary \cup Hides \cup {"lock", "unlock", "iphs", "iph", "add"}
  /\ ItemNames(x)

LEMMA HeadQuiet ==
  ASSUME NEW r, r.work # << >> => r.work[1].do \notin Wary
  PROVE  HeadNamed(r) /\ \A l, shown : Unlisting(r, l, shown)
  BY DEF HeadNamed, Unlisting, Towards, Wary

LEMMA FirstOf ==
  ASSUME NEW v, IsList(v), NEW w, IsList(w), w # << >>
  PROVE  /\ v # << >> => (v \o Tail(w)) # << >> /\ (v \o Tail(w))[1] = v[1]
         /\ v = << >> => v \o Tail(w) = Tail(w) /\ (Len(w) >= 2 => Tail(w)[1] = w[2])
         /\ Len(v) >= 2 => (v \o Tail(w))[2] = v[2]
         /\ Len(v) = 1 /\ Len(w) >= 2 => (v \o Tail(w))[2] = w[2]
<1> DEFINE y == Tail(w)
           x == v \o y
<1>1. IsList(y) /\ Len(y) = Len(w) - 1 /\ \A i \in DOMAIN y : y[i] = w[i + 1]
  BY ListTail
<1>2. IsList(x) /\ Len(x) = Len(v) + Len(y) /\ \A i \in DOMAIN x : x[i] = IF i <= Len(v) THEN v[i] ELSE y[i - Len(v)]
  BY <1>1, ListBefore
<1>3. /\ Len(v) \in Nat /\ (v = << >> <=> Len(v) = 0) /\ Len(w) \in Nat /\ Len(w) # 0
      /\ DOMAIN y = 1..(Len(w) - 1) /\ DOMAIN x = 1..(Len(v) + Len(w) - 1) /\ (x = << >> <=> Len(x) = 0)
  <2> HIDE DEF x, y
  <2>1. DOMAIN y = 1..Len(y) /\ DOMAIN x = 1..Len(x) /\ (x = << >> <=> Len(x) = 0)
    BY <1>1, <1>2, ListIsSeq
  <2>2. Len(v) \in Nat /\ (v = << >> <=> Len(v) = 0) /\ Len(w) \in Nat /\ Len(w) # 0
    BY ListIsSeq
  <2>3. Len(x) = Len(v) + Len(w) - 1
    BY <1>1, <1>2, <2>2
  <2>4. QED
    BY <1>1, <2>1, <2>2, <2>3
<1>4. v = << >> => x = y
  BY <1>1, NothingBefore
<1> HIDE DEF x, y
<1>5. v # << >> => x # << >> /\ x[1] = v[1]
  <2>1. v # << >> => 1 \in DOMAIN x /\ 1 <= Len(v) /\ Len(x) # 0
    BY <1>1, <1>2, <1>3
  <2>2. QED
    BY <1>2, <1>3, <2>1
<1>6. Len(w) >= 2 => y[1] = w[2]
  <2>1. Len(w) >= 2 => 1 \in DOMAIN y /\ 1 + 1 = 2
    BY <1>3
  <2>2. QED
    BY <1>1, <2>1
<1>7. Len(v) >= 2 => x[2] = v[2]
  <2>1. Len(v) >= 2 => 2 \in DOMAIN x /\ 2 <= Len(v)
    BY <1>3
  <2>2. QED
    BY <1>2, <2>1
<1>8. Len(v) = 1 /\ Len(w) >= 2 => x[2] = w[2]
  <2>1. Len(v) = 1 /\ Len(w) >= 2 => 2 \in DOMAIN x /\ ~(2 <= Len(v)) /\ 2 - Len(v) = 1
    BY <1>3
  <2>2. QED
    BY <1>2, <1>6, <2>1
<1>9. QED
  BY <1>4, <1>5, <1>6, <1>7, <1>8 DEF x, y

(* After any but PacketOpenAdapterNPF nothing wary comes unless it is put  *)
(* there.                                                                  *)
LEMMA HeadAfter ==
  ASSUME NEW w, Shape(w), w # << >>, w[1].do \notin Chain, NEW v, IsList(v),
         v # << >> => v[1].do \notin Wary, NEW s, s.work = v \o Tail(w)
  PROVE  HeadNamed(s) /\ \A l, shown : Unlisting(s, l, shown)
<1>1. IsList(w)
  BY DEF Shape
<1>2. Tail(w) # << >> => Tail(w)[1].do \in After(w[1].do)
  BY Popped
<1>3. \A do \in After(w[1].do) : do \notin Wary
  BY DEF After, Wary, Plain, Chain
<1>4. s.work # << >> => s.work[1].do \notin Wary
  BY <1>1, <1>2, <1>3, FirstOf
<1>5. QED
  BY <1>4, HeadQuiet

(* The list keeps what it names.                                           *)
Grows(t) ==
  ~dll'.raced => /\ ~dll.raced /\ Frame(t) /\ Entries'
                 /\ dll.shown \subseteq dll'.shown /\ Names(list) \subseteq Names(list')

LEMMA Mildly ==
  ASSUME ListInv, DllInv', NEW t \in Threads, NEW do, Doing(t, do),
         do \notin Chain \cup Hides \cup {"lock", "unlock"},
         NEW v, IsList(v), \A i \in DOMAIN v : Mild(v[i]), v = << >> \/ do \notin {"add", "link"},
         NEW s, Turn(t, v, s), mutex' = mutex, Grows(t)
  PROVE  ListInv'
<1>1. DllInv /\ MutexHeld
  BY DEF ListInv
<1>2. /\ th[t].work # << >> /\ Shape(th[t].work) /\ th[t].work[1].do = do
  BY <1>1, AtWork
<1>3. \A i \in DOMAIN v : v[i].do \notin Wary \cup Hides \cup {"lock", "unlock", "iphs", "iph", "add"} /\ ItemNames(v[i])
  BY DEF Mild
<1>4. Len(v) \in Nat /\ DOMAIN v = 1..Len(v) /\ (v = << >> <=> Len(v) = 0)
  BY ListIsSeq
<1>5. Ends(v, 0)
  BY <1>3 DEF Ends
<1>6. Move(t, v, 0, s)
  BY <1>2, <1>5 DEF Move
<1>7. Pushable(t, v, 0)
  <2>1. Fits(v, Depth(mutex, t) + 0, FireWire)
    BY <1>3 DEF Fits, Wary
  <2>2. v = << >> => DOMAIN v = {}
    OBVIOUS
  <2>3. ~BeforeHides(th[t].work[1], FireWire) \/ v = << >>
    BY <1>2 DEF BeforeHides, Hides
  <2>4. QED
    BY <1>3, <2>1, <2>2, <2>3 DEF Pushable
<1>8. v # << >> => v[1].do \notin Wary
  BY <1>3, <1>4
<1>9. HeadNamed(s) /\ Unlisting(s, list', dll'.shown)
  BY <1>2, <1>8, HeadAfter DEF Turn
<1>10. ASSUME ~dll'.raced
       PROVE  Told(t, v)
  <2>1. \A i \in DOMAIN v : \A n : Harmless(v[i], n)
    BY <1>3 DEF Harmless, Wary
  <2>2. dll.shown \subseteq dll'.shown /\ Names(list) \subseteq Names(list')
    BY <1>10 DEF Grows
  <2>3. QED
    BY <1>2, <2>1, <2>2 DEF Told, Hides
<1>11. QED
  BY <1>6, <1>7, <1>9, <1>10, Moves DEF Grows

LEMMA EntriesStay ==
  ASSUME machine' = machine, list' = list, dll.shown \subseteq dll'.shown, Entries
  PROVE  Entries'
<1>1. AirCards' = AirCards /\ ImCards' = ImCards /\ FireWire' = FireWire
  BY NamesStay
<1>2. Unlisted("dag")' = Unlisted("dag")
  BY DEF Unlisted
<1>3. QED
  BY <1>1, <1>2 DEF Entries

LEMMA SameList ==
  ASSUME ListInv, machine' = machine, list' = list, dll.shown \subseteq dll'.shown,
         ~dll'.raced => ~dll.raced, NEW t
  PROVE  Grows(t)
<1>1. ASSUME ~dll'.raced
      PROVE  Entries
  BY <1>1 DEF ListInv, ListHolds
<1>2. QED
  BY <1>1, EntriesStay DEF Grows, Frame

MildList(v) == IsList(v) /\ \A i \in DOMAIN v : Mild(v[i])

LEMMA MildTuples ==
  /\ MildList(<< >>)
  /\ \A x : Mild(x) => MildList(<<x>>)
  /\ \A x, y : Mild(x) /\ Mild(y) => MildList(<<x, y>>)
<1>1. \A x, y : IsList(<< >>) /\ IsList(<<x>>) /\ IsList(<<x, y>>)
  BY TupleList
<1>2. DOMAIN << >> = {} /\ \A x, y : /\ DOMAIN <<x>> = {1} /\ DOMAIN <<x, y>> = {1, 2}
                                    /\ <<x>>[1] = x /\ <<x, y>>[1] = x /\ <<x, y>>[2] = y
  OBVIOUS
<1>3. MildList(<< >>)
  BY <1>1, <1>2 DEF MildList
<1>4. \A x : Mild(x) => MildList(<<x>>)
  BY <1>1, <1>2 DEF MildList
<1>5. ASSUME NEW x, NEW y, Mild(x), Mild(y)
      PROVE  MildList(<<x, y>>)
  <2>1. \A i \in DOMAIN <<x, y>> : Mild(<<x, y>>[i])
    BY <1>2, <1>5
  <2>2. QED
    BY <1>1, <2>1 DEF MildList
<1>6. QED
  BY <1>3, <1>4, <1>5

LEMMA MildDo ==
  /\ \A do, n : do \in {"populate", "look", "update", "find", "wait", "asked", "tick", "send", "control", "done", "airs",
                        "ims", "dags", "dag", "fake", "dagfile", "openfile", "open", "others"} => Mild(Do(do, n))
  /\ \A n \in AirCards : Mild(Do("air", n))
  /\ \A n \in ImCards : Mild(Do("im", n))
  /\ \A n \in Dags : Mild(Do("dagcard", n)) /\ Mild(Do("daglink", n))
<1>1. \A x, y : Do(x, y).do = x /\ Do(x, y).name = y
  BY DoIs
<1>2. QED
  BY <1>1 DEF Mild, ItemNames, Wary, Hides, Chain

MildGo(t, do, v) ==
  /\ Doing(t, do) /\ do \notin Chain \cup Hides \cup {"lock", "unlock"}
  /\ MildList(v) /\ (v = << >> \/ do \notin {"add", "link"})
  /\ UNCHANGED <<machine, mutex>> /\ Grows(t)

LEMMA TurnTo ==
  ASSUME DllInv, NEW t \in Threads, NEW do, Doing(t, do), machine' = machine, NEW v, IsList(v), NEW s,
         NEW x, NEW b \in BOOLEAN,
         s \in {Then(t, v), [Then(t, v) EXCEPT !.ok = x], [Then(t, v) EXCEPT !.found = x],
                [Then(t, v) EXCEPT !.seen = x], [Then(t, v) EXCEPT !.file = b]},
         Becomes(t, s)
  PROVE  Turn(t, v, s)
<1>1. ThreadFields(th[t]) /\ th[t].work # << >>
  BY AtWork
<1>2. LET w == v \o Tail(th[t].work)
      IN /\ NextRecord(th[t], Then(t, v), w) /\ NextRecord(th[t], [Then(t, v) EXCEPT !.ok = x], w)
         /\ NextRecord(th[t], [Then(t, v) EXCEPT !.found = x], w)
         /\ NextRecord(th[t], [Then(t, v) EXCEPT !.seen = x], w)
         /\ NextRecord(th[t], [Then(t, v) EXCEPT !.file = b], w)
  BY <1>1, ThenNext
<1>3. s.work = v \o Tail(th[t].work)
  BY <1>2 DEF NextRecord
<1>4. QED
  BY <1>1, <1>3 DEF Turn, Becomes

LEMMA MildGoes ==
  ASSUME ListInv, DllInv', NEW t \in Threads, NEW do, NEW v, MildGo(t, do, v), NEW x,
         \/ Goes(t, v) \/ Becomes(t, [Then(t, v) EXCEPT !.ok = x])
         \/ Becomes(t, [Then(t, v) EXCEPT !.found = x]) \/ Becomes(t, [Then(t, v) EXCEPT !.seen = x])
  PROVE  ListInv'
<1>1. PICK s \in {Then(t, v), [Then(t, v) EXCEPT !.ok = x], [Then(t, v) EXCEPT !.found = x],
                  [Then(t, v) EXCEPT !.seen = x], [Then(t, v) EXCEPT !.file = TRUE]} : Becomes(t, s)
  BY DEF Goes
<1>2. DllInv /\ Doing(t, do) /\ machine' = machine /\ IsList(v) /\ TRUE \in BOOLEAN
  BY DEF ListInv, MildGo, MildList
<1>3. Turn(t, v, s)
  BY <1>1, <1>2, TurnTo
<1>4. QED
  BY <1>2, <1>3, Mildly DEF MildGo, MildList

(* Nothing is done to the list.                                            *)
LeavesList == UNCHANGED <<machine, list, mutex>> /\ dll'.raced = dll.raced /\ dll'.shown = dll.shown

LEMMA GoesOn ==
  ASSUME ListInv, DllInv', NEW t \in Threads, NEW do, Doing(t, do),
         do \notin Chain \cup Hides \cup {"lock", "unlock"}, LeavesList, NEW v, MildList(v),
         v = << >> \/ do \notin {"add", "link"}, NEW x,
         \/ Goes(t, v) \/ Becomes(t, [Then(t, v) EXCEPT !.ok = x])
         \/ Becomes(t, [Then(t, v) EXCEPT !.found = x]) \/ Becomes(t, [Then(t, v) EXCEPT !.seen = x])
  PROVE  ListInv'
<1>1. Grows(t)
  BY SameList DEF LeavesList
<1>2. MildGo(t, do, v)
  BY <1>1 DEF MildGo, LeavesList
<1>3. QED
  BY <1>2, MildGoes

LEMMA DllFields ==
  ASSUME DllInv, NEW x
  PROVE  /\ [dll EXCEPT !.loaded = x].raced = dll.raced /\ [dll EXCEPT !.loaded = x].shown = dll.shown
         /\ [dll EXCEPT !.gone = x].raced = dll.raced /\ [dll EXCEPT !.gone = x].shown = dll.shown
         /\ [dll EXCEPT !.leaked = x].raced = dll.raced /\ [dll EXCEPT !.leaked = x].shown = dll.shown
         /\ [dll EXCEPT !.raced = x].raced = x /\ [dll EXCEPT !.raced = x].shown = dll.shown
         /\ [dll EXCEPT !.shown = x].raced = dll.raced /\ [dll EXCEPT !.shown = x].shown = x
<1>1. {"loaded", "gone", "leaked", "raced", "shown"} = DOMAIN dll
  BY DEF DllInv, DllTypes
<1>2. QED
  BY <1>1

LEMMA OpenSteps ==
  ASSUME ListInv, DllInv', NEW t \in Threads, machine' = machine,
         \/ UpdateWhenMissing(t) \/ KeepNPF(t) \/ PacketOpenAdapterWanPacket(t) \/ PacketOpenAdapterAirpcap(t)
         \/ PacketOpenAdapterNpfIm(t) \/ PacketOpenAdapterDAG(t) \/ GetReadEvent(t)
         \/ OpenDagFile(t) \/ PacketCloseAdapter(t)
  PROVE  ListInv'
<1>1. LeavesList
  BY DEF UpdateWhenMissing, KeepNPF, PacketOpenAdapterWanPacket, PacketOpenAdapterAirpcap,
     PacketOpenAdapterNpfIm, PacketOpenAdapterDAG, GetReadEvent, OpenDagFile, PacketCloseAdapter, OpensByLibrary,
     KeepAdapters, LeavesList
<1>2. /\ MildList(<< >>) /\ \A n, m : MildList(<<Do("update", n), Do("find", m)>>) /\ MildList(<<Do("wait", n)>>)
  BY MildTuples, MildDo
<1>3. PICK do \in {"missing", "keep", "open", "wait", "openfile", "shutad"} : Doing(t, do) /\
        \/ Goes(t, << >>) \/ Goes(t, <<Do("wait", "air")>>) \/ Goes(t, <<Do("wait", "im")>>)
        \/ Goes(t, <<Do("update", Arg(t)), Do("find", Arg(t))>>)
  BY DEF UpdateWhenMissing, KeepNPF, PacketOpenAdapterWanPacket, PacketOpenAdapterAirpcap,
     PacketOpenAdapterNpfIm, PacketOpenAdapterDAG, GetReadEvent, OpenDagFile, PacketCloseAdapter, OpensByLibrary
<1>4. do \notin Chain \cup Hides \cup {"lock", "unlock", "add", "link"}
  BY DEF Chain, Hides
<1>5. QED
  BY <1>1, <1>2, <1>3, <1>4, GoesOn

LEMMA CallSteps ==
  ASSUME ListInv, DllInv', NEW t \in Threads, machine' = machine, CallNext(t)
  PROVE  ListInv'
<1>1. LeavesList
  BY DEF CallNext, Ask, Answered, PacketSendPackets, WaitForTarget, PacketStopDriver, KeepAdapters, LeavesList
<1>2. /\ MildList(<< >>) /\ \A n, m : MildList(<<Do("tick", n), Do("send", m)>>) /\ MildList(<<Do("asked", n)>>)
                                     /\ MildList(<<Do("control", n), Do("done", m)>>)
  BY MildTuples, MildDo
<1>3. PICK do \in {"ask", "asked", "send", "tick", "stop", "control", "done"} : Doing(t, do) /\
        \/ Goes(t, << >>) \/ Goes(t, <<Do("tick", "due"), Do("send", "one")>>)
        \/ Goes(t, <<Do("tick", "due"), Do("send", Arg(t))>>)
        \/ Goes(t, <<Do("control", "svc"), Do("done", "svc")>>)
        \/ \E who : Goes(t, <<Do("asked", who)>>)
  BY DEF CallNext, Ask, Answered, PacketSendPackets, WaitForTarget, PacketStopDriver
<1>4. do \notin Chain \cup Hides \cup {"lock", "unlock", "add", "link"}
  BY DEF Chain, Hides
<1>5. QED
  BY <1>1, <1>2, <1>3, <1>4, GoesOn

LEMMA FindSteps ==
  ASSUME ListInv, DllInv', NEW t \in Threads, machine' = machine,
         PacketFindAdInfo(t) \/ LookAtList(t) \/ PacketLoadLibrariesDynamically(t)
  PROVE  ListInv'
<1>1. LeavesList
  <2>1. dll' = dll \/ dll' = [dll EXCEPT !.loaded = TRUE]
    BY DEF PacketFindAdInfo, LookAtList, PacketLoadLibrariesDynamically, KeepAdapters
  <2>2. UNCHANGED <<machine, list, mutex>>
    BY DEF PacketFindAdInfo, LookAtList, PacketLoadLibrariesDynamically
  <2>3. dll'.raced = dll.raced /\ dll'.shown = dll.shown
    <3>1. DllInv
      BY DEF ListInv
    <3>2. [dll EXCEPT !.loaded = TRUE].raced = dll.raced /\ [dll EXCEPT !.loaded = TRUE].shown = dll.shown
      BY <3>1, DllFields
    <3>3. QED
      BY <2>1, <3>2
  <2>4. QED
    BY <2>2, <2>3 DEF LeavesList
<1>2. MildList(<< >>) /\ \A n, m : MildList(<<Do("populate", n), Do("look", m)>>)
  BY MildTuples, MildDo
<1>3. PICK do \in {"find", "look", "load"} : Doing(t, do) /\
        \/ Goes(t, << >>) \/ Goes(t, <<Do("populate", "all"), Do("look", Arg(t))>>)
        \/ Becomes(t, [Then(t, << >>) EXCEPT !.found = FirstFlag(Arg(t))])
  BY DEF PacketFindAdInfo, LookAtList, PacketLoadLibrariesDynamically
<1>4. do \notin Chain \cup Hides \cup {"lock", "unlock", "add", "link"}
  BY DEF Chain, Hides
<1>5. QED
  BY <1>1, <1>2, <1>3, <1>4, GoesOn

LEMMA EachMild ==
  ASSUME NEW what, NEW names, IsList(names), \A i \in DOMAIN names : Mild(Do(what, names[i]))
  PROVE  MildList(Each(what, names))
<1> DEFINE v == Each(what, names)
<1>1. v = [i \in DOMAIN names |-> v[i]] /\ \A i \in DOMAIN names : v[i] = Do(what, names[i])
  BY DEF Each
<1> HIDE DEF v
<1>2. IsList(v) /\ DOMAIN v = DOMAIN names
  BY <1>1, MappedList
<1>3. QED
  BY <1>1, <1>2 DEF MildList, v

LEMMA CardLists ==
  ASSUME ListInv, DllInv', NEW t \in Threads, machine' = machine,
         PacketGetAdaptersAirpcap(t) \/ PacketGetAdaptersNpfIm(t) \/ PacketGetAdaptersDag(t)
  PROVE  ListInv'
<1>1. LeavesList
  BY DEF PacketGetAdaptersAirpcap, PacketGetAdaptersNpfIm, PacketGetAdaptersDag, GetAdapters, KeepAdapters, LeavesList
<1>2. MildList(<< >>) /\ MildList(Each("air", machine.air)) /\ MildList(Each("im", machine.im))
      /\ MildList(Each("dag", machine.dag))
  <2>1. IsList(machine.air) /\ IsList(machine.im) /\ IsList(machine.dag)
    BY DEF ListInv, DllInv, DllTypes, MachineLists
  <2>2. /\ \A i \in DOMAIN machine.air : Mild(Do("air", machine.air[i]))
        /\ \A i \in DOMAIN machine.im : Mild(Do("im", machine.im[i]))
        /\ \A i \in DOMAIN machine.dag : Mild(Do("dag", machine.dag[i]))
    BY MildDo DEF AirCards, ImCards
  <2>3. QED
    BY <2>1, <2>2, EachMild, MildTuples
<1>3. PICK do \in {"airs", "ims", "dags"} : Doing(t, do) /\
        \/ Goes(t, << >>) \/ Goes(t, Each("air", machine.air)) \/ Goes(t, Each("im", machine.im))
        \/ Goes(t, Each("dag", machine.dag))
  BY DEF PacketGetAdaptersAirpcap, PacketGetAdaptersNpfIm, PacketGetAdaptersDag, GetAdapters
<1>4. do \notin Chain \cup Hides \cup {"lock", "unlock", "add", "link"}
  BY DEF Chain, Hides
<1>5. QED
  BY <1>1, <1>2, <1>3, <1>4, GoesOn

LEMMA DagSteps ==
  ASSUME ListInv, DllInv', NEW t \in Threads, machine' = machine, PacketAddAdapterDag(t)
  PROVE  ListInv'
<1>1. LeavesList
  BY DEF PacketAddAdapterDag, LeavesList
<1>2. PICK do \in {"dag", "dagfile"}, link \in {"dagcard", "daglink"} : Doing(t, do) /\ AddDag(t, link)
  BY DEF PacketAddAdapterDag
<1>3. do \notin Chain \cup Hides \cup {"lock", "unlock", "add", "link"}
  BY DEF Chain, Hides
<1>4. \/ Arg(t) \in Dags /\ Becomes(t, [Then(t, <<Do(link, Arg(t))>>) EXCEPT !.ok = TRUE])
      \/ Becomes(t, [Then(t, << >>) EXCEPT !.ok = FALSE])
  BY <1>2 DEF AddDag, DagOpens, Dags
<1>5. MildList(<< >>) /\ (Arg(t) \in Dags => MildList(<<Do(link, Arg(t))>>))
  BY MildTuples, MildDo
<1>6. QED
  BY <1>1, <1>2, <1>3, <1>4, <1>5, GoesOn

-----------------------------------------------------------------------------
(* What is added to the list.                                              *)

LEMMA Prepended ==
  ASSUME Entries, machine' = machine, dll'.shown = dll.shown, NEW n, NEW flag, Prepend(n, flag),
         n \in AirCards => flag = "air", n \in ImCards => flag = "im",
         n \in FireWire \ dll.shown => flag = "hidden", Library(flag) = "dag" \/ n \notin Names(list)
  PROVE  Entries' /\ Names(list) \subseteq Names(list') /\ n \in Names(list')
<1> DEFINE e == Entry(n, flag)
<1>1. AirCards' = AirCards /\ ImCards' = ImCards /\ FireWire' = FireWire
  BY NamesStay
<1>2. list' = <<e>> \o list /\ e.name = n /\ e.flag = flag /\ e = Entry(e.name, e.flag)
  BY DEF Prepend, Entry
<1>3. IsList(<<e>>) /\ Len(<<e>>) = 1 /\ <<e>>[1] = e
  BY TupleList
<1>4. /\ IsList(list)
      /\ \A i \in DOMAIN list :
           /\ list[i] = Entry(list[i].name, list[i].flag)
           /\ list[i].name \in AirCards => list[i].flag = "air"
           /\ list[i].name \in ImCards => list[i].flag = "im"
           /\ list[i].name \in FireWire \ dll.shown => list[i].flag = "hidden"
      /\ \A i, j \in Unlisted("dag") : i # j => list[i].name # list[j].name
  BY DEF Entries
<1> HIDE DEF e
<1>5. /\ IsList(list') /\ Len(list') = 1 + Len(list)
      /\ \A i \in DOMAIN list' : list'[i] = IF i <= 1 THEN <<e>>[i] ELSE list[i - 1]
  BY <1>2, <1>3, <1>4, ListBefore
<1>6. Len(list) \in Nat /\ DOMAIN list = 1..Len(list) /\ DOMAIN list' = 1..Len(list')
  BY <1>4, <1>5, ListIsSeq
<1>7. 1 \in DOMAIN list' /\ list'[1] = e
  <2>1. 1 \in DOMAIN list' /\ 1 <= 1
    BY <1>5, <1>6
  <2>2. QED
    BY <1>3, <1>5, <2>1
<1>8. \A i \in DOMAIN list' : i # 1 => i - 1 \in DOMAIN list /\ list'[i] = list[i - 1]
  BY <1>5, <1>6
<1>9. \A i \in DOMAIN list : i + 1 \in DOMAIN list' /\ list'[i + 1] = list[i]
  <2> SUFFICES ASSUME NEW i \in DOMAIN list
               PROVE  i + 1 \in DOMAIN list' /\ list'[i + 1] = list[i]
    OBVIOUS
  <2>1. i + 1 \in DOMAIN list' /\ ~(i + 1 <= 1) /\ (i + 1) - 1 = i
    BY <1>5, <1>6
  <2>2. QED
    BY <1>5, <2>1
<1>10. n \in Names(list') /\ Names(list) \subseteq Names(list')
  <2>1. n \in Names(list')
    BY <1>2, <1>7 DEF Names
  <2>2. ASSUME NEW i \in DOMAIN list
        PROVE  list[i].name \in Names(list')
    BY <1>9 DEF Names
  <2>3. QED
    BY <2>1, <2>2 DEF Names
<1>11. ASSUME NEW i \in DOMAIN list'
       PROVE  /\ list'[i] = Entry(list'[i].name, list'[i].flag)
              /\ list'[i].name \in AirCards => list'[i].flag = "air"
              /\ list'[i].name \in ImCards => list'[i].flag = "im"
              /\ list'[i].name \in FireWire \ dll.shown => list'[i].flag = "hidden"
  <2>1. CASE i = 1
    BY <1>2, <1>7, <2>1
  <2>2. CASE i # 1
    BY <1>4, <1>8, <2>2
  <2>3. QED
    BY <2>1, <2>2
<1>12. ASSUME NEW i \in DOMAIN list', NEW j \in DOMAIN list', i # j,
              Library(list'[i].flag) # "dag", Library(list'[j].flag) # "dag"
       PROVE  list'[i].name # list'[j].name
  <2>1. \A k \in DOMAIN list : list[k].name \in Names(list)
    BY DEF Names
  <2>2. CASE i = 1
    BY <1>2, <1>7, <1>8, <1>12, <2>1, <2>2
  <2>3. CASE j = 1
    BY <1>2, <1>7, <1>8, <1>12, <2>1, <2>3
  <2>4. CASE i # 1 /\ j # 1
    <3>1. i - 1 # j - 1
      BY <1>6, <1>12
    <3>2. i - 1 \in Unlisted("dag") /\ j - 1 \in Unlisted("dag")
      BY <1>8, <1>12, <2>4 DEF Unlisted
    <3>3. QED
      BY <1>4, <1>8, <2>4, <3>1, <3>2
  <2>5. QED
    BY <2>2, <2>3, <2>4
<1>13. QED
  BY <1>1, <1>5, <1>10, <1>11, <1>12 DEF Entries, Unlisted

LEMMA NotHidden ==
  ASSUME DllInv, MutexHeld, NEW t \in Threads, CanLock(t), NEW n \in FireWire, Known(n) \/ Untold(n),
         th[t].work # << >>, ~Harmless(th[t].work[1], n), ~BeforeHides(th[t].work[1], FireWire),
         th[t].work[1].do \notin Hides, n \notin Names(list)
  PROVE  n \in dll.shown
<1> DEFINE w == th[t].work
<1>1. IsList(w) /\ w # << >> /\ Level(w, Depth(mutex, t), FireWire)
  BY WorkIs DEF MutexHeld
<1>2. Len(w) \in Nat /\ DOMAIN w = 1..Len(w) /\ 1 \in DOMAIN w
  <2>1. Len(w) \in Nat /\ DOMAIN w = 1..Len(w) /\ Len(w) # 0
    BY <1>1, ListIsSeq
  <2>2. QED
    BY <2>1
<1>3. Known(n)
  BY <1>2 DEF Untold
<1>4. ASSUME ToHide(n)
      PROVE  FALSE
  <2>1. PICK q \in Threads : \E i \in DOMAIN th[q].work : th[q].work[i].do \in Hides
    BY <1>4 DEF ToHide, Hides
  <2>2. mutex.owner = q
    BY <2>1, HoldsMutex
  <2>3. q = t
    BY <2>2, ThreadsAssumption DEF CanLock
  <2>4. NoHides(Tail(w))
    BY <1>1, HidesAfter
  <2>5. PICK i \in DOMAIN w : w[i].do \in Hides
    BY <2>1, <2>3
  <2>6. i # 1
    BY <2>5
  <2>7. IsList(Tail(w)) /\ Len(Tail(w)) = Len(w) - 1 /\ \A k \in DOMAIN Tail(w) : Tail(w)[k] = w[k + 1]
    BY <1>1, ListTail
  <2>8. DOMAIN Tail(w) = 1..(Len(w) - 1)
    BY <2>7, ListIsSeq
  <2>9. i - 1 \in DOMAIN Tail(w) /\ (i - 1) + 1 = i
    BY <1>2, <2>6, <2>8
  <2>10. QED
    BY <2>4, <2>5, <2>7, <2>9 DEF NoHides
<1>5. QED
  BY <1>3, <1>4 DEF Known

(* What is added under the mutex, or with it at hand.                      *)
LEMMA GrowsBy ==
  ASSUME ListInv, machine' = machine, dll' = dll, NEW t, NEW n, NEW flag,
         \/ list' = list
         \/ /\ Prepend(n, flag) /\ CanLock(t)
            /\ ~dll.raced => /\ n \in AirCards => flag = "air"
                             /\ n \in ImCards => flag = "im"
                             /\ n \in FireWire \ dll.shown => flag = "hidden"
                             /\ Library(flag) = "dag" \/ n \notin Names(list)
  PROVE  Grows(t)
<1>1. CASE list' = list
  BY <1>1, SameList
<1>2. ASSUME Prepend(n, flag), CanLock(t), ~dll.raced,
             n \in AirCards => flag = "air", n \in ImCards => flag = "im",
             n \in FireWire \ dll.shown => flag = "hidden", Library(flag) = "dag" \/ n \notin Names(list)
      PROVE  Grows(t)
  <2>1. Entries
    BY <1>2 DEF ListInv, ListHolds
  <2>2. Entries' /\ Names(list) \subseteq Names(list')
    BY <1>2, <2>1, Prepended
  <2>3. QED
    BY <1>2, <2>2 DEF Grows, Frame
<1>3. CASE dll.raced
  BY <1>3 DEF Grows
<1>4. QED
  BY <1>1, <1>2, <1>3

LEMMA FireWireIsNdis ==
  FireWire \subseteq Ndis
<1>1. ASSUME NEW i \in DOMAIN machine.class
      PROVE  machine.class[i].name \in Ndis
  BY DEF Ndis
<1>2. QED
  BY <1>1 DEF FireWire

LEMMA FakeSteps ==
  ASSUME ListInv, DllInv', NEW t \in Threads, machine' = machine, PacketAddFakeNdisWanAdapter(t)
  PROVE  ListInv'
<1>1. /\ Doing(t, "fake") /\ UNCHANGED <<machine, mutex>> /\ dll' = dll /\ Goes(t, << >>)
      /\ list' = list \/ (CanLock(t) /\ FakeWan \notin Names(list) /\ Prepend(FakeWan, "wan"))
  BY DEF PacketAddFakeNdisWanAdapter, KeepAdapters, Listed
<1>2. FakeWan \notin AirCards /\ FakeWan \notin ImCards /\ FakeWan \notin FireWire
  BY DEF ListInv, NamesDiffer
<1>3. Grows(t)
  BY <1>1, <1>2, GrowsBy
<1>4. MildGo(t, "fake", << >>)
  BY <1>1, <1>3, MildTuples DEF MildGo, Chain, Hides
<1>5. QED
  BY <1>1, <1>4, MildGoes

LEMMA LinkCardSteps ==
  ASSUME ListInv, DllInv', NEW t \in Threads, machine' = machine, LinkCard(t)
  PROVE  ListInv'
<1> DEFINE w == th[t].work
           n == w[2].name
           lib == Arg(t)
<1>1. /\ Doing(t, "card") /\ UNCHANGED <<machine, mutex>> /\ dll' = dll /\ Goes(t, << >>)
      /\ list' = list \/ Prepend(n, lib)
  BY DEF LinkCard
<1>2. DllInv /\ MutexHeld /\ NamesDiffer /\ Named(th[t]) /\ (~dll.raced => Unlisting(th[t], list, dll.shown))
  BY DEF ListInv, ListHolds
<1>3. w # << >> /\ w[1].do = "card" /\ lib = w[1].name /\ lib \in {"air", "im"}
  BY <1>1, <1>2, AtWork DEF AtItem
<1>4. n \in CardsOf(lib) /\ (~dll.raced => n \notin Names(list))
  BY <1>2, <1>3 DEF Named, HeadNamed, Unlisting
<1>5. CanLock(t)
  BY <1>2, <1>3, HoldsMutex DEF CanLock
<1> HIDE DEF w, n, lib
<1>6. n \notin FireWire
  BY <1>2, <1>3, <1>4, FireWireIsNdis DEF NamesDiffer, CardsOf
<1>7. (n \in AirCards => lib = "air") /\ (n \in ImCards => lib = "im")
  BY <1>2, <1>3, <1>4 DEF NamesDiffer, CardsOf
<1>8. Grows(t)
  BY <1>1, <1>4, <1>5, <1>6, <1>7, GrowsBy
<1>9. MildGo(t, "card", << >>)
  BY <1>1, <1>8, MildTuples DEF MildGo, Chain, Hides
<1>10. QED
  BY <1>1, <1>9, MildGoes

LEMMA LinkDagSteps ==
  ASSUME ListInv, DllInv', NEW t \in Threads, machine' = machine, LinkDag(t)
  PROVE  ListInv'
<1> DEFINE n == Arg(t)
<1>1. PICK do \in {"dagcard", "daglink"}, flag \in {"dag", "dagfile"} :
        /\ Doing(t, do) /\ UNCHANGED <<machine, mutex>> /\ dll' = dll /\ Goes(t, << >>)
        /\ CanLock(t) /\ Prepend(n, flag)
  BY DEF LinkDag
<1>2. DllInv /\ NamesDiffer /\ Named(th[t])
  BY DEF ListInv
<1>3. n \in Dags
  <2>1. th[t].work # << >> /\ Shape(th[t].work) /\ th[t].work[1].do = do /\ n = th[t].work[1].name
    BY <1>1, <1>2, AtWork
  <2>2. Len(th[t].work) \in Nat /\ DOMAIN th[t].work = 1..Len(th[t].work) /\ Len(th[t].work) # 0
    BY <2>1, ListIsSeq DEF Shape
  <2>3. 1 \in DOMAIN th[t].work
    BY <2>2
  <2>4. QED
    BY <1>2, <2>1, <2>3 DEF Named, ItemNames
<1> HIDE DEF n
<1>4. n \notin AirCards /\ n \notin ImCards /\ n \notin FireWire /\ Library(flag) = "dag"
  BY <1>2, <1>3 DEF NamesDiffer, Library
<1>5. Grows(t)
  BY <1>1, <1>4, GrowsBy
<1>6. MildGo(t, do, << >>)
  BY <1>1, <1>5, MildTuples DEF MildGo, Chain, Hides
<1>7. QED
  BY <1>1, <1>6, MildGoes

LEMMA LinkNPFSteps ==
  ASSUME ListInv, DllInv', NEW t \in Threads, machine' = machine, LinkNPF(t)
  PROVE  ListInv'
<1> DEFINE n == Arg(t)
<1>1. /\ Doing(t, "link") /\ UNCHANGED <<machine, mutex>> /\ dll' = dll
      /\ \E b : Becomes(t, [Then(t, << >>) EXCEPT !.ok = b])
      /\ list' = list \/ (th[t].file /\ Prepend(n, "ndis"))
  BY DEF LinkNPF, KeepAdapters
<1>2. DllInv /\ MutexHeld /\ NamesDiffer /\ Named(th[t]) /\ (~dll.raced => Unlisting(th[t], list, dll.shown))
  BY DEF ListInv, ListHolds
<1>3. th[t].work # << >> /\ th[t].work[1].do = "link" /\ n = th[t].work[1].name
  BY <1>1, <1>2, AtWork
<1>4. /\ ~dll.raced => n \notin Names(list) /\ n \notin FireWire \ dll.shown
      /\ th[t].file => n \in MacNames
  BY <1>2, <1>3 DEF Named, HeadNamed, Unlisting, Towards
<1>5. CanLock(t)
  <2>1. Towards(th[t].work, "link")
    BY <1>3 DEF Towards
  <2>2. QED
    BY <1>2, <2>1, HoldsMutex DEF CanLock
<1> HIDE DEF n
<1>6. th[t].file => n \notin AirCards /\ n \notin ImCards
  BY <1>2, <1>4 DEF NamesDiffer, Ndis
<1>7. Grows(t)
  BY <1>1, <1>4, <1>5, <1>6, GrowsBy
<1>8. MildGo(t, "link", << >>)
  BY <1>1, <1>7, MildTuples DEF MildGo, Chain, Hides
<1>9. QED
  BY <1>1, <1>8, MildGoes

(* TmpAdInfo->Next is what the list is, unless the threads have raced.     *)
LEMMA WriteFirstSteps ==
  ASSUME ListInv, DllInv', NEW t \in Threads, machine' = machine, WriteFirst(t)
  PROVE  ListInv'
<1> DEFINE n == Arg(t)
           flag == IF PPP(n) THEN "wan" ELSE "ndis"
           w == th[t].work
<1>1. /\ Doing(t, "prepend") /\ UNCHANGED <<machine, mutex>> /\ dll' = [dll EXCEPT !.raced = dll.raced \/ Races(t)]
      /\ Becomes(t, [Then(t, << >>) EXCEPT !.seen = << >>])
      /\ list' = <<Entry(n, flag)>> \o th[t].seen
  BY DEF WriteFirst
<1>2. DllInv /\ MutexHeld /\ NamesDiffer /\ Named(th[t])
      /\ (~dll.raced => /\ Entries /\ Unlisting(th[t], list, dll.shown)
                        /\ \A m \in FireWire : Known(m) \/ Untold(m))
  BY DEF ListInv, ListHolds
<1>3. w # << >> /\ Shape(w) /\ w[1].do = "prepend" /\ n = w[1].name
  BY <1>1, <1>2, AtWork
<1>4. n \in Bound /\ n \notin AirCards /\ n \notin ImCards
  <2>1. Len(w) \in Nat /\ DOMAIN w = 1..Len(w) /\ Len(w) # 0
    BY <1>3, ListIsSeq DEF Shape
  <2>2. 1 \in DOMAIN w
    BY <2>1
  <2>3. QED
    BY <1>2, <1>3, <2>2 DEF Named, ItemNames, NamesDiffer, Ndis
<1>5. dll'.shown = dll.shown /\ (dll'.raced <=> dll.raced \/ Races(t))
  <2>1. [dll EXCEPT !.raced = dll.raced \/ Races(t)].raced = (dll.raced \/ Races(t))
        /\ [dll EXCEPT !.raced = dll.raced \/ Races(t)].shown = dll.shown
    BY <1>2, DllFields
  <2>2. QED
    BY <1>1, <2>1
<1> HIDE DEF flag
<1>6. ASSUME ~dll'.raced
      PROVE  ~dll.raced /\ Frame(t) /\ Entries' /\ dll.shown \subseteq dll'.shown /\ Names(list) \subseteq Names(list')
  <2>1. ~dll.raced /\ CanLock(t) /\ list = th[t].seen
    BY <1>5, <1>6 DEF Races
  <2>2. n \notin Names(list)
    BY <1>2, <1>3, <2>1 DEF Unlisting, Towards
  <2>3. n \in FireWire => n \in dll.shown
    <3> SUFFICES ASSUME n \in FireWire
                 PROVE  n \in dll.shown
      OBVIOUS
    <3>1. ~Harmless(w[1], n) /\ ~BeforeHides(w[1], FireWire) /\ w[1].do \notin Hides
      BY <1>3 DEF Harmless, BeforeHides, Hides, Chain
    <3>2. QED
      BY <1>2, <1>3, <2>1, <2>2, <3>1, NotHidden
  <2>4. Prepend(n, flag)
    BY <1>1, <2>1 DEF Prepend
  <2>5. Entries' /\ Names(list) \subseteq Names(list')
    BY <1>2, <1>4, <1>5, <2>1, <2>2, <2>3, <2>4, Prepended
  <2>6. QED
    BY <1>5, <2>1, <2>5 DEF Frame
<1>7. MildGo(t, "prepend", << >>)
  BY <1>1, <1>6, MildTuples DEF MildGo, Chain, Hides, Grows
<1>8. QED
  BY <1>1, <1>7, MildGoes

-----------------------------------------------------------------------------
(* The mutex, and what is done under it.                                   *)

LEMMA MutexSteps ==
  ASSUME ListInv, DllInv', NEW t \in Threads, machine' = machine, LockMutex(t) \/ ReleaseMutex(t)
  PROVE  ListInv'
<1> DEFINE w == th[t].work
           s == Then(t, << >>)
           d == Depth(mutex, t)
<1>1. PICK do \in {"lock", "unlock"} :
        /\ Doing(t, do) /\ UNCHANGED <<machine, list, dll>> /\ Becomes(t, s)
        /\ do = "lock" => Lock(t)
        /\ do = "unlock" => mutex' = Released
  BY DEF LockMutex, ReleaseMutex, KeepAdapters, Goes
<1>2. DllInv /\ MutexHeld
  BY DEF ListInv
<1>3. w # << >> /\ Shape(w) /\ w[1].do = do /\ IsList(w) /\ Level(w, d, FireWire)
  BY <1>1, <1>2, AtWork DEF Shape, MutexHeld
<1>4. IsList(<< >>) /\ TRUE \in BOOLEAN
  BY TupleList
<1>5. Turn(t, << >>, s)
  BY <1>1, <1>2, <1>4, TurnTo
<1>6. s.work = Tail(w) /\ th' = [th EXCEPT ![t] = s]
  <2>1. s.work = << >> \o Tail(w) /\ th' = [th EXCEPT ![t] = s]
    BY <1>5 DEF Turn
  <2>2. QED
    BY <1>3, <2>1, ListTail, NothingBefore
<1>7. PICK e \in Nat : Level(Tail(w), e, FireWire) /\ Steps(do, d, e)
  BY <1>3, LevelTail
<1>8. d \in Nat
  BY <1>3, LevelIsNat
<1>9. MutexHeld'
  <2>1. CASE do = "lock"
    <3>1. e = d + 1 /\ Lock(t)
      BY <1>1, <1>7, <2>1 DEF Steps
    <3>2. QED
      BY <1>1, <1>2, <1>6, <1>7, <3>1, MutexMoves
  <2>2. CASE do = "unlock"
    <3>1. d = e + 1 /\ mutex' = Released
      BY <1>1, <1>7, <2>2 DEF Steps
    <3>2. mutex.owner = t /\ e + 1 = mutex.depth
      BY <1>7, <3>1 DEF Depth
    <3>3. QED
      BY <1>1, <1>2, <1>6, <1>7, <3>1, <3>2, MutexMoves
  <2>3. QED
    BY <2>1, <2>2
<1>10. HeadNamed(s) /\ Unlisting(s, list', dll'.shown)
  <2>1. w[1].do \notin Chain
    BY <1>3 DEF Chain
  <2>2. QED
    BY <1>3, <1>4, <1>5, <2>1, HeadAfter DEF Turn
<1>11. ~dll'.raced => ~dll.raced /\ Frame(t) /\ Entries' /\ Told(t, << >>)
  <2>1. Grows(t)
    BY <1>1, SameList
  <2>2. Told(t, << >>)
    BY <1>1, <1>3 DEF Told
  <2>3. QED
    BY <2>1, <2>2 DEF Grows
<1>12. \A i \in DOMAIN << >> : ItemNames(<< >>[i])
  OBVIOUS
<1>13. QED
  BY <1>5, <1>9, <1>10, <1>11, <1>12, Turns

(* Items that one or two, or none, come before an unlock.                  *)
LEMMA Unlocks ==
  ASSUME NEW x, NEW y, NEW z, z.do = "unlock", NEW F, NEW d \in Nat,
         \A i \in {x, y} : i.do \notin Hides \cup {"lock", "unlock"}
  PROVE  /\ IsList(<<z>>) /\ Ends(<<z>>, 1) /\ Fits(<<z>>, d + 1, F)
         /\ IsList(<<x, z>>) /\ Ends(<<x, z>>, 1) /\ Fits(<<x, z>>, d + 1, F)
         /\ IsList(<<x, y, z>>) /\ Ends(<<x, y, z>>, 1) /\ Fits(<<x, y, z>>, d + 1, F)
<1>1. /\ IsList(<<z>>) /\ IsList(<<x, z>>) /\ IsList(<<x, y, z>>)
      /\ <<z>> # << >> /\ <<x, z>> # << >> /\ <<x, y, z>> # << >>
  BY TupleList
<1>2. /\ Len(<<z>>) = 1 /\ Len(<<x, z>>) = 2 /\ Len(<<x, y, z>>) = 3
      /\ DOMAIN <<z>> = {1} /\ DOMAIN <<x, z>> = {1, 2} /\ DOMAIN <<x, y, z>> = {1, 2, 3}
      /\ <<z>>[1] = z /\ <<x, z>>[1] = x /\ <<x, z>>[2] = z
      /\ <<x, y, z>>[1] = x /\ <<x, y, z>>[2] = y /\ <<x, y, z>>[3] = z
  OBVIOUS
<1>3. d + 1 >= 1 /\ z.do \notin Hides
  BY DEF Hides
<1>4. /\ \A i \in DOMAIN <<z>> : <<z>>[i].do # "lock" /\ (<<z>>[i].do = "unlock" <=> i = 1) /\ <<z>>[i].do \notin Hides
      /\ \A i \in DOMAIN <<x, z>> : /\ <<x, z>>[i].do # "lock" /\ (<<x, z>>[i].do = "unlock" <=> i = 2)
                                    /\ <<x, z>>[i].do \notin Hides
      /\ \A i \in DOMAIN <<x, y, z>> : /\ <<x, y, z>>[i].do # "lock" /\ (<<x, y, z>>[i].do = "unlock" <=> i = 3)
                                       /\ <<x, y, z>>[i].do \notin Hides
  <2>1. ASSUME NEW i \in DOMAIN <<z>>
        PROVE  <<z>>[i].do # "lock" /\ (<<z>>[i].do = "unlock" <=> i = 1) /\ <<z>>[i].do \notin Hides
    BY <1>2, <1>3
  <2>2. ASSUME NEW i \in DOMAIN <<x, z>>
        PROVE  <<x, z>>[i].do # "lock" /\ (<<x, z>>[i].do = "unlock" <=> i = 2) /\ <<x, z>>[i].do \notin Hides
    BY <1>2, <1>3
  <2>3. ASSUME NEW i \in DOMAIN <<x, y, z>>
        PROVE  <<x, y, z>>[i].do # "lock" /\ (<<x, y, z>>[i].do = "unlock" <=> i = 3) /\ <<x, y, z>>[i].do \notin Hides
    BY <1>2, <1>3
  <2>4. QED
    BY <2>1, <2>2, <2>3
<1>5. Ends(<<z>>, 1) /\ Ends(<<x, z>>, 1) /\ Ends(<<x, y, z>>, 1)
  BY <1>1, <1>2, <1>4 DEF Ends
<1>6. Fits(<<z>>, d + 1, F) /\ Fits(<<x, z>>, d + 1, F) /\ Fits(<<x, y, z>>, d + 1, F)
  BY <1>3, <1>4 DEF Fits
<1>7. QED
  BY <1>1, <1>5, <1>6

LEMMA DepthIsNat ==
  ASSUME DllInv, MutexHeld, NEW t \in Threads
  PROVE  Depth(mutex, t) \in Nat
<1>1. IsList(th[t].work) /\ Level(th[t].work, Depth(mutex, t), FireWire)
  BY WorkIs DEF MutexHeld
<1>2. QED
  BY <1>1, LevelIsNat

(* One item goes on to the release of the mutex.                           *)
UnlockAfter(t, do, s, n) ==
  /\ Doing(t, do) /\ do \notin Chain \cup {"lock", "unlock"} /\ Lock(t)
  /\ \E x : s \in {Then(t, <<Do("unlock", n)>>), [Then(t, <<Do("unlock", n)>>) EXCEPT !.ok = x]}
  /\ Becomes(t, s)

LEMMA UnlocksAfter ==
  ASSUME ListInv, DllInv', NEW t \in Threads, machine' = machine, NEW do, NEW s, NEW n, UnlockAfter(t, do, s, n),
         ~dll'.raced => /\ ~dll.raced /\ Entries' /\ Told(t, <<Do("unlock", n)>>)
  PROVE  ListInv'
<1> DEFINE z == Do("unlock", n)
           v == <<z>>
<1>1. DllInv /\ MutexHeld /\ Depth(mutex, t) \in Nat
  BY DepthIsNat DEF ListInv
<1>2. /\ Doing(t, do) /\ do \notin Chain \cup {"lock", "unlock"} /\ Lock(t) /\ Becomes(t, s)
      /\ \E x : s \in {Then(t, v), [Then(t, v) EXCEPT !.ok = x]}
  BY DEF UnlockAfter
<1>3. z.do = "unlock" /\ z.name = n
  BY DoIs
<1> HIDE DEF z
<1>4. \A i \in DOMAIN v : v[i] = z
  OBVIOUS
<1>5. z.do \notin Hides /\ FALSE \in BOOLEAN
  BY <1>3 DEF Hides
<1>6. IsList(v) /\ Ends(v, 1) /\ Fits(v, Depth(mutex, t) + 1, FireWire)
  <2> DEFINE x == Do("find", n)
  <2>1. x.do \notin Hides \cup {"lock", "unlock"}
    BY DoIs DEF Hides
  <2> HIDE DEF x
  <2>2. QED
    BY <1>1, <1>3, <2>1, Unlocks
<1>7. v[1] = z /\ v # << >>
  OBVIOUS
<1> HIDE DEF v
<1>8. Turn(t, v, s)
  BY <1>1, <1>2, <1>5, <1>6, TurnTo
<1>9. th[t].work # << >> /\ Shape(th[t].work) /\ th[t].work[1].do = do
  BY <1>1, <1>2, AtWork
<1>10. Move(t, v, 1, s)
  BY <1>2, <1>6, <1>8, <1>9 DEF Move
<1>11. Pushable(t, v, 1)
  <2>1. BeforeHides(z, FireWire) /\ ItemNames(z)
    BY <1>3 DEF BeforeHides, ItemNames
  <2>2. QED
    BY <1>4, <1>6, <2>1 DEF Pushable
<1>12. HeadNamed(s) /\ Unlisting(s, list', dll'.shown)
  <2>1. v[1].do \notin Wary
    BY <1>3, <1>7 DEF Wary, Chain
  <2>2. QED
    BY <1>2, <1>6, <1>8, <1>9, <2>1, HeadAfter DEF Turn
<1>13. Frame(t)
  BY <1>2 DEF Frame, Lock
<1>14. QED
  BY <1>10, <1>11, <1>12, <1>13, Moves DEF v, z

LEMMA ToldThen ==
  ASSUME NEW t, NEW v, \A i \in DOMAIN v : \A n : Harmless(v[i], n),
         dll.shown \subseteq dll'.shown, Names(list) \subseteq Names(list'), th[t].work[1].do # "npfs",
         th[t].work[1].do = "hide" => th[t].work[1].name \in Names(list')
  PROVE  Told(t, v)
  BY DEF Told

LEMMA UnlockTold ==
  ASSUME NEW n
  PROVE  \A i \in DOMAIN <<Do("unlock", n)>> : \A m : Harmless(<<Do("unlock", n)>>[i], m)
<1> DEFINE z == Do("unlock", n)
<1>1. z.do = "unlock"
  BY DoIs
<1> HIDE DEF z
<1>2. \A i \in DOMAIN <<z>> : <<z>>[i] = z
  OBVIOUS
<1>3. \A i \in DOMAIN <<z>> : \A m : Harmless(<<z>>[i], m)
  BY <1>1, <1>2 DEF Harmless
<1>4. QED
  BY <1>3 DEF z

LEMMA HideSteps ==
  ASSUME ListInv, DllInv', NEW t \in Threads, machine' = machine, NEW do \in {"add", "hide"}, Doing(t, do),
         AddNPF(t, do = "hide"), Listed(Arg(t)) \/ do = "hide"
  PROVE  ListInv'
<1> DEFINE n == Arg(t)
           s == [Then(t, <<Do("unlock", n)>>) EXCEPT !.ok = TRUE]
<1>1. /\ Lock(t) /\ dll' = dll /\ Becomes(t, s)
      /\ (Listed(n) /\ list' = list) \/ (~Listed(n) /\ do = "hide" /\ Prepend(n, "hidden"))
  BY DEF AddNPF, KeepAdapters
<1>2. DllInv /\ NamesDiffer /\ Named(th[t]) /\ (~dll.raced => Entries)
  BY DEF ListInv, ListHolds
<1>3. th[t].work # << >> /\ Shape(th[t].work) /\ th[t].work[1].do = do /\ n = th[t].work[1].name
  BY <1>2, AtWork
<1>4. do = "hide" => n \in FireWire
  <2>1. Len(th[t].work) \in Nat /\ DOMAIN th[t].work = 1..Len(th[t].work) /\ Len(th[t].work) # 0
    BY <1>3, ListIsSeq DEF Shape
  <2>2. 1 \in DOMAIN th[t].work
    BY <2>1
  <2>3. QED
    BY <1>2, <1>3, <2>2 DEF Named, ItemNames
<1>5. do = "hide" => n \notin AirCards /\ n \notin ImCards
  BY <1>2, <1>4, FireWireIsNdis DEF NamesDiffer
<1>6. UnlockAfter(t, do, s, n)
  BY <1>1 DEF UnlockAfter, Chain
<1> HIDE DEF n, s
<1>7. ASSUME ~dll'.raced
      PROVE  ~dll.raced /\ Entries' /\ Names(list) \subseteq Names(list') /\ n \in Names(list')
  <2>1. ~dll.raced /\ Entries
    BY <1>1, <1>2, <1>7
  <2>2. CASE Listed(n) /\ list' = list
    <3>1. Entries'
      BY <1>1, <2>1, <2>2, EntriesStay
    <3>2. QED
      BY <2>1, <2>2, <3>1 DEF Listed
  <2>3. CASE ~Listed(n) /\ do = "hide" /\ Prepend(n, "hidden")
    <3>1. n \notin Names(list)
      BY <2>3 DEF Listed
    <3>2. Entries' /\ Names(list) \subseteq Names(list') /\ n \in Names(list')
      BY <1>1, <1>5, <2>1, <2>3, <3>1, Prepended
    <3>3. QED
      BY <2>1, <3>2
  <2>4. QED
    BY <1>1, <2>2, <2>3
<1>8. ASSUME ~dll'.raced
      PROVE  Told(t, <<Do("unlock", n)>>)
  <2>1. th[t].work[1].do # "npfs"
    BY <1>3
  <2>2. dll.shown \subseteq dll'.shown
    BY <1>1
  <2>3. QED
    BY <1>3, <1>7, <1>8, <2>1, <2>2, ToldThen, UnlockTold
<1>9. QED
  BY <1>6, <1>7, <1>8, UnlocksAfter

(* An adapter that is not listed is opened first.                          *)
LEMMA AddSteps ==
  ASSUME ListInv, DllInv', NEW t \in Threads, machine' = machine, Doing(t, "add"), AddNPF(t, FALSE),
         ~Listed(Arg(t))
  PROVE  ListInv'
<1> DEFINE n == Arg(t)
           x == Do("npf", n)
           y == Do("link", n)
           z == Do("unlock", n)
           v == <<x, y, z>>
           s == Then(t, v)
           w == th[t].work
<1>1. Lock(t) /\ dll' = dll /\ Becomes(t, s) /\ list' = list
  BY DEF AddNPF, KeepAdapters, Goes
<1>2. DllInv /\ MutexHeld /\ Depth(mutex, t) \in Nat
      /\ (~dll.raced => Entries /\ \A m \in FireWire : Known(m) \/ Untold(m))
  BY DepthIsNat DEF ListInv, ListHolds
<1>3. w # << >> /\ Shape(w) /\ IsList(w) /\ w[1].do = "add" /\ n = w[1].name
  BY <1>2, AtWork DEF Shape
<1>4. x.do = "npf" /\ y.do = "link" /\ z.do = "unlock" /\ x.name = n /\ y.name = n /\ z.name = n
  BY DoIs
<1> HIDE DEF x, y, z
<1>5. IsList(v) /\ Ends(v, 1) /\ Fits(v, Depth(mutex, t) + 1, FireWire)
  <2>1. \A i \in {x, y} : i.do \notin Hides \cup {"lock", "unlock"}
    BY <1>4 DEF Hides
  <2>2. QED
    BY <1>2, <1>4, <2>1, Unlocks
<1>6. v # << >> /\ v[1] = x /\ v[2] = y /\ Len(v) = 3 /\ \A i \in DOMAIN v : v[i] \in {x, y, z}
  OBVIOUS
<1>7. TRUE \in BOOLEAN
  OBVIOUS
<1> HIDE DEF v
<1>8. Turn(t, v, s)
  BY <1>1, <1>2, <1>5, <1>7, TurnTo
<1>9. Move(t, v, 1, s)
  BY <1>1, <1>3, <1>5, <1>8 DEF Move
<1>10. \A i \in {x, y, z} : BeforeHides(i, FireWire) /\ ItemNames(i) /\ \A m : Harmless(i, m)
  BY <1>4 DEF BeforeHides, ItemNames, Harmless, Chain
<1>11. Pushable(t, v, 1)
  BY <1>5, <1>6, <1>10 DEF Pushable
<1>12. s.work # << >> /\ s.work[1] = x /\ s.work[2] = y
  <2>1. s.work = v \o Tail(w)
    BY <1>8 DEF Turn
  <2>2. Len(v) >= 2
    BY <1>6
  <2> HIDE DEF s, w
  <2>3. (v \o Tail(w)) # << >> /\ (v \o Tail(w))[1] = v[1] /\ (v \o Tail(w))[2] = v[2]
    BY <1>3, <1>5, <1>6, <2>2, FirstOf
  <2>4. QED
    BY <1>6, <2>1, <2>3
<1>13. HeadNamed(s)
  BY <1>4, <1>12 DEF HeadNamed
<1> HIDE DEF n
<1>14. ASSUME ~dll'.raced
       PROVE  ~dll.raced /\ Frame(t) /\ Entries' /\ Unlisting(s, list', dll'.shown) /\ Told(t, v)
  <2>1. ~dll.raced /\ Entries /\ CanLock(t) /\ n \notin Names(list)
    BY <1>1, <1>2, <1>14 DEF Lock, Listed, n
  <2>2. n \in FireWire => n \in dll.shown
    <3> SUFFICES ASSUME n \in FireWire
                 PROVE  n \in dll.shown
      OBVIOUS
    <3>1. ~Harmless(w[1], n) /\ ~BeforeHides(w[1], FireWire) /\ w[1].do \notin Hides
      BY <1>3 DEF Harmless, BeforeHides, Hides, Chain
    <3>2. QED
      BY <1>2, <1>3, <2>1, <3>1, NotHidden
  <2>3. Unlisting(s, list', dll'.shown)
    BY <1>1, <1>4, <1>12, <2>1, <2>2 DEF Unlisting, Towards
  <2>4. Entries' /\ Frame(t)
    BY <1>1, <2>1, EntriesStay DEF Frame
  <2>5. Told(t, v)
    BY <1>1, <1>3, <1>6, <1>10, ToldThen
  <2>6. QED
    BY <2>1, <2>3, <2>4, <2>5
<1>15. QED
  BY <1>9, <1>11, <1>13, <1>14, Moves

LEMMA AddNPFSteps ==
  ASSUME ListInv, DllInv', NEW t \in Threads, machine' = machine, PacketAddAdapterNPF(t)
  PROVE  ListInv'
<1>1. CASE Doing(t, "hide") /\ AddNPF(t, TRUE)
  <2>1. AddNPF(t, "hide" = "hide")
    BY <1>1
  <2>2. QED
    BY <1>1, <2>1, HideSteps
<1>2. CASE Doing(t, "add") /\ AddNPF(t, FALSE)
  <2>1. CASE Listed(Arg(t))
    <3>1. AddNPF(t, "add" = "hide")
      BY <1>2
    <3>2. QED
      BY <1>2, <2>1, <3>1, HideSteps
  <2>2. CASE ~Listed(Arg(t))
    BY <1>2, <2>2, AddSteps
  <2>3. QED
    BY <2>1, <2>2
<1>3. QED
  BY <1>1, <1>2 DEF PacketAddAdapterNPF

(* A card that is not listed by its library has a name of its own.         *)
LEMMA AddCardSteps ==
  ASSUME ListInv, DllInv', NEW t \in Threads, machine' = machine, NEW lib \in {"air", "im"}, AddCard(t, lib)
  PROVE  ListInv'
<1> DEFINE n == Arg(t)
           w == th[t].work
           x == Do("card", lib)
           z == Do("unlock", n)
<1>1. /\ Doing(t, lib) /\ Lock(t) /\ dll' = dll /\ list' = list
      /\ Goes(t, <<z>>) \/ (~ListedAs(n, lib) /\ Goes(t, <<x, z>>))
  BY DEF AddCard
<1>2. /\ DllInv /\ MutexHeld /\ Depth(mutex, t) \in Nat /\ NamesDiffer /\ Named(th[t])
      /\ ~dll.raced => Entries
  BY DepthIsNat DEF ListInv, ListHolds
<1>3. w # << >> /\ Shape(w) /\ IsList(w) /\ w[1].do = lib /\ n = w[1].name
  BY <1>1, <1>2, AtWork DEF Shape
<1>4. ASSUME ~dll'.raced
      PROVE  ~dll.raced /\ Frame(t) /\ Entries /\ Entries'
  <2>1. ~dll.raced /\ Entries
    BY <1>1, <1>2, <1>4
  <2>2. QED
    BY <1>1, <2>1, EntriesStay DEF Frame, Lock
<1>5. CASE Goes(t, <<z>>)
  <2>1. UnlockAfter(t, lib, Then(t, <<z>>), n)
    BY <1>1, <1>5 DEF UnlockAfter, Goes, Chain
  <2>2. Told(t, <<z>>)
    BY <1>1, <1>3, ToldThen, UnlockTold
  <2>3. QED
    BY <1>4, <2>1, <2>2, UnlocksAfter
<1>6. CASE ~ListedAs(n, lib) /\ Goes(t, <<x, z>>)
  <2> DEFINE v == <<x, z>>
             s == Then(t, v)
  <2>1. x.do = "card" /\ x.name = lib /\ z.do = "unlock" /\ z.name = n
    BY DoIs
  <2>2. n \in CardsOf(lib)
    <3>1. Len(w) \in Nat /\ DOMAIN w = 1..Len(w) /\ Len(w) # 0
      BY <1>3, ListIsSeq
    <3>2. 1 \in DOMAIN w
      BY <3>1
    <3>3. QED
      BY <1>2, <1>3, <3>2 DEF Named, ItemNames, CardsOf
  <2> HIDE DEF x, z
  <2>3. IsList(v) /\ Ends(v, 1) /\ Fits(v, Depth(mutex, t) + 1, FireWire)
    <3>1. \A i \in {x, x} : i.do \notin Hides \cup {"lock", "unlock"}
      BY <2>1 DEF Hides
    <3>2. QED
      BY <1>2, <2>1, <3>1, Unlocks
  <2>4. v # << >> /\ v[1] = x /\ v[2] = z /\ Len(v) = 2 /\ \A i \in DOMAIN v : v[i] \in {x, z}
    OBVIOUS
  <2>5. TRUE \in BOOLEAN /\ Becomes(t, s)
    BY <1>6 DEF Goes
  <2> HIDE DEF v
  <2>6. Turn(t, v, s)
    BY <1>1, <1>2, <2>3, <2>5, TurnTo
  <2>7. Move(t, v, 1, s)
    BY <1>1, <1>3, <2>3, <2>6 DEF Move
  <2>8. \A i \in {x, z} : ItemNames(i) /\ \A m : Harmless(i, m)
    BY <2>1 DEF ItemNames, Harmless
  <2>9. Pushable(t, v, 1)
    <3>1. ~BeforeHides(w[1], FireWire)
      BY <1>3 DEF BeforeHides, Chain
    <3>2. QED
      BY <2>3, <2>4, <2>8, <3>1 DEF Pushable
  <2>10. s.work # << >> /\ s.work[1] = x /\ s.work[2] = z
    <3>1. s.work = v \o Tail(w)
      BY <2>6 DEF Turn
    <3>2. Len(v) >= 2
      BY <2>4
    <3> HIDE DEF s, w
    <3>3. (v \o Tail(w)) # << >> /\ (v \o Tail(w))[1] = v[1] /\ (v \o Tail(w))[2] = v[2]
      BY <1>3, <2>3, <2>4, <3>2, FirstOf
    <3>4. QED
      BY <2>4, <3>1, <3>3
  <2>11. HeadNamed(s)
    BY <2>1, <2>2, <2>10 DEF HeadNamed, Chain
  <2> HIDE DEF n
  <2>12. ASSUME ~dll'.raced
         PROVE  ~dll.raced /\ Frame(t) /\ Entries' /\ Unlisting(s, list', dll'.shown) /\ Told(t, v)
    <3>1. ~dll.raced /\ Frame(t) /\ Entries /\ Entries'
      BY <1>4, <2>12
    <3>2. n \notin Names(list)
      <4> SUFFICES ASSUME NEW i \in DOMAIN list, list[i].name = n
                   PROVE  FALSE
        BY DEF Names
      <4>1. list[i] = Entry(n, list[i].flag) /\ list[i].flag = lib
        BY <2>2, <3>1 DEF Entries, CardsOf
      <4>2. QED
        BY <1>6, <4>1 DEF ListedAs, n
    <3>3. Unlisting(s, list', dll'.shown)
      BY <1>1, <2>1, <2>10, <3>2 DEF Unlisting, Towards, Chain
    <3>4. Told(t, v)
      BY <1>1, <1>3, <2>4, <2>8, ToldThen
    <3>5. QED
      BY <3>1, <3>3, <3>4
  <2>13. QED
    BY <2>7, <2>9, <2>11, <2>12, Moves
<1>7. QED
  BY <1>1, <1>5, <1>6

-----------------------------------------------------------------------------
(* The adapters of the IP helper API, and what else is done without the    *)
(* mutex.                                                                  *)

LEMMA SeenIs ==
  ASSUME NEW t, ThreadFields(th[t]), NEW v, NEW x
  PROVE  /\ [Then(t, v) EXCEPT !.seen = x].seen = x
         /\ [Then(t, v) EXCEPT !.seen = x].work = v \o Tail(th[t].work) /\ Then(t, v).work = v \o Tail(th[t].work)
         /\ Then(t, v).seen = th[t].seen /\ Then(t, v).file = th[t].file
         /\ [Then(t, v) EXCEPT !.file = x].seen = th[t].seen /\ [Then(t, v) EXCEPT !.file = x].file = x
  BY DEF ThreadFields, Then

LEMMA Onwards ==
  ASSUME ListInv, DllInv', NEW t \in Threads, NEW do, Doing(t, do),
         do \notin Chain \cup Hides \cup {"lock", "unlock", "add", "link"},
         UNCHANGED <<machine, list, mutex>>, dll.shown \subseteq dll'.shown, ~dll'.raced => ~dll.raced,
         NEW v, IsList(v),
         \A i \in DOMAIN v : v[i].do \notin Hides \cup {"lock", "unlock", "link", "card"} /\ ItemNames(v[i]),
         NEW s, Turn(t, v, s), HeadNamed(s), ~dll'.raced => Unlisting(s, list', dll'.shown),
         \A n \in FireWire : \/ n \in dll'.shown \/ n \in Names(list)
                             \/ (\A i \in DOMAIN v : Harmless(v[i], n)) \/ ~Harmless(th[t].work[1], n)
  PROVE  ListInv'
<1>1. DllInv
  BY DEF ListInv
<1>2. th[t].work # << >> /\ th[t].work[1].do = do
  BY <1>1, AtWork
<1>3. Ends(v, 0)
  BY DEF Ends
<1>4. Move(t, v, 0, s)
  BY <1>2, <1>3 DEF Move
<1>5. Pushable(t, v, 0)
  <2>1. Fits(v, Depth(mutex, t) + 0, FireWire)
    BY DEF Fits
  <2>2. ~BeforeHides(th[t].work[1], FireWire)
    BY <1>2 DEF BeforeHides, Hides
  <2>3. QED
    BY <2>1, <2>2 DEF Pushable
<1>6. ASSUME ~dll'.raced
      PROVE  ~dll.raced /\ Frame(t) /\ Entries' /\ Told(t, v)
  <2>1. Grows(t)
    BY SameList
  <2>2. Told(t, v)
    BY <1>2 DEF Told, Hides
  <2>3. QED
    BY <1>6, <2>1, <2>2 DEF Grows
<1>7. QED
  BY <1>4, <1>5, <1>6, Moves

LEMMA ListIPH ==
  ASSUME ListInv, DllInv', NEW t \in Threads, machine' = machine, PacketGetAdaptersIPH(t)
  PROVE  ListInv'
<1> DEFINE v == [i \in DOMAIN machine.iph |-> Do("iph", machine.iph[i].name)]
<1>1. Doing(t, "iphs") /\ LeavesList /\ (Goes(t, v) \/ Goes(t, << >>))
  BY DEF PacketGetAdaptersIPH, KeepAdapters, LeavesList
<1>2. "iphs" \notin Chain \cup Hides \cup {"lock", "unlock", "add", "link"}
  BY DEF Chain, Hides
<1>3. DllInv /\ IsList(machine.iph)
  BY DEF ListInv, DllInv, DllTypes, MachineLists
<1>4. \A i \in DOMAIN machine.iph : v[i].do = "iph" /\ v[i].name \in Bound
  BY DoIs DEF Bound
<1>5. v = [i \in DOMAIN machine.iph |-> v[i]]
  OBVIOUS
<1> HIDE DEF v
<1>6. IsList(v) /\ DOMAIN v = DOMAIN machine.iph
  BY <1>3, <1>5, MappedList
<1>7. CASE Goes(t, v)
  <2> DEFINE s == Then(t, v)
  <2>1. Turn(t, v, s)
    <3>1. TRUE \in BOOLEAN /\ Becomes(t, s)
      BY <1>7 DEF Goes
    <3>2. QED
      BY <1>1, <1>3, <1>6, <3>1, TurnTo DEF LeavesList
  <2>2. th[t].work # << >> /\ Shape(th[t].work) /\ th[t].work[1].do = "iphs"
    BY <1>1, <1>3, AtWork
  <2>3. HeadNamed(s) /\ Unlisting(s, list', dll'.shown)
    <3>1. v # << >> => v[1].do \notin Wary
      <4>1. v # << >> => 1 \in DOMAIN v
        BY <1>6, ListIsSeq
      <4>2. QED
        BY <1>4, <1>6, <4>1 DEF Wary, Chain
    <3>2. th[t].work[1].do \notin Chain
      BY <1>2, <2>2
    <3>3. QED
      BY <1>6, <2>1, <2>2, <3>1, <3>2, HeadAfter DEF Turn
  <2>4. \A i \in DOMAIN v : v[i].do \notin Hides \cup {"lock", "unlock", "link", "card"} /\ ItemNames(v[i])
    BY <1>4, <1>6 DEF Hides, ItemNames
  <2>5. \A n : ~Harmless(th[t].work[1], n)
    BY <2>2 DEF Harmless
  <2> HIDE DEF s
  <2>6. UNCHANGED <<machine, list, mutex>> /\ dll.shown \subseteq dll'.shown /\ (~dll'.raced => ~dll.raced)
    BY <1>1 DEF LeavesList
  <2>7. QED
    BY <1>1, <1>2, <1>6, <2>1, <2>3, <2>4, <2>5, <2>6, Onwards
<1>8. CASE Goes(t, << >>)
  BY <1>1, <1>2, <1>8, GoesOn, MildTuples
<1>9. QED
  BY <1>1, <1>7, <1>8

(* On with an adapter that is not in the list as it was seen.              *)
Follows(s, v, w, n) ==
  /\ s.work = v \o Tail(w)
  /\ \/ v = <<Do("first", n)>> \/ v = <<Do("prepend", n)>> \/ v = <<Do("npf", n), Do("shut", n)>>

LEMMA FollowsIs ==
  ASSUME NEW w, IsList(w), w # << >>, NEW s, NEW v, NEW n, Follows(s, v, w, n)
  PROVE  /\ IsList(v) /\ HeadNamed(s)
         /\ \A l, shown : n \notin Names(s.seen) => Unlisting(s, l, shown)
         /\ \A i \in DOMAIN v : v[i].name = n /\ v[i].do \in {"first", "prepend", "npf", "shut"}
<1>1. ASSUME NEW x, v = <<x>>, x.do \in {"first", "prepend"}, x.name = n
      PROVE  /\ IsList(v) /\ s.work # << >> /\ s.work[1] = x
             /\ \A i \in DOMAIN v : v[i] = x
  <2>1. IsList(v) /\ v # << >>
    BY <1>1, TupleList
  <2>2. v[1] = x /\ \A i \in DOMAIN v : v[i] = x
    BY <1>1
  <2>3. s.work # << >> /\ s.work[1] = v[1]
    BY <2>1, FirstOf DEF Follows
  <2>4. QED
    BY <2>1, <2>2, <2>3
<1>2. ASSUME NEW x, NEW y, v = <<x, y>>
      PROVE  /\ IsList(v) /\ s.work # << >> /\ s.work[1] = x /\ s.work[2] = y
             /\ \A i \in DOMAIN v : v[i] \in {x, y}
  <2>1. IsList(v) /\ v # << >>
    BY <1>2, TupleList
  <2>2. v[1] = x /\ v[2] = y /\ Len(v) = 2 /\ \A i \in DOMAIN v : v[i] \in {x, y}
    BY <1>2
  <2>3. s.work # << >> /\ s.work[1] = v[1] /\ s.work[2] = v[2]
    <3>1. Len(v) >= 2
      BY <2>2
    <3>2. (v \o Tail(w)) # << >> /\ (v \o Tail(w))[1] = v[1] /\ (v \o Tail(w))[2] = v[2]
      BY <2>1, <3>1, FirstOf
    <3>3. QED
      BY <3>2 DEF Follows
  <2>4. QED
    BY <2>1, <2>2, <2>3
<1>3. CASE v = <<Do("first", n)>> \/ v = <<Do("prepend", n)>>
  <2>1. PICK x : v = <<x>> /\ x.do \in {"first", "prepend"} /\ x.name = n
    BY <1>3, DoIs
  <2>2. /\ IsList(v) /\ s.work # << >> /\ s.work[1] = x
        /\ \A i \in DOMAIN v : v[i] = x
    BY <1>1, <2>1
  <2>3. HeadNamed(s)
    BY <2>1, <2>2 DEF HeadNamed, Chain
  <2>4. \A l, shown : n \notin Names(s.seen) => Unlisting(s, l, shown)
    BY <2>1, <2>2 DEF Unlisting, Towards, Chain
  <2>5. QED
    BY <2>1, <2>2, <2>3, <2>4
<1>4. CASE v = <<Do("npf", n), Do("shut", n)>>
  <2>1. PICK x, y : v = <<x, y>> /\ x.do = "npf" /\ y.do = "shut" /\ x.name = n /\ y.name = n
    BY <1>4, DoIs
  <2>2. /\ IsList(v) /\ s.work # << >> /\ s.work[1] = x /\ s.work[2] = y
        /\ \A i \in DOMAIN v : v[i] \in {x, y}
    BY <1>2, <2>1
  <2>3. HeadNamed(s)
    BY <2>1, <2>2 DEF HeadNamed
  <2>4. \A l, shown : n \notin Names(s.seen) => Unlisting(s, l, shown)
    BY <2>1, <2>2 DEF Unlisting, Towards
  <2>5. QED
    BY <2>1, <2>2, <2>3, <2>4
<1>5. QED
  BY <1>3, <1>4 DEF Follows

LEMMA IPHOnwards ==
  ASSUME ListInv, DllInv', NEW t \in Threads, NEW do \in {"iph", "shut", "first"}, Doing(t, do),
         UNCHANGED <<machine, list, mutex>>, dll.shown \subseteq dll'.shown, ~dll'.raced => ~dll.raced,
         NEW v, NEW s, Follows(s, v, th[t].work, Arg(t)), Becomes(t, s),
         ~dll'.raced => Arg(t) \notin Names(s.seen)
  PROVE  ListInv'
<1> DEFINE n == Arg(t)
           w == th[t].work
<1>1. DllInv /\ Named(th[t])
  BY DEF ListInv
<1>2. w # << >> /\ Shape(w) /\ IsList(w) /\ w[1].do = do /\ n = w[1].name
  BY <1>1, AtWork DEF Shape
<1>3. n \in Bound
  <2>1. Len(w) \in Nat /\ DOMAIN w = 1..Len(w) /\ Len(w) # 0
    BY <1>2, ListIsSeq
  <2>2. 1 \in DOMAIN w
    BY <2>1
  <2>3. QED
    BY <1>1, <1>2, <2>2 DEF Named, ItemNames
<1>4. /\ IsList(v) /\ HeadNamed(s)
      /\ \A l, shown : n \notin Names(s.seen) => Unlisting(s, l, shown)
      /\ \A i \in DOMAIN v : v[i].name = n /\ v[i].do \in {"first", "prepend", "npf", "shut"}
  BY <1>2, FollowsIs
<1>5. Turn(t, v, s)
  BY <1>2, <1>4 DEF Turn, Becomes, Follows
<1>6. \A i \in DOMAIN v : v[i].do \notin Hides \cup {"lock", "unlock", "link", "card"} /\ ItemNames(v[i])
  BY <1>3, <1>4 DEF Hides, ItemNames
<1>7. do \notin Chain \cup Hides \cup {"lock", "unlock", "add", "link"}
  BY DEF Chain, Hides
<1>8. \A m : ~Harmless(th[t].work[1], m)
  BY <1>2 DEF Harmless
<1> HIDE DEF n, w
<1>9. ~dll'.raced => Unlisting(s, list', dll'.shown)
  BY <1>4 DEF n
<1>10. QED
  BY <1>4, <1>5, <1>6, <1>7, <1>8, <1>9, Onwards

LEMMA IPHSteps ==
  ASSUME ListInv, DllInv', NEW t \in Threads, machine' = machine,
         PacketAddAdapterIPH(t) \/ ShutIPH(t) \/ ReadFirst(t)
  PROVE  ListInv'
<1> DEFINE n == Arg(t)
           w == th[t].work
<1>1. DllInv /\ MildList(<< >>) /\ Named(th[t]) /\ (~dll.raced => Unlisting(th[t], list, dll.shown))
  BY MildTuples DEF ListInv, ListHolds
<1>2. CASE PacketAddAdapterIPH(t)
  <2>1. Doing(t, "iph") /\ LeavesList
    BY <1>2 DEF PacketAddAdapterIPH, KeepAdapters, LeavesList
  <2>2. PICK v \in {<< >>, <<Do("first", n)>>, <<Do("npf", n), Do("shut", n)>>} :
          \/ v = << >> /\ Goes(t, v)
          \/ v # << >> /\ n \notin Names(list) /\ Becomes(t, [Then(t, v) EXCEPT !.seen = list])
    <3>1. <<Do("first", n)>> # << >> /\ <<Do("npf", n), Do("shut", n)>> # << >>
      BY TupleList
    <3>2. QED
      BY <1>2, <3>1 DEF PacketAddAdapterIPH, Listed
  <2>3. CASE v = << >> /\ Goes(t, v)
    <3>1. "iph" \notin Chain \cup Hides \cup {"lock", "unlock"}
      BY DEF Chain, Hides
    <3>2. QED
      BY <1>1, <2>1, <2>3, <3>1, GoesOn
  <2>4. CASE v # << >> /\ n \notin Names(list) /\ Becomes(t, [Then(t, v) EXCEPT !.seen = list])
    <3> DEFINE s == [Then(t, v) EXCEPT !.seen = list]
    <3>1. ThreadFields(th[t]) /\ TRUE \in BOOLEAN
      BY <1>1, <2>1, AtWork
    <3>2. s.seen = list /\ s.work = v \o Tail(w)
      BY <3>1 DEF ThreadFields, Then
    <3>3. Becomes(t, s)
      BY <2>4
    <3> HIDE DEF s
    <3>4. Follows(s, v, w, n)
      BY <2>2, <2>4, <3>2 DEF Follows
    <3>5. UNCHANGED <<machine, list, mutex>> /\ dll.shown \subseteq dll'.shown /\ (~dll'.raced => ~dll.raced)
      BY <2>1 DEF LeavesList
    <3>6. n \notin Names(s.seen)
      BY <2>4, <3>2
    <3>7. QED
      BY <2>1, <3>3, <3>4, <3>5, <3>6, IPHOnwards
  <2>5. QED
    BY <2>2, <2>3, <2>4
<1>3. CASE ShutIPH(t)
  <2>1. Doing(t, "shut") /\ LeavesList /\ (Goes(t, << >>) \/ Goes(t, <<Do("first", n)>>))
    BY <1>3 DEF ShutIPH, KeepAdapters, LeavesList
  <2>2. CASE Goes(t, << >>)
    <3>1. "shut" \notin Chain \cup Hides \cup {"lock", "unlock"}
      BY DEF Chain, Hides
    <3>2. QED
      BY <1>1, <2>1, <2>2, <3>1, GoesOn
  <2>3. CASE Goes(t, <<Do("first", n)>>)
    <3> DEFINE v == <<Do("first", n)>>
               s == Then(t, v)
    <3>1. ThreadFields(th[t]) /\ TRUE \in BOOLEAN /\ w # << >> /\ w[1].do = "shut" /\ n = w[1].name
      BY <1>1, <2>1, AtWork
    <3>2. s.seen = th[t].seen /\ s.work = v \o Tail(w)
      BY <3>1, SeenIs
    <3>3. Becomes(t, s)
      BY <2>3 DEF Goes
    <3>4. v = <<Do("first", n)>>
      OBVIOUS
    <3> HIDE DEF s, v
    <3>5. Follows(s, v, w, n)
      BY <3>2, <3>4 DEF Follows
    <3>6. UNCHANGED <<machine, list, mutex>> /\ dll.shown \subseteq dll'.shown /\ (~dll'.raced => ~dll.raced)
      BY <2>1 DEF LeavesList
    <3>7. ~dll'.raced => n \notin Names(s.seen)
      BY <1>1, <3>1, <3>2, <3>6 DEF Unlisting, Towards
    <3>8. QED
      BY <2>1, <3>3, <3>5, <3>6, <3>7, IPHOnwards
  <2>4. QED
    BY <2>1, <2>2, <2>3
<1>4. CASE ReadFirst(t)
  <2>1. Doing(t, "first") /\ UNCHANGED <<machine, list, mutex>>
    BY <1>4 DEF ReadFirst
  <2>2. CASE Goes(t, << >>) /\ dll' = dll
    <3>1. "first" \notin Chain \cup Hides \cup {"lock", "unlock"}
      BY DEF Chain, Hides
    <3>2. LeavesList
      BY <2>1, <2>2 DEF LeavesList
    <3>3. QED
      BY <1>1, <2>1, <2>2, <3>1, <3>2, GoesOn
  <2>3. CASE /\ dll' = [dll EXCEPT !.raced = dll.raced \/ Races(t)]
             /\ Becomes(t, [Then(t, <<Do("prepend", n)>>) EXCEPT !.seen = list])
    <3> DEFINE v == <<Do("prepend", n)>>
               s == [Then(t, v) EXCEPT !.seen = list]
               x == dll.raced \/ Races(t)
    <3>1. ThreadFields(th[t]) /\ TRUE \in BOOLEAN /\ w # << >> /\ w[1].do = "first" /\ n = w[1].name
      BY <1>1, <2>1, AtWork
    <3>4. v = <<Do("prepend", n)>>
      OBVIOUS
    <3>2. s.seen = list /\ s.work = v \o Tail(w)
      <4> HIDE DEF v
      <4>1. QED
        BY <3>1 DEF ThreadFields, Then
    <3>3. Becomes(t, s) /\ dll' = [dll EXCEPT !.raced = x]
      BY <2>3
    <3>5. dll'.raced = x /\ dll'.shown = dll.shown
      <4> HIDE DEF x
      <4>1. [dll EXCEPT !.raced = x].raced = x /\ [dll EXCEPT !.raced = x].shown = dll.shown
        BY <1>1, DllFields
      <4>2. QED
        BY <3>3, <4>1
    <3> HIDE DEF s, v
    <3>6. Follows(s, v, w, n)
      BY <3>2, <3>4 DEF Follows
    <3>7. ASSUME ~dll'.raced
          PROVE  ~dll.raced /\ n \notin Names(s.seen)
      <4>1. ~dll.raced /\ list = th[t].seen
        BY <3>5, <3>7 DEF Races
      <4>2. QED
        BY <1>1, <3>1, <3>2, <4>1 DEF Unlisting, Towards
    <3>8. dll.shown \subseteq dll'.shown
      BY <3>5
    <3> HIDE DEF x
    <3>9. QED
      BY <2>1, <3>3, <3>6, <3>7, <3>8, IPHOnwards
  <2>4. QED
    BY <1>4, <2>2, <2>3 DEF ReadFirst
<1>5. QED
  BY <1>2, <1>3, <1>4

LEMMA ChooseSteps ==
  ASSUME ListInv, DllInv', NEW t \in Threads, machine' = machine, PacketOpenAdapter(t)
  PROVE  ListInv'
<1> DEFINE n == Arg(t)
           items == OpenBy(th[t].found)
           v == [i \in DOMAIN items |-> Do(items[i], n)]
           w == th[t].work
<1>1. Doing(t, "choose") /\ LeavesList /\ Goes(t, v)
  BY DEF PacketOpenAdapter, KeepAdapters, LeavesList
<1>2. "choose" \notin Chain \cup Hides \cup {"lock", "unlock", "add", "link"}
  BY DEF Chain, Hides
<1>3. items \in {<<"npf", "keep">>, <<"dagfile", "openfile">>, << >>, <<"open">>}
  BY DEF OpenBy
<1>4. v = [i \in DOMAIN items |-> v[i]] /\ \A i \in DOMAIN items : v[i] = Do(items[i], n)
  OBVIOUS
<1> HIDE DEF v, items
<1>5. IsList(items)
  BY <1>3, TupleList
<1>6. IsList(v) /\ DOMAIN v = DOMAIN items /\ Len(v) = Len(items)
  BY <1>4, <1>5, MappedList
<1>7. CASE items = <<"npf", "keep">>
  <2> DEFINE s == Then(t, v)
  <2>1. /\ Len(items) = 2 /\ DOMAIN items = {1, 2} /\ items[1] = "npf" /\ items[2] = "keep"
    BY <1>7
  <2>2. /\ Len(v) >= 2 /\ v # << >> /\ DOMAIN v = {1, 2}
        /\ v[1].do = "npf" /\ v[1].name = n /\ v[2].do = "keep" /\ v[2].name = n
    <3>1. Len(v) = 2 /\ v # << >>
      BY <1>6, <2>1, ListIsSeq
    <3>2. v[1] = Do("npf", n) /\ v[2] = Do("keep", n)
      BY <1>4, <2>1
    <3>3. v[1].do = "npf" /\ v[1].name = n /\ v[2].do = "keep" /\ v[2].name = n
      BY <3>2, DoIs
    <3>4. QED
      BY <1>6, <2>1, <3>1, <3>3
  <2>3. Turn(t, v, s)
    <3>1. TRUE \in BOOLEAN /\ Becomes(t, s) /\ DllInv
      BY <1>1 DEF Goes, ListInv
    <3>2. QED
      BY <1>1, <1>6, <3>1, TurnTo DEF LeavesList
  <2>4. IsList(w) /\ w # << >>
    <3>1. DllInv
      BY DEF ListInv
    <3>2. QED
      BY <1>1, <3>1, AtWork DEF Shape
  <2> HIDE DEF s
  <2>5. s.work # << >> /\ s.work[1] = v[1] /\ s.work[2] = v[2]
    <3>1. (v \o Tail(w)) # << >> /\ (v \o Tail(w))[1] = v[1] /\ (v \o Tail(w))[2] = v[2]
      BY <1>6, <2>2, <2>4, FirstOf
    <3>2. QED
      BY <2>3, <3>1 DEF Turn
  <2>6. HeadNamed(s) /\ Unlisting(s, list', dll'.shown)
    BY <2>2, <2>5 DEF HeadNamed, Unlisting, Towards, Chain
  <2>7. \A i \in DOMAIN v : /\ v[i].do \notin Hides \cup {"lock", "unlock", "link", "card"} /\ ItemNames(v[i])
                            /\ \A m : Harmless(v[i], m)
    BY <2>2 DEF Hides, ItemNames, Harmless
  <2>8. UNCHANGED <<machine, list, mutex>> /\ dll.shown \subseteq dll'.shown /\ (~dll'.raced => ~dll.raced)
    BY <1>1 DEF LeavesList
  <2>9. QED
    BY <1>1, <1>2, <1>6, <2>3, <2>6, <2>7, <2>8, Onwards
<1>8. CASE items # <<"npf", "keep">>
  <2>1. \A i \in DOMAIN items : items[i] \in {"dagfile", "openfile", "open"}
    BY <1>3, <1>8
  <2>2. MildList(v)
    BY <1>4, <1>6, <2>1, MildDo DEF MildList
  <2>3. QED
    BY <1>1, <1>2, <2>2, GoesOn
<1>9. QED
  BY <1>7, <1>8

LEMMA EverythingIs ==
  ASSUME NEW order, IsList(order)
  PROVE  /\ IsList(Everything(order)) /\ DOMAIN Everything(order) = DOMAIN order
         /\ Len(Everything(order)) = Len(order)
         /\ \A i \in DOMAIN order : Everything(order)[i].do = order[i]
<1> DEFINE v == Everything(order)
<1>1. v = [i \in DOMAIN order |-> v[i]] /\ \A i \in DOMAIN order : v[i].do = order[i]
  BY DEF Everything, Do
<1> HIDE DEF v
<1>2. IsList(v) /\ DOMAIN v = DOMAIN order /\ Len(v) = Len(order)
  BY <1>1, MappedList
<1>3. QED
  BY <1>1, <1>2 DEF v

(* All FireWire adapters that are not listed may be shown from now on.     *)
LEMMA OthersSteps ==
  ASSUME ListInv, DllInv', NEW t \in Threads, machine' = machine, UpdateOthers(t)
  PROVE  ListInv'
<1> DEFINE order == <<"iphs", "ims", "airs", "fake", "dags">>
           v == Everything(order)
<1>1. /\ Doing(t, "others") /\ UNCHANGED <<machine, list, mutex>>
      /\ \/ Goes(t, << >>) /\ dll' = dll
         \/ Goes(t, v) /\ dll' = [dll EXCEPT !.shown = dll.shown \cup (FireWire \ Names(list))]
  BY DEF UpdateOthers
<1>2. "others" \notin Chain \cup Hides \cup {"lock", "unlock", "add", "link"}
  BY DEF Chain, Hides
<1>3. DllInv
  BY DEF ListInv
<1>4. CASE Goes(t, << >>) /\ dll' = dll
  <2>1. LeavesList
    BY <1>1, <1>4 DEF LeavesList
  <2>2. QED
    BY <1>1, <1>2, <1>4, <2>1, GoesOn, MildTuples
<1>5. CASE Goes(t, v) /\ dll' = [dll EXCEPT !.shown = dll.shown \cup (FireWire \ Names(list))]
  <2> DEFINE s == Then(t, v)
             x == dll.shown \cup (FireWire \ Names(list))
  <2>1. dll'.raced = dll.raced /\ dll'.shown = x
    <3>0. dll' = [dll EXCEPT !.shown = x]
      BY <1>5
    <3> HIDE DEF x
    <3>1. [dll EXCEPT !.shown = x].raced = dll.raced /\ [dll EXCEPT !.shown = x].shown = x
      BY <1>3, DllFields
    <3>2. QED
      BY <3>0, <3>1
  <2>2. /\ IsList(order) /\ order # << >> /\ order[1] = "iphs" /\ 1 \in DOMAIN order
        /\ \A i \in DOMAIN order : order[i] \in {"iphs", "ims", "airs", "fake", "dags"}
    <3>1. order \in Seq({"iphs", "ims", "airs", "fake", "dags"})
      OBVIOUS
    <3>2. Len(order) = 5 /\ order[1] = "iphs" /\ DOMAIN order = {1, 2, 3, 4, 5}
      OBVIOUS
    <3>3. \A i \in DOMAIN order : order[i] \in {"iphs", "ims", "airs", "fake", "dags"}
      OBVIOUS
    <3> HIDE DEF order
    <3>4. IsList(order)
      BY <3>1, SeqIsList
    <3>5. order # << >>
      BY <3>2, <3>4, ListIsSeq
    <3>6. QED
      BY <3>2, <3>3, <3>4, <3>5
  <2> HIDE DEF order
  <2>3. /\ IsList(v) /\ DOMAIN v = DOMAIN order /\ \A i \in DOMAIN order : v[i].do = order[i]
    BY <2>2, EverythingIs
  <2> HIDE DEF v
  <2>4. Turn(t, v, s)
    <3>1. TRUE \in BOOLEAN /\ Becomes(t, s)
      BY <1>5 DEF Goes
    <3>2. QED
      BY <1>1, <1>3, <2>3, <3>1, TurnTo
  <2>5. HeadNamed(s) /\ Unlisting(s, list', dll'.shown)
    <3>1. v # << >> => v[1].do \notin Wary
      BY <2>2, <2>3 DEF Wary, Chain
    <3>2. th[t].work # << >> /\ Shape(th[t].work) /\ th[t].work[1].do \notin Chain
      BY <1>1, <1>2, <1>3, AtWork
    <3>3. QED
      BY <2>3, <2>4, <3>1, <3>2, HeadAfter DEF Turn
  <2>6. \A i \in DOMAIN v : v[i].do \notin Hides \cup {"lock", "unlock", "link", "card"} /\ ItemNames(v[i])
    BY <2>2, <2>3 DEF Hides, ItemNames
  <2> HIDE DEF s
  <2>7. dll.shown \subseteq dll'.shown /\ (~dll'.raced => ~dll.raced)
        /\ \A n \in FireWire : n \in dll'.shown \/ n \in Names(list)
    BY <2>1
  <2>8. QED
    BY <1>1, <1>2, <2>3, <2>4, <2>5, <2>6, <2>7, Onwards
<1>6. QED
  BY <1>1, <1>4, <1>5

(* The class key tells which adapters are FireWire adapters.               *)
LEMMA GetNPFSteps ==
  ASSUME ListInv, DllInv', NEW t \in Threads, machine' = machine, PacketGetAdaptersNPF(t)
  PROVE  ListInv'
<1> DEFINE class == [i \in DOMAIN machine.class |->
                       Do(IF IsFireWire(i) THEN "hide" ELSE "add", machine.class[i].name)]
           tcp == Each("add", machine.tcp)
<1>1. Doing(t, "npfs") /\ LeavesList /\ (Goes(t, class \o tcp) \/ Goes(t, class))
  BY DEF PacketGetAdaptersNPF, KeepAdapters, LeavesList
<1>2. DllInv /\ MutexHeld /\ NamesDiffer /\ IsList(machine.class) /\ IsList(machine.tcp)
  BY DEF ListInv, DllInv, DllTypes, MachineLists
<1>3. class = [i \in DOMAIN machine.class |-> class[i]]
      /\ \A i \in DOMAIN machine.class : /\ class[i].do = IF IsFireWire(i) THEN "hide" ELSE "add"
                                         /\ class[i].name = machine.class[i].name
  BY DoIs
<1> HIDE DEF class
<1>4. IsList(class) /\ DOMAIN class = DOMAIN machine.class
  BY <1>2, <1>3, MappedList
<1>5. \A i \in DOMAIN class : /\ class[i].do \in {"hide", "add"}
                              /\ class[i].do = "hide" => class[i].name \in FireWire
                              /\ class[i].do = "add" => class[i].name \notin FireWire
  <2> SUFFICES ASSUME NEW i \in DOMAIN machine.class
               PROVE  /\ class[i].do \in {"hide", "add"}
                      /\ class[i].do = "hide" => class[i].name \in FireWire
                      /\ class[i].do = "add" => class[i].name \notin FireWire
    BY <1>4
  <2>1. CASE IsFireWire(i)
    BY <1>3, <2>1 DEF FireWire
  <2>2. CASE ~IsFireWire(i)
    <3>1. class[i].name \notin FireWire
      <4> SUFFICES ASSUME NEW j \in DOMAIN machine.class, IsFireWire(j), machine.class[j].name = class[i].name
                   PROVE  FALSE
        BY DEF FireWire
      <4>1. QED
        BY <1>2, <1>3, <2>2 DEF NamesDiffer
    <3>2. QED
      BY <1>3, <2>2, <3>1
  <2>3. QED
    BY <2>1, <2>2
<1>6. \A n \in FireWire : \E i \in DOMAIN class : class[i].do = "hide" /\ class[i].name = n
  <2> SUFFICES ASSUME NEW j \in DOMAIN machine.class, IsFireWire(j)
               PROVE  \E i \in DOMAIN class : class[i].do = "hide" /\ class[i].name = machine.class[j].name
    BY DEF FireWire
  <2>1. QED
    BY <1>3, <1>4
<1>7. IsList(tcp) /\ \A i \in DOMAIN tcp : tcp[i].do = "add"
  <2>1. "add" \in Plain \ {"choose"}
    BY DEF Plain
  <2>2. QED
    BY <1>2, <2>1, QuietEach
<1> HIDE DEF tcp
<1>8. Len(class) \in Nat /\ DOMAIN class = 1..Len(class) /\ Len(tcp) \in Nat /\ DOMAIN tcp = 1..Len(tcp)
  BY <1>4, <1>7, ListIsSeq
<1>9. PICK v : /\ Goes(t, v) /\ IsList(v) /\ DOMAIN class \subseteq DOMAIN v
               /\ \A i \in DOMAIN class : v[i] = class[i]
               /\ \A i \in DOMAIN v : i \notin DOMAIN class => v[i].do = "add"
  <2>1. CASE Goes(t, class)
    BY <1>4, <2>1
  <2>2. CASE Goes(t, class \o tcp)
    <3> DEFINE v == class \o tcp
    <3>1. IsList(v) /\ Len(v) = Len(class) + Len(tcp)
          /\ \A i \in DOMAIN v : v[i] = IF i <= Len(class) THEN class[i] ELSE tcp[i - Len(class)]
      BY <1>4, <1>7, ListBefore
    <3> HIDE DEF v
    <3>2. DOMAIN v = 1..Len(v)
      BY <3>1, ListIsSeq
    <3>3. DOMAIN v = 1..(Len(class) + Len(tcp))
      BY <3>1, <3>2
    <3>4. \A i \in DOMAIN class : i \in DOMAIN v /\ v[i] = class[i]
      BY <1>8, <3>1, <3>3
    <3>5. \A i \in DOMAIN v : i \notin DOMAIN class => v[i].do = "add"
      BY <1>7, <1>8, <3>1, <3>3
    <3>6. Goes(t, v)
      BY <2>2 DEF v
    <3>7. QED
      BY <3>1, <3>4, <3>5, <3>6
  <2>3. QED
    BY <1>1, <2>1, <2>2
<1> DEFINE s == Then(t, v)
<1>10. th[t].work # << >> /\ Shape(th[t].work) /\ IsList(th[t].work) /\ th[t].work[1].do = "npfs"
  BY <1>1, <1>2, AtWork DEF Shape
<1>11. \A i \in DOMAIN v : v[i].do \in {"hide", "add"} /\ (v[i].do = "hide" => v[i].name \in FireWire /\ i \in DOMAIN class)
  BY <1>5, <1>9
<1>12. Len(v) \in Nat /\ DOMAIN v = 1..Len(v)
  BY <1>9, ListIsSeq
<1>13. Turn(t, v, s)
  <2>1. TRUE \in BOOLEAN /\ Becomes(t, s)
    BY <1>9 DEF Goes
  <2>2. QED
    BY <1>1, <1>2, <1>9, <2>1, TurnTo DEF LeavesList
<1>14. Ends(v, 0)
  BY <1>11 DEF Ends
<1>15. Move(t, v, 0, s)
  BY <1>1, <1>10, <1>13, <1>14 DEF Move, LeavesList
<1>16. Depth(mutex, t) \in Nat /\ Depth(mutex, t) >= 1
  <2>1. Len(th[t].work) \in Nat /\ DOMAIN th[t].work = 1..Len(th[t].work) /\ Len(th[t].work) # 0
    BY <1>10, ListIsSeq
  <2>2. 1 \in DOMAIN th[t].work
    BY <2>1
  <2>3. mutex.owner = t
    BY <1>2, <1>10, <2>2, HoldsMutex DEF Hides
  <2>4. mutex.depth \in Nat /\ mutex.depth # 0
    BY <1>2, <2>3, ThreadsAssumption DEF MutexHeld
  <2>5. QED
    BY <2>3, <2>4 DEF Depth
<1>17. Pushable(t, v, 0)
  <2>1. Fits(v, Depth(mutex, t) + 0, FireWire)
    <3>1. ASSUME NEW j \in DOMAIN v, v[j].do \in Hides, NEW i \in 1..j, i < j
          PROVE  BeforeHides(v[i], FireWire)
      <4>1. j \in DOMAIN class
        BY <1>11, <3>1 DEF Hides
      <4>2. i \in DOMAIN class
        BY <1>8, <3>1, <4>1
      <4>3. QED
        BY <1>5, <1>9, <4>2 DEF BeforeHides
    <3>2. Depth(mutex, t) + 0 >= 1
      BY <1>16
    <3>3. QED
      BY <1>11, <3>1, <3>2 DEF Fits
  <2>2. ~BeforeHides(th[t].work[1], FireWire)
    BY <1>10 DEF BeforeHides, Chain
  <2>3. \A i \in DOMAIN v : ItemNames(v[i])
    BY <1>11 DEF ItemNames
  <2>4. QED
    BY <2>1, <2>2, <2>3 DEF Pushable
<1>18. HeadNamed(s) /\ Unlisting(s, list', dll'.shown)
  <2>1. v # << >> => v[1].do \notin Wary
    <3>1. v # << >> => 1 \in DOMAIN v
      BY <1>9, <1>12, ListIsSeq
    <3>2. QED
      BY <1>11, <3>1 DEF Wary, Chain
  <2>2. th[t].work[1].do \notin Chain
    BY <1>10 DEF Chain
  <2>3. QED
    BY <1>9, <1>10, <1>13, <2>1, <2>2, HeadAfter DEF Turn
<1>19. Told(t, v)
  <2>1. \A n \in FireWire : \E i \in DOMAIN v : Hiding(v[i], n)
    BY <1>6, <1>9 DEF Hiding
  <2>2. QED
    BY <2>1 DEF Told
<1>20. ASSUME ~dll'.raced
       PROVE  ~dll.raced /\ Frame(t) /\ Entries'
  <2>1. Grows(t)
    BY <1>1, SameList DEF LeavesList
  <2>2. QED
    BY <1>20, <2>1 DEF Grows
<1>21. QED
  BY <1>15, <1>17, <1>18, <1>19, <1>20, Moves

-----------------------------------------------------------------------------
(* An entry goes, and all of them go.                                      *)

LEMMA LeastNat ==
  ASSUME NEW S, S \subseteq Nat, S # {}
  PROVE  \E x \in S : \A y \in S : x <= y
<1>1. IsWellFoundedOn(OpToRel(<, Nat), Nat)
  BY NatLessThanWellFounded
<1>2. PICK x \in S : \A y \in S : <<y, x>> \notin OpToRel(<, Nat)
  BY <1>1, WFMin
<1>3. \A y \in S : ~(y < x)
  BY <1>2 DEF OpToRel
<1>4. QED
  BY <1>3

LEMMA WithoutIs ==
  ASSUME IsList(list), NEW n
  PROVE  \/ Without(n) = list /\ n \notin Names(list)
         \/ \E i \in DOMAIN list :
              /\ list[i].name = n /\ IsList(Without(n)) /\ Len(Without(n)) = Len(list) - 1
              /\ \A k \in DOMAIN Without(n) : Without(n)[k] = IF k < i THEN list[k] ELSE list[k + 1]
<1>1. CASE n \notin Names(list)
  BY <1>1 DEF Without, Listed
<1>2. CASE n \in Names(list)
  <2> DEFINE i == CHOOSE k \in DOMAIN list : list[k].name = n /\ \A j \in 1..(k - 1) : list[j].name # n
             S == {list[k] : k \in DOMAIN list}
             x == SubSeq(list, 1, i - 1)
             y == SubSeq(list, i + 1, Len(list))
  <2>1. Len(list) \in Nat /\ DOMAIN list = 1..Len(list)
    BY ListIsSeq
  <2>2. \E k \in DOMAIN list : list[k].name = n /\ \A j \in 1..(k - 1) : list[j].name # n
    <3> DEFINE T == {k \in DOMAIN list : list[k].name = n}
    <3>1. T \subseteq Nat /\ T # {}
      BY <1>2, <2>1 DEF Names
    <3>2. PICK k \in T : \A j \in T : k <= j
      BY <3>1, LeastNat
    <3>3. ASSUME NEW j \in 1..(k - 1)
          PROVE  list[j].name # n
      <4>1. j \in DOMAIN list /\ ~(k <= j)
        BY <2>1, <3>2
      <4>2. QED
        BY <3>2, <4>1
    <3>4. QED
      BY <3>2, <3>3
  <2>3. i \in DOMAIN list /\ list[i].name = n
    BY <2>2
  <2>4. Without(n) = x \o y
    BY <1>2 DEF Without, Listed
  <2> HIDE DEF i
  <2>5. i \in Nat /\ 1 <= i /\ i <= Len(list)
    BY <2>1, <2>3
  <2>6. /\ \A k \in 1..(i - 1) : list[k] \in S
        /\ \A k \in (i + 1)..Len(list) : list[k] \in S
    BY <2>1, <2>5
  <2> HIDE DEF S
  <2>7. /\ x \in Seq(S) /\ Len(x) = i - 1 /\ \A k \in 1..(i - 1) : x[k] = list[k]
    <3>1. /\ x \in Seq(S) /\ Len(x) = IF 1 <= i - 1 THEN (i - 1) - 1 + 1 ELSE 0
          /\ \A k \in 1..((i - 1) - 1 + 1) : x[k] = list[1 + k - 1]
      BY <2>5, <2>6, SubSeqProperties
    <3>2. (i - 1) - 1 + 1 = i - 1 /\ \A k \in 1..(i - 1) : 1 + k - 1 = k
      BY <2>5
    <3>3. QED
      BY <2>5, <3>1, <3>2
  <2>8. /\ y \in Seq(S) /\ Len(y) = Len(list) - i /\ \A k \in 1..(Len(list) - i) : y[k] = list[i + k]
    <3>1. /\ y \in Seq(S) /\ Len(y) = IF i + 1 <= Len(list) THEN Len(list) - (i + 1) + 1 ELSE 0
          /\ \A k \in 1..(Len(list) - (i + 1) + 1) : y[k] = list[(i + 1) + k - 1]
      BY <2>1, <2>5, <2>6, SubSeqProperties
    <3>2. Len(list) - (i + 1) + 1 = Len(list) - i /\ \A k \in 1..(Len(list) - i) : (i + 1) + k - 1 = i + k
      BY <2>1, <2>5
    <3> HIDE DEF y
    <3>3. Len(y) = Len(list) - i
      <4>1. CASE i + 1 <= Len(list)
        <5>1. Len(y) = Len(list) - (i + 1) + 1
          BY <3>1, <4>1
        <5>2. QED
          BY <2>1, <2>5, <5>1
      <4>2. CASE ~(i + 1 <= Len(list))
        <5>1. Len(y) = 0
          BY <3>1, <4>2
        <5>2. Len(list) \in Nat /\ i \in Nat /\ i <= Len(list)
          BY <2>1, <2>5
        <5>3. Len(list) - i = 0
          BY <4>2, <5>2
        <5>4. QED
          BY <5>1, <5>3
      <4>3. QED
        BY <4>1, <4>2
    <3>4. \A k \in 1..(Len(list) - i) : y[k] = list[i + k]
      BY <3>1, <3>2
    <3>5. QED
      BY <3>1, <3>3, <3>4
  <2> HIDE DEF x, y
  <2>9. IsList(x) /\ IsList(y)
    BY <2>7, <2>8, SeqIsList
  <2> DEFINE z == x \o y
  <2>10. /\ IsList(z) /\ Len(z) = Len(x) + Len(y)
         /\ \A k \in DOMAIN z : z[k] = IF k <= Len(x) THEN x[k] ELSE y[k - Len(x)]
    BY <2>9, ListBefore
  <2> HIDE DEF z
  <2>11. Len(z) = Len(list) - 1
    BY <2>1, <2>5, <2>7, <2>8, <2>10
  <2>12. DOMAIN z = 1..(Len(list) - 1)
    BY <2>10, <2>11, ListIsSeq
  <2>13. ASSUME NEW k \in DOMAIN z
         PROVE  z[k] = IF k < i THEN list[k] ELSE list[k + 1]
    <3>1. k \in Nat /\ 1 <= k /\ k <= Len(list) - 1
      BY <2>1, <2>12
    <3>2. CASE k < i
      <4>1. k <= Len(x) /\ k \in 1..(i - 1)
        BY <2>5, <2>7, <3>1, <3>2
      <4>2. QED
        BY <2>7, <2>10, <3>2, <4>1
    <3>3. CASE ~(k < i)
      <4>1. ~(k <= Len(x)) /\ k - Len(x) \in 1..(Len(list) - i) /\ i + (k - Len(x)) = k + 1
        BY <2>1, <2>5, <2>7, <3>1, <3>3
      <4>2. y[k - Len(x)] = list[i + (k - Len(x))]
        BY <2>8, <4>1
      <4>3. QED
        BY <2>10, <3>3, <4>1, <4>2
    <3>4. QED
      BY <3>2, <3>3
  <2>14. Without(n) = z
    BY <2>4 DEF z
  <2>15. QED
    BY <2>3, <2>10, <2>11, <2>13, <2>14
<1>3. QED
  BY <1>1, <1>2

LEMMA EntriesWithout ==
  ASSUME Entries, machine' = machine, dll.shown \subseteq dll'.shown, NEW n, list' = Without(n)
  PROVE  Entries' /\ \A m \in Names(list) : m = n \/ m \in Names(list')
<1>0. IsList(list)
  BY DEF Entries
<1>1. CASE list' = list
  BY <1>1, EntriesStay
<1>2. CASE list' # list
  <2>1. PICK i \in DOMAIN list :
          /\ list[i].name = n /\ IsList(list') /\ Len(list') = Len(list) - 1
          /\ \A k \in DOMAIN list' : list'[k] = IF k < i THEN list[k] ELSE list[k + 1]
    BY <1>0, <1>2, WithoutIs
  <2>2. Len(list) \in Nat /\ DOMAIN list = 1..Len(list) /\ DOMAIN list' = 1..(Len(list) - 1)
    <3>1. DOMAIN list' = 1..Len(list')
      BY <2>1, ListIsSeq
    <3>2. QED
      BY <1>0, <2>1, <3>1, ListIsSeq
  <2> DEFINE f(k) == IF k < i THEN k ELSE k + 1
  <2>3. \A k \in DOMAIN list' : f(k) \in DOMAIN list /\ list'[k] = list[f(k)]
    <3> SUFFICES ASSUME NEW k \in DOMAIN list'
                 PROVE  f(k) \in DOMAIN list /\ list'[k] = list[f(k)]
      OBVIOUS
    <3>1. CASE k < i
      BY <2>1, <2>2, <3>1
    <3>2. CASE ~(k < i)
      BY <2>1, <2>2, <3>2
    <3>3. QED
      BY <3>1, <3>2
  <2>4. \A k, l \in DOMAIN list' : k # l => f(k) # f(l)
    BY <2>2
  <2> HIDE DEF f
  <2>5. AirCards' = AirCards /\ ImCards' = ImCards /\ FireWire' = FireWire
    BY NamesStay
  <2>6. ASSUME NEW k \in DOMAIN list'
        PROVE  /\ list'[k] = Entry(list'[k].name, list'[k].flag)
               /\ list'[k].name \in AirCards => list'[k].flag = "air"
               /\ list'[k].name \in ImCards => list'[k].flag = "im"
               /\ list'[k].name \in FireWire \ dll'.shown => list'[k].flag = "hidden"
    BY <2>3 DEF Entries
  <2>7. ASSUME NEW k \in DOMAIN list', NEW l \in DOMAIN list', k # l,
               Library(list'[k].flag) # "dag", Library(list'[l].flag) # "dag"
        PROVE  list'[k].name # list'[l].name
    <3>1. f(k) # f(l) /\ f(k) \in Unlisted("dag") /\ f(l) \in Unlisted("dag")
      BY <2>3, <2>4, <2>7 DEF Unlisted
    <3>2. QED
      BY <2>3, <3>1 DEF Entries
  <2>8. Entries'
    BY <2>1, <2>5, <2>6, <2>7 DEF Entries, Unlisted
  <2>9. ASSUME NEW j \in DOMAIN list, list[j].name # n
        PROVE  list[j].name \in Names(list')
    <3>1. CASE j < i
      <4>1. j \in DOMAIN list' /\ list'[j] = list[j]
        BY <2>1, <2>2, <3>1
      <4>2. QED
        BY <4>1 DEF Names
    <3>2. CASE j > i
      <4>1. j - 1 \in DOMAIN list' /\ ~(j - 1 < i) /\ (j - 1) + 1 = j
        BY <2>2, <3>2
      <4>2. list'[j - 1] = list[j]
        BY <2>1, <4>1
      <4>3. QED
        BY <4>1, <4>2 DEF Names
    <3>3. j # i
      BY <2>1, <2>9
    <3>4. QED
      BY <2>2, <3>1, <3>2, <3>3
  <2>10. QED
    BY <2>8, <2>9 DEF Names
<1>3. QED
  BY <1>1, <1>2

LEMMA UpdateSteps ==
  ASSUME ListInv, DllInv', NEW t \in Threads, machine' = machine, PacketUpdateAdInfo(t)
  PROVE  ListInv'
<1> DEFINE n == Arg(t)
           w == th[t].work
           x == Do("add", n)
           y == Do("others", n)
           v == <<x, y>>
           s == Then(t, v)
           shown == dll.shown \cup (FireWire \cap {n})
<1>1. /\ Doing(t, "update") /\ CanLock(t) /\ mutex' = mutex
      /\ \/ Goes(t, << >>) /\ UNCHANGED <<list, dll>>
         \/ Becomes(t, s) /\ list' = Without(n) /\ dll' = [dll EXCEPT !.shown = shown]
  BY DEF PacketUpdateAdInfo, Goes
<1>2. DllInv /\ (~dll.raced => Entries)
  BY DEF ListInv, ListHolds
<1>3. CASE Goes(t, << >>) /\ UNCHANGED <<list, dll>>
  <2>1. LeavesList
    BY <1>1, <1>3 DEF LeavesList
  <2>2. "update" \notin Chain \cup Hides \cup {"lock", "unlock"}
    BY DEF Chain, Hides
  <2>3. QED
    BY <1>1, <1>3, <2>1, <2>2, GoesOn, MildTuples
<1>4. CASE Becomes(t, s) /\ list' = Without(n) /\ dll' = [dll EXCEPT !.shown = shown]
  <2>1. dll'.raced = dll.raced /\ dll'.shown = shown
    <3> HIDE DEF shown
    <3>1. [dll EXCEPT !.shown = shown].raced = dll.raced /\ [dll EXCEPT !.shown = shown].shown = shown
      BY <1>2, DllFields
    <3>2. QED
      BY <1>4, <3>1
  <2>2. x.do = "add" /\ x.name = n /\ y.do = "others"
    BY DoIs
  <2> HIDE DEF x, y
  <2>3. IsList(v) /\ v # << >>
    BY TupleList
  <2>4. v[1] = x /\ \A i \in DOMAIN v : v[i] \in {x, y}
    OBVIOUS
  <2>5. TRUE \in BOOLEAN
    OBVIOUS
  <2> HIDE DEF v
  <2>6. Turn(t, v, s)
    BY <1>1, <1>2, <1>4, <2>3, <2>5, TurnTo
  <2>7. w # << >> /\ Shape(w) /\ w[1].do = "update"
    BY <1>1, <1>2, AtWork
  <2>8. \A i \in DOMAIN v : v[i].do \notin Hides \cup {"lock", "unlock", "link", "card"} /\ ItemNames(v[i])
    BY <2>2, <2>4 DEF Hides, ItemNames
  <2>9. Move(t, v, 0, s)
    <3>1. Ends(v, 0)
      BY <2>8 DEF Ends
    <3>2. QED
      BY <1>1, <2>6, <2>7, <3>1 DEF Move
  <2>10. Pushable(t, v, 0)
    <3>1. Fits(v, Depth(mutex, t) + 0, FireWire)
      BY <2>8 DEF Fits
    <3>2. ~BeforeHides(w[1], FireWire)
      BY <2>7 DEF BeforeHides, Chain
    <3>3. QED
      BY <2>8, <3>1, <3>2 DEF Pushable
  <2>11. HeadNamed(s) /\ Unlisting(s, list', dll'.shown)
    <3>1. v[1].do \notin Wary /\ w[1].do \notin Chain
      BY <2>2, <2>4, <2>7 DEF Wary, Chain
    <3>2. QED
      BY <2>3, <2>6, <2>7, <3>1, HeadAfter DEF Turn
  <2> HIDE DEF s, n
  <2>12. ASSUME ~dll'.raced
         PROVE  ~dll.raced /\ Frame(t) /\ Entries' /\ Told(t, v)
    <3>1. ~dll.raced /\ Frame(t) /\ Entries
      BY <1>1, <1>2, <2>1, <2>12 DEF Frame
    <3>2. Entries' /\ \A m \in Names(list) : m = n \/ m \in Names(list')
      BY <1>4, <2>1, <2>6, <3>1, EntriesWithout DEF Turn
    <3>3. ASSUME NEW m \in FireWire, m # n
          PROVE  \A i \in DOMAIN v : Harmless(v[i], m)
      BY <2>2, <2>4, <3>3 DEF Harmless
    <3>4. ASSUME NEW m \in FireWire
          PROVE  \/ m \in dll'.shown \/ m \in Names(list')
                 \/ /\ m \notin dll.shown /\ m \notin Names(list) /\ \A i \in DOMAIN v : Harmless(v[i], m)
      <4>1. CASE m = n
        BY <2>1, <4>1
      <4>2. CASE m # n
        BY <2>1, <3>2, <3>3, <4>2
      <4>3. QED
        BY <4>1, <4>2
    <3>5. w[1].do # "npfs" /\ w[1].do # "hide"
      BY <2>7
    <3>6. Told(t, v)
      BY <3>4, <3>5 DEF Told
    <3>7. QED
      BY <3>1, <3>2, <3>6
  <2>13. QED
    BY <2>9, <2>10, <2>11, <2>12, Moves
<1>5. QED
  BY <1>1, <1>3, <1>4

(* Nothing is listed or shown, and all adapters are to be added.           *)
LEMMA PopulateSteps ==
  ASSUME ListInv, DllInv', NEW t \in Threads, machine' = machine, PacketPopulateAdaptersInfoList(t)
  PROVE  ListInv'
<1> DEFINE order == <<"npfs", "iphs", "fake", "airs", "ims", "dags", "unlock">>
           v == Everything(order)
           s == Then(t, v)
           w == th[t].work
<1>1. /\ Doing(t, "populate") /\ Lock(t) /\ Becomes(t, s)
      /\ list' = << >> /\ dll' = [dll EXCEPT !.shown = {}]
  BY DEF PacketPopulateAdaptersInfoList, Goes
<1>2. DllInv /\ MutexHeld /\ Depth(mutex, t) \in Nat
  BY DepthIsNat DEF ListInv
<1>3. dll'.raced = dll.raced /\ dll'.shown = {}
  <2>1. [dll EXCEPT !.shown = {}].raced = dll.raced /\ [dll EXCEPT !.shown = {}].shown = {}
    BY <1>2, DllFields
  <2>2. QED
    BY <1>1, <2>1
<1>4. /\ IsList(order) /\ Len(order) = 7 /\ DOMAIN order = 1..7 /\ order[1] = "npfs" /\ order[7] = "unlock"
      /\ \A i \in 2..6 : order[i] \in {"iphs", "fake", "airs", "ims", "dags"}
  <2>1. order \in Seq({"npfs", "iphs", "fake", "airs", "ims", "dags", "unlock"})
    OBVIOUS
  <2>2. Len(order) = 7 /\ DOMAIN order = 1..7 /\ order[1] = "npfs" /\ order[7] = "unlock"
    OBVIOUS
  <2>3. order[2] = "iphs" /\ order[3] = "fake" /\ order[4] = "airs" /\ order[5] = "ims" /\ order[6] = "dags"
    OBVIOUS
  <2> HIDE DEF order
  <2>4. \A i \in 2..6 : i \in {2, 3, 4, 5, 6}
    OBVIOUS
  <2>5. QED
    BY <2>1, <2>2, <2>3, <2>4, SeqIsList
<1> HIDE DEF order
<1>5. /\ IsList(v) /\ DOMAIN v = 1..7 /\ Len(v) = 7 /\ v[1].do = "npfs" /\ v[7].do = "unlock"
      /\ \A i \in 2..6 : v[i].do \in {"iphs", "fake", "airs", "ims", "dags"}
  BY <1>4, EverythingIs
<1> HIDE DEF v
<1>6. v # << >> /\ \A i \in DOMAIN v : i \in Nat /\ (i = 1 \/ i = 7 \/ i \in 2..6)
  <2>1. v # << >>
    <3>1. 1 \in DOMAIN v /\ DOMAIN << >> = {}
      BY <1>5
    <3>2. QED
      BY <3>1
  <2>2. \A i \in 1..7 : i \in Nat /\ (i = 1 \/ i = 7 \/ i \in 2..6)
    OBVIOUS
  <2>3. QED
    BY <1>5, <2>1, <2>2
<1>7. Turn(t, v, s)
  <2>1. TRUE \in BOOLEAN
    OBVIOUS
  <2>2. QED
    BY <1>1, <1>2, <1>5, <2>1, TurnTo
<1>8. w # << >> /\ Shape(w) /\ w[1].do = "populate"
  BY <1>1, <1>2, AtWork
<1>9. Ends(v, 1)
  <2>1. \A i \in DOMAIN v : v[i].do # "lock" /\ (v[i].do = "unlock" <=> i = 7)
    BY <1>5, <1>6
  <2>2. QED
    BY <1>5, <1>6, <2>1 DEF Ends
<1>10. Move(t, v, 1, s)
  BY <1>1, <1>7, <1>8, <1>9 DEF Move
<1>11. Pushable(t, v, 1)
  <2>1. Fits(v, Depth(mutex, t) + 1, FireWire)
    <3>1. Depth(mutex, t) + 1 >= 1
      BY <1>2
    <3>2. \A j \in DOMAIN v : v[j].do \in Hides => j = 1
      BY <1>5, <1>6 DEF Hides
    <3>3. QED
      BY <3>1, <3>2 DEF Fits
  <2>2. ~BeforeHides(w[1], FireWire)
    BY <1>8 DEF BeforeHides, Chain
  <2>3. \A i \in DOMAIN v : ItemNames(v[i])
    BY <1>5, <1>6 DEF ItemNames
  <2>4. QED
    BY <2>1, <2>2, <2>3 DEF Pushable
<1>12. HeadNamed(s) /\ Unlisting(s, list', dll'.shown)
  <2>1. v[1].do \notin Wary /\ w[1].do \notin Chain
    BY <1>5, <1>8 DEF Wary, Chain
  <2>2. QED
    BY <1>5, <1>6, <1>7, <1>8, <2>1, HeadAfter DEF Turn
<1>13. Told(t, v)
  <2>1. 1 \in DOMAIN v
    BY <1>5
  <2>2. QED
    BY <1>5, <2>1 DEF Told, Hiding
<1>14. Entries'
  <2>0. IsList(<< >>) /\ DOMAIN << >> = {}
    BY DEF IsList
  <2>1. IsList(list') /\ DOMAIN list' = {}
    BY <1>1, <2>0
  <2>2. QED
    BY <2>1 DEF Entries, Unlisted
<1>15. Frame(t)
  BY <1>1 DEF Frame, Lock
<1>16. QED
  BY <1>3, <1>10, <1>11, <1>12, <1>13, <1>14, <1>15, Moves

-----------------------------------------------------------------------------
(* PacketOpenAdapterNPF: what is to follow stays, and so does its name.    *)

LEMMA ChainIs ==
  ASSUME ListInv, NEW t \in Threads, NEW do \in Chain, Doing(t, do)
  PROVE  LET w == th[t].work
         IN /\ w # << >> /\ IsList(w) /\ Shape(w) /\ Len(w) >= 2 /\ w[1].do = do /\ w[2].do \in AfterChain
            /\ Arg(t) = w[1].name /\ w[2].name = Arg(t) /\ ThreadFields(th[t])
            /\ do = "event" => Arg(t) \in MacNames
            /\ ~dll.raced => Unlisting(th[t], list, dll.shown)
<1>1. DllInv /\ HeadNamed(th[t]) /\ (~dll.raced => Unlisting(th[t], list, dll.shown))
  BY DEF ListInv, ListHolds, Named
<1>2. /\ th[t].work # << >> /\ Shape(th[t].work) /\ th[t].work[1].do = do /\ Arg(t) = th[t].work[1].name
      /\ ThreadFields(th[t])
  BY <1>1, AtWork
<1>3. After(do) = AfterChain /\ AfterChain # Plain
  BY Plainly DEF AfterChain, Plain
<1>4. IsList(th[t].work) /\ Len(th[t].work) >= 2 /\ th[t].work[2].do \in AfterChain
  BY <1>2, <1>3 DEF Shape
<1>5. th[t].work[2].name = Arg(t) /\ (do = "event" => Arg(t) \in MacNames)
  BY <1>1, <1>2 DEF HeadNamed
<1>6. QED
  BY <1>1, <1>2, <1>4, <1>5

LEMMA ListStays ==
  ASSUME ListInv, LeavesList, NEW t
  PROVE  ~dll'.raced => ~dll.raced /\ Frame(t) /\ Entries'
<1>1. machine' = machine /\ list' = list /\ dll.shown \subseteq dll'.shown /\ (~dll'.raced => ~dll.raced)
  BY DEF LeavesList
<1>2. QED
  BY <1>1, SameList DEF Grows

LEMMA ChainGoesList ==
  ASSUME ListInv, DllInv', NEW t \in Threads, NEW do \in Chain, Doing(t, do), LeavesList,
         NEW y \in Chain, Goes(t, <<Do(y, Arg(t))>>), y = "event" => Arg(t) \in MacNames
  PROVE  ListInv'
<1> DEFINE n == Arg(t)
           w == th[t].work
           x == Do(y, n)
           v == <<x>>
           s == Then(t, v)
<1>1. /\ w # << >> /\ IsList(w) /\ Shape(w) /\ Len(w) >= 2 /\ w[1].do = do /\ w[2].do \in AfterChain
      /\ n = w[1].name /\ w[2].name = n /\ ThreadFields(th[t])
      /\ ~dll.raced => Unlisting(th[t], list, dll.shown)
  BY ChainIs
<1>2. x.do = y /\ x.name = n
  BY DoIs
<1>3. Becomes(t, s) /\ DllInv /\ TRUE \in BOOLEAN
  BY DEF Goes, ListInv
<1> HIDE DEF x
<1>4. IsList(v) /\ v # << >>
  BY TupleList
<1>5. v[1] = x /\ Len(v) = 1 /\ \A i \in DOMAIN v : v[i] = x
  OBVIOUS
<1>6. s.seen = th[t].seen /\ s.file = th[t].file
  <2> HIDE DEF v
  <2>1. QED
    BY <1>1, SeenIs
<1> HIDE DEF v
<1>7. Turn(t, v, s)
  BY <1>3, <1>4, TurnTo DEF LeavesList
<1>8. s.work # << >> /\ s.work[1] = x /\ s.work[2] = w[2]
  <2>1. s.work = v \o Tail(w)
    BY <1>7 DEF Turn
  <2> HIDE DEF s, w
  <2>2. (v \o Tail(w)) # << >> /\ (v \o Tail(w))[1] = v[1] /\ (v \o Tail(w))[2] = w[2]
    BY <1>1, <1>4, <1>5, FirstOf
  <2>3. QED
    BY <1>5, <2>1, <2>2
<1>9. y \notin {"link", "card", "lock", "unlock", "add"} \cup Hides \cup AfterChain
  BY DEF Chain, Hides, AfterChain
<1>10. Move(t, v, 0, s)
  <2>1. do \notin {"lock", "unlock"}
    BY DEF Chain
  <2>2. Ends(v, 0)
    BY <1>2, <1>5, <1>9 DEF Ends
  <2>3. QED
    BY <1>1, <1>7, <2>1, <2>2 DEF Move, LeavesList
<1>11. Pushable(t, v, 0)
  <2>1. Fits(v, Depth(mutex, t) + 0, FireWire)
    BY <1>2, <1>5, <1>9 DEF Fits
  <2>2. BeforeHides(x, FireWire) /\ ItemNames(x)
    BY <1>2, <1>9 DEF BeforeHides, ItemNames, Chain, Hides
  <2>3. QED
    BY <1>5, <2>1, <2>2 DEF Pushable
<1> HIDE DEF s, n, w
<1>12. HeadNamed(s)
  <2>1. y = "event" => n \in MacNames
    BY DEF n
  <2>2. QED
    BY <1>1, <1>2, <1>8, <1>9, <2>1 DEF HeadNamed
<1>13. ASSUME ~dll'.raced
       PROVE  ~dll.raced /\ Frame(t) /\ Entries' /\ Unlisting(s, list', dll'.shown) /\ Told(t, v)
  <2>1. ~dll.raced /\ Frame(t) /\ Entries'
    BY <1>13, ListStays
  <2>2. list' = list /\ dll'.shown = dll.shown
    BY DEF LeavesList
  <2>3. Unlisting(s, list, dll.shown)
    <3>1. \A d \in AfterChain : Towards(s.work, d) => Towards(w, d)
      BY <1>1, <1>2, <1>8, <1>9 DEF Towards
    <3>2. \A d \in {"first", "prepend"} : ~Towards(s.work, d)
      BY <1>1, <1>2, <1>8 DEF Towards, Chain, AfterChain
    <3>3. {"link", "shut"} \subseteq AfterChain
      BY DEF AfterChain
    <3>4. Unlisting(th[t], list, dll.shown) /\ th[t].work = w
      BY <1>1, <2>1 DEF w
    <3>5. QED
      BY <1>1, <1>2, <1>6, <1>8, <1>9, <3>1, <3>2, <3>3, <3>4 DEF Unlisting
  <2>4. Told(t, v)
    <3>1. \A m : Harmless(x, m)
      BY <1>2, <1>9 DEF Harmless, Chain
    <3>2. th[t].work[1].do \notin Hides
      BY <1>1 DEF Chain, Hides, w
    <3>3. QED
      BY <1>5, <2>2, <3>1, <3>2 DEF Told, Hides
  <2>5. QED
    BY <2>1, <2>2, <2>3, <2>4
<1>14. QED
  BY <1>10, <1>11, <1>12, <1>13, Moves

LEMMA ChainLeavesList ==
  ASSUME ListInv, DllInv', NEW t \in Threads, NEW do \in Chain, Doing(t, do), LeavesList, NEW b \in BOOLEAN,
         Becomes(t, [Then(t, << >>) EXCEPT !.file = b]), b => do = "event"
  PROVE  ListInv'
<1> DEFINE n == Arg(t)
           w == th[t].work
           v == << >>
           s == [Then(t, v) EXCEPT !.file = b]
<1>1. /\ w # << >> /\ IsList(w) /\ Shape(w) /\ Len(w) >= 2 /\ w[1].do = do /\ w[2].do \in AfterChain
      /\ n = w[1].name /\ w[2].name = n /\ ThreadFields(th[t]) /\ (do = "event" => n \in MacNames)
      /\ ~dll.raced => Unlisting(th[t], list, dll.shown)
  BY ChainIs
<1>2. Becomes(t, s) /\ DllInv
  BY DEF ListInv
<1>3. IsList(v) /\ v = << >> /\ DOMAIN v = {}
  BY DEF IsList
<1>4. s.seen = th[t].seen /\ s.file = b
  <2> HIDE DEF v
  <2>1. QED
    BY <1>1, SeenIs
<1> HIDE DEF v
<1>5. Turn(t, v, s)
  BY <1>2, <1>3, TurnTo DEF LeavesList
<1>6. s.work # << >> /\ s.work[1] = w[2]
  <2>1. s.work = v \o Tail(w)
    BY <1>5 DEF Turn
  <2> HIDE DEF s, w
  <2>2. v \o Tail(w) = Tail(w) /\ Tail(w)[1] = w[2]
    BY <1>1, <1>3, FirstOf
  <2>3. After(w[1].do) # Plain
    BY <1>1, Plainly DEF AfterChain, Plain
  <2>4. Tail(w) # << >>
    BY <1>1, <2>3, Popped
  <2>5. QED
    BY <2>1, <2>2, <2>4
<1>7. Move(t, v, 0, s)
  <2>1. do \notin {"lock", "unlock"}
    BY DEF Chain
  <2>2. Ends(v, 0)
    BY <1>3 DEF Ends
  <2>3. QED
    BY <1>1, <1>5, <2>1, <2>2 DEF Move, LeavesList
<1>8. Pushable(t, v, 0)
  BY <1>3 DEF Pushable, Fits
<1> HIDE DEF s, n, w
<1>9. HeadNamed(s)
  BY <1>1, <1>4, <1>6 DEF HeadNamed, Chain, AfterChain
<1>10. ASSUME ~dll'.raced
       PROVE  ~dll.raced /\ Frame(t) /\ Entries' /\ Unlisting(s, list', dll'.shown) /\ Told(t, v)
  <2>1. ~dll.raced /\ Frame(t) /\ Entries'
    BY <1>10, ListStays
  <2>2. list' = list /\ dll'.shown = dll.shown
    BY DEF LeavesList
  <2>3. Unlisting(s, list, dll.shown)
    <3>1. s.work[1].do \notin Chain \cup {"first", "prepend", "card"}
      BY <1>1, <1>6 DEF Chain, AfterChain
    <3>2. \A d : Towards(s.work, d) => d = w[2].do /\ Towards(w, d)
      BY <1>1, <1>6, <3>1 DEF Towards
    <3>3. ~Towards(s.work, "first") /\ ~Towards(s.work, "prepend")
      BY <1>6, <3>1, <3>2
    <3>4. Unlisting(th[t], list, dll.shown) /\ th[t].work = w
      BY <1>1, <2>1 DEF w
    <3>5. QED
      BY <1>1, <1>4, <1>6, <3>1, <3>2, <3>3, <3>4 DEF Unlisting
  <2>4. Told(t, v)
    <3>1. th[t].work[1].do \notin Hides
      BY <1>1 DEF Chain, Hides, w
    <3>2. QED
      BY <1>3, <2>2, <3>1 DEF Told, Hides
  <2>5. QED
    BY <2>1, <2>2, <2>3, <2>4
<1>11. QED
  BY <1>7, <1>8, <1>9, <1>10, Moves

LEMMA NpfSteps ==
  ASSUME ListInv, DllInv', NEW t \in Threads, machine' = machine, NpfNext(t)
  PROVE  ListInv'
<1>0. DllInv
  BY DEF ListInv
<1>1. LeavesList
  <2>1. UNCHANGED <<machine, list, mutex>> /\ (dll' = dll \/ dll' = [dll EXCEPT !.leaked = dll.leaked + 1])
    BY DEF NpfNext, PacketOpenAdapterNPF, InstallFirst, InstallAgain, OpenServiceFirst, OpenServiceAgain,
       StartDriver, CloseService, OpenTheFile, PacketSetReadEvt, KeepAdapters
  <2>2. /\ [dll EXCEPT !.leaked = dll.leaked + 1].raced = dll.raced
        /\ [dll EXCEPT !.leaked = dll.leaked + 1].shown = dll.shown
    BY <1>0, DllFields
  <2>3. QED
    BY <2>1, <2>2 DEF LeavesList
<1>2. PICK do \in Chain : Doing(t, do) /\
        \/ \E y \in Chain : Goes(t, <<Do(y, Arg(t))>>) /\ (y = "event" => CanOpen(Arg(t)))
        \/ \E b \in BOOLEAN : Becomes(t, [Then(t, << >>) EXCEPT !.file = b]) /\ (b => do = "event")
  <2>1. CASE PacketOpenAdapterNPF(t) \/ InstallFirst(t) \/ InstallAgain(t)
    <3>1. PICK do \in {"npf", "install", "again"} : Doing(t, do)
      BY <2>1 DEF PacketOpenAdapterNPF, InstallFirst, InstallAgain
    <3>2. PICK y \in {"service", "install", "file", "again", "blind"} : Goes(t, <<Do(y, Arg(t))>>)
      BY <2>1 DEF PacketOpenAdapterNPF, InstallFirst, InstallAgain
    <3>3. do \in Chain /\ y \in Chain /\ y # "event"
      BY DEF Chain
    <3>4. QED
      BY <3>1, <3>2, <3>3
  <2>2. CASE OpenServiceFirst(t) \/ OpenServiceAgain(t)
    <3>1. PICK do \in {"service", "blind"} : Doing(t, do)
      BY <2>2 DEF OpenServiceFirst, OpenServiceAgain
    <3>2. PICK y \in {"close", "start", "file"} : Goes(t, <<Do(y, Arg(t))>>)
      BY <2>2 DEF OpenServiceFirst, OpenServiceAgain
    <3>3. do \in Chain /\ y \in Chain /\ y # "event"
      BY DEF Chain
    <3>4. QED
      BY <3>1, <3>2, <3>3
  <2>3. CASE StartDriver(t) \/ CloseService(t)
    <3>1. PICK do \in {"start", "close"} : Doing(t, do)
      BY <2>3 DEF StartDriver, CloseService
    <3>2. \/ \E y \in {"close", "file"} : Goes(t, <<Do(y, Arg(t))>>)
          \/ Becomes(t, [Then(t, << >>) EXCEPT !.file = FALSE])
      BY <2>3 DEF StartDriver, CloseService
    <3>3. do \in Chain /\ {"close", "file"} \subseteq Chain /\ "event" \notin {"close", "file"} /\ FALSE \in BOOLEAN
      BY DEF Chain
    <3>4. QED
      BY <3>1, <3>2, <3>3
  <2>4. CASE OpenTheFile(t)
    <3>1. Doing(t, "file") /\ "file" \in Chain /\ "event" \in Chain /\ FALSE \in BOOLEAN
      BY <2>4 DEF OpenTheFile, Chain
    <3>2. \/ Goes(t, <<Do("event", Arg(t))>>) /\ CanOpen(Arg(t))
          \/ Becomes(t, [Then(t, << >>) EXCEPT !.file = FALSE])
      BY <2>4 DEF OpenTheFile, Reachable
    <3>3. QED
      BY <3>1, <3>2
  <2>5. CASE PacketSetReadEvt(t)
    <3>1. Doing(t, "event") /\ "event" \in Chain /\ FALSE \in BOOLEAN /\ TRUE \in BOOLEAN
      BY <2>5 DEF PacketSetReadEvt, Chain
    <3>2. \/ Becomes(t, [Then(t, << >>) EXCEPT !.file = TRUE])
          \/ Becomes(t, [Then(t, << >>) EXCEPT !.file = FALSE])
      BY <2>5 DEF PacketSetReadEvt
    <3>3. QED
      BY <3>1, <3>2
  <2>6. QED
    BY <2>1, <2>2, <2>3, <2>4, <2>5 DEF NpfNext
<1>3. ASSUME NEW y \in Chain, Goes(t, <<Do(y, Arg(t))>>), y = "event" => CanOpen(Arg(t))
      PROVE  ListInv'
  <2>1. CanOpen(Arg(t)) => Arg(t) \in MacNames
    <3>1. drv.linked \subseteq MacNames
      BY <1>0 DEF DllInv, DllTypes, ServiceTypes
    <3>2. QED
      BY <3>1 DEF CanOpen
  <2>2. QED
    BY <1>1, <1>2, <1>3, <2>1, ChainGoesList
<1>4. ASSUME NEW b \in BOOLEAN, Becomes(t, [Then(t, << >>) EXCEPT !.file = b]), b => do = "event"
      PROVE  ListInv'
  BY <1>1, <1>2, <1>4, ChainLeavesList
<1>5. QED
  BY <1>2, <1>3, <1>4

-----------------------------------------------------------------------------
(* A call begins or ends: the thread has nothing, or a program whose lock  *)
(* and unlock match.                                                       *)

Calm == {"load", "populate", "lock", "unlock", "update", "find", "missing", "choose", "shutad", "stop", "send", "ask"}

LEMMA LevelOf ==
  ASSUME NEW F, NEW w, IsList(w), \A i \in DOMAIN w : w[i].do \in Calm,
         NEW S, 1 \notin S, Len(w) + 1 \notin S,
         \A i \in DOMAIN w : Steps(w[i].do, N(i \in S), N(i + 1 \in S))
  PROVE  Level(w, 0, F)
<1> DEFINE f == [i \in 1..(Len(w) + 1) |-> N(i \in S)]
<1>1. Len(w) \in Nat /\ DOMAIN w = 1..Len(w)
  BY ListIsSeq
<1>2. \A b : N(b) \in Nat
  BY DEF N
<1>3. f \in [1..(Len(w) + 1) -> Nat] /\ \A i \in 1..(Len(w) + 1) : f[i] = N(i \in S)
  BY <1>2
<1>4. 1 \in 1..(Len(w) + 1) /\ Len(w) + 1 \in 1..(Len(w) + 1)
      /\ \A i \in DOMAIN w : i \in 1..(Len(w) + 1) /\ i + 1 \in 1..(Len(w) + 1)
  BY <1>1
<1> HIDE DEF f
<1>5. f[1] = 0 /\ f[Len(w) + 1] = 0
  BY <1>3, <1>4 DEF N
<1>6. \A i \in DOMAIN w : Steps(w[i].do, f[i], f[i + 1])
  BY <1>3, <1>4
<1>7. \A i \in DOMAIN w : w[i].do \notin {"link", "card"} \cup Hides
  BY DEF Calm, Hides
<1>8. Levels(w, f) /\ Guarded(w, f, F)
  BY <1>3, <1>5, <1>6, <1>7 DEF Levels, Guarded
<1>9. QED
  BY <1>5, <1>8 DEF Level

CalmProgram(w, F) == (\A i \in DOMAIN w : w[i].do \in Calm) /\ Level(w, 0, F)

LEMMA Unlocked ==
  ASSUME NEW F, NEW w, IsList(w), \A i \in DOMAIN w : w[i].do \in Calm \ {"lock", "unlock"}
  PROVE  CalmProgram(w, F)
<1>1. \A i \in DOMAIN w : Steps(w[i].do, N(i \in {}), N(i + 1 \in {}))
  BY DEF Steps, N
<1>2. Level(w, 0, F)
  BY <1>1, LevelOf
<1>3. QED
  BY <1>2 DEF CalmProgram

LEMMA Locked ==
  ASSUME NEW F, NEW w, IsList(w), \A i \in DOMAIN w : w[i].do \in Calm,
         NEW a \in Nat, NEW b \in Nat, a < b, a >= 1, b = Len(w),
         w[a].do = "lock", w[b].do = "unlock",
         \A i \in DOMAIN w : i # a /\ i # b => w[i].do \notin {"lock", "unlock"}
  PROVE  CalmProgram(w, F)
<1> DEFINE S == (a + 1)..b
<1>1. DOMAIN w = 1..b
  BY ListIsSeq
<1>2. ASSUME NEW i \in DOMAIN w
      PROVE  Steps(w[i].do, N(i \in S), N(i + 1 \in S))
  <2>1. i \in Nat /\ i >= 1 /\ i <= b
    BY <1>1
  <2>2. CASE i = a
    <3>1. i \notin S /\ i + 1 \in S
      BY <2>1, <2>2
    <3>2. N(i \in S) = 0 /\ N(i + 1 \in S) = 1
      BY <3>1 DEF N
    <3>3. QED
      BY <2>2, <3>2 DEF Steps
  <2>3. CASE i = b
    <3>1. i \in S /\ i + 1 \notin S
      BY <2>1, <2>3
    <3>2. N(i \in S) = 1 /\ N(i + 1 \in S) = 0
      BY <3>1 DEF N
    <3>3. QED
      BY <2>3, <3>2 DEF Steps
  <2>4. CASE i # a /\ i # b
    <3>1. i \in S <=> i + 1 \in S
      BY <2>1, <2>4
    <3>2. N(i \in S) = N(i + 1 \in S)
      BY <3>1 DEF N
    <3>3. QED
      BY <2>4, <3>2 DEF Steps
  <2>5. QED
    BY <2>2, <2>3, <2>4
<1>3. 1 \notin S /\ Len(w) + 1 \notin S
  OBVIOUS
<1> HIDE DEF S
<1>4. Level(w, 0, F)
  BY <1>2, <1>3, LevelOf
<1>5. QED
  BY <1>4 DEF CalmProgram

LEMMA LockedTuples ==
  ASSUME NEW F, NEW x, NEW k, NEW y, NEW z, NEW c, NEW u, k.do = "lock", u.do = "unlock",
         \A i \in {x, y, z, c} : i.do \in Calm \ {"lock", "unlock"}
  PROVE  /\ CalmProgram(<<k, y, u>>, F) /\ CalmProgram(<<x, k, y, u>>, F)
         /\ CalmProgram(<<x, k, y, z, c, u>>, F)
<1>0. "lock" \in Calm /\ "unlock" \in Calm
  BY DEF Calm
<1>1. CalmProgram(<<k, y, u>>, F)
  <2> DEFINE w == <<k, y, u>>
  <2>1. IsList(w)
    BY TupleList
  <2>2. Len(w) = 3 /\ w[1] = k /\ w[3] = u /\ w[2] = y /\ DOMAIN w = {1, 2, 3}
    OBVIOUS
  <2> HIDE DEF w
  <2>3. (\A i \in DOMAIN w : w[i].do \in Calm) /\ \A i \in DOMAIN w : i # 1 /\ i # 3 => w[i].do \notin {"lock", "unlock"}
    BY <1>0, <2>2
  <2>4. 1 \in Nat /\ 3 \in Nat /\ 1 < 3 /\ 1 >= 1
    OBVIOUS
  <2>5. CalmProgram(w, F)
    BY <2>1, <2>2, <2>3, <2>4, Locked
  <2>6. QED
    BY <2>5 DEF w
<1>2. CalmProgram(<<x, k, y, u>>, F)
  <2> DEFINE w == <<x, k, y, u>>
  <2>1. IsList(w)
    <3>1. w \in Seq({x, k, y, u})
      OBVIOUS
    <3>2. QED
      BY <3>1, SeqIsList
  <2>2. Len(w) = 4 /\ w[1] = x /\ w[2] = k /\ w[3] = y /\ w[4] = u /\ DOMAIN w = {1, 2, 3, 4}
    OBVIOUS
  <2> HIDE DEF w
  <2>3. (\A i \in DOMAIN w : w[i].do \in Calm) /\ \A i \in DOMAIN w : i # 2 /\ i # 4 => w[i].do \notin {"lock", "unlock"}
    BY <1>0, <2>2
  <2>4. 2 \in Nat /\ 4 \in Nat /\ 2 < 4 /\ 2 >= 1
    OBVIOUS
  <2>5. CalmProgram(w, F)
    BY <2>1, <2>2, <2>3, <2>4, Locked
  <2>6. QED
    BY <2>5 DEF w
<1>3. CalmProgram(<<x, k, y, z, c, u>>, F)
  <2> DEFINE w == <<x, k, y, z, c, u>>
  <2>1. IsList(w)
    <3>1. w \in Seq({x, k, y, z, c, u})
      OBVIOUS
    <3>2. QED
      BY <3>1, SeqIsList
  <2>2. Len(w) = 6 /\ w[1] = x /\ w[2] = k /\ w[3] = y /\ w[4] = z /\ w[5] = c /\ w[6] = u
        /\ DOMAIN w = {1, 2, 3, 4, 5, 6}
    OBVIOUS
  <2> HIDE DEF w
  <2>3. (\A i \in DOMAIN w : w[i].do \in Calm) /\ \A i \in DOMAIN w : i # 2 /\ i # 6 => w[i].do \notin {"lock", "unlock"}
    BY <1>0, <2>2
  <2>4. 2 \in Nat /\ 6 \in Nat /\ 2 < 6 /\ 2 >= 1
    OBVIOUS
  <2>5. CalmProgram(w, F)
    BY <2>1, <2>2, <2>3, <2>4, Locked
  <2>6. QED
    BY <2>5 DEF w
<1>4. QED
  BY <1>1, <1>2, <1>3

(* PacketGetAdapterNames locks only to copy the names.                     *)
LEMMA NamesProgram ==
  ASSUME NEW F, NEW x, NEW y, NEW k, NEW u, k.do = "lock", u.do = "unlock",
         \A i \in {x, y} : i.do \in Calm \ {"lock", "unlock"}
  PROVE  CalmProgram(<<x, y, k, u>>, F)
<1>0. "lock" \in Calm /\ "unlock" \in Calm
  BY DEF Calm
<1> DEFINE w == <<x, y, k, u>>
<1>1. IsList(w)
  <2>1. w \in Seq({x, y, k, u})
    OBVIOUS
  <2>2. QED
    BY <2>1, SeqIsList
<1>2. Len(w) = 4 /\ w[1] = x /\ w[2] = y /\ w[3] = k /\ w[4] = u /\ DOMAIN w = {1, 2, 3, 4}
  OBVIOUS
<1> HIDE DEF w
<1>3. (\A i \in DOMAIN w : w[i].do \in Calm) /\ \A i \in DOMAIN w : i # 3 /\ i # 4 => w[i].do \notin {"lock", "unlock"}
  BY <1>0, <1>2
<1>4. 3 \in Nat /\ 4 \in Nat /\ 3 < 4 /\ 3 >= 1
  OBVIOUS
<1>5. CalmProgram(w, F)
  BY <1>1, <1>2, <1>3, <1>4, Locked
<1>6. QED
  BY <1>5 DEF w

LEMMA CalmPair ==
  ASSUME NEW F, NEW x, NEW y, \A i \in {x, y} : i.do \in Calm \ {"lock", "unlock"}
  PROVE  /\ CalmProgram(<< >>, F) /\ CalmProgram(<<x>>, F) /\ CalmProgram(<<x>> \o <<y>>, F)
<1>1. IsList(<< >>) /\ IsList(<<x>>) /\ IsList(<<y>>)
  BY TupleList
<1>2. DOMAIN << >> = {} /\ \A i \in DOMAIN <<x>> : <<x>>[i] = x
  OBVIOUS
<1>3. CalmProgram(<< >>, F) /\ CalmProgram(<<x>>, F)
  <2>1. CalmProgram(<< >>, F)
    BY <1>1, <1>2, Unlocked
  <2>2. \A i \in DOMAIN <<x>> : <<x>>[i].do \in Calm \ {"lock", "unlock"}
    BY <1>2
  <2>3. CalmProgram(<<x>>, F)
    BY <1>1, <2>2, Unlocked
  <2>4. QED
    BY <2>1, <2>3
<1> DEFINE p == <<x>>
           q == <<y>>
           v == p \o q
<1>4. /\ IsList(v) /\ Len(v) = Len(p) + Len(q)
      /\ \A i \in DOMAIN v : v[i] = IF i <= Len(p) THEN p[i] ELSE q[i - Len(p)]
  BY <1>1, ListBefore
<1>5. Len(p) = 1 /\ Len(q) = 1 /\ p[1] = x /\ q[1] = y
  OBVIOUS
<1> HIDE DEF p, q, v
<1>6. DOMAIN v = 1..2
  BY <1>4, <1>5, ListIsSeq
<1>7. v[1] = x /\ v[2] = y
  BY <1>4, <1>5, <1>6
<1>8. \A i \in DOMAIN v : v[i].do \in Calm \ {"lock", "unlock"}
  BY <1>6, <1>7
<1>9. CalmProgram(v, F)
  BY <1>4, <1>8, Unlocked
<1>10. QED
  BY <1>3, <1>9 DEF v, p, q

(* The programs a call can have.                                           *)
Fine(x) == x.do \in Calm \ {"lock", "unlock"}
Pair(k, u) == k.do = "lock" /\ u.do = "unlock"

LEMMA CalmShapes ==
  ASSUME NEW F
  PROVE  /\ CalmProgram(<< >>, F)
         /\ \A x : Fine(x) => CalmProgram(<<x>>, F)
         /\ \A x, y : Fine(x) /\ Fine(y) => CalmProgram(<<x>> \o <<y>>, F)
         /\ \A k, y, u : Pair(k, u) /\ Fine(y) => CalmProgram(<<k, y, u>>, F)
         /\ \A x, k, y, u : Pair(k, u) /\ Fine(x) /\ Fine(y) => CalmProgram(<<x, k, y, u>>, F)
         /\ \A x, y, k, u : Pair(k, u) /\ Fine(x) /\ Fine(y) => CalmProgram(<<x, y, k, u>>, F)
         /\ \A x, k, y, z, c, u : Pair(k, u) /\ Fine(x) /\ Fine(y) /\ Fine(z) /\ Fine(c)
              => CalmProgram(<<x, k, y, z, c, u>>, F)
<1>1. ASSUME NEW x, NEW y, Fine(x), Fine(y)
      PROVE  CalmProgram(<<x>> \o <<y>>, F) /\ CalmProgram(<<x>>, F)
  <2>1. \A i \in {x, y} : i.do \in Calm \ {"lock", "unlock"}
    BY <1>1 DEF Fine
  <2>2. QED
    BY <2>1, CalmPair
<1>2. ASSUME NEW x, NEW k, NEW y, NEW z, NEW c, NEW u, Pair(k, u), Fine(x), Fine(y), Fine(z), Fine(c)
      PROVE  /\ CalmProgram(<<k, y, u>>, F) /\ CalmProgram(<<x, k, y, u>>, F)
             /\ CalmProgram(<<x, k, y, z, c, u>>, F) /\ CalmProgram(<<x, y, k, u>>, F)
  <2>1. \A i \in {x, y, z, c} : i.do \in Calm \ {"lock", "unlock"}
    BY <1>2 DEF Fine
  <2>2. \A i \in {x, y} : i.do \in Calm \ {"lock", "unlock"}
    BY <2>1
  <2>3. k.do = "lock" /\ u.do = "unlock"
    BY <1>2 DEF Pair
  <2>4. CalmProgram(<<x, y, k, u>>, F)
    BY <2>2, <2>3, NamesProgram
  <2>5. QED
    BY <2>1, <2>3, <2>4, LockedTuples
<1>3. CalmProgram(<< >>, F)
  <2>1. IsList(<< >>) /\ DOMAIN << >> = {}
    BY DEF IsList
  <2>2. QED
    BY <2>1, Unlocked
<1>4. \A x : Fine(x) => CalmProgram(<<x>>, F)
  BY <1>1
<1>5. \A x, y : Fine(x) /\ Fine(y) => CalmProgram(<<x>> \o <<y>>, F)
  BY <1>1
<1>6. \A k, y, u : Pair(k, u) /\ Fine(y) => CalmProgram(<<k, y, u>>, F)
  BY <1>2
<1>7. \A x, k, y, u : Pair(k, u) /\ Fine(x) /\ Fine(y) => CalmProgram(<<x, k, y, u>>, F)
  BY <1>2
<1>8. \A x, y, k, u : Pair(k, u) /\ Fine(x) /\ Fine(y) => CalmProgram(<<x, y, k, u>>, F)
  BY <1>2
<1>9. \A x, k, y, z, c, u : Pair(k, u) /\ Fine(x) /\ Fine(y) /\ Fine(z) /\ Fine(c)
        => CalmProgram(<<x, k, y, z, c, u>>, F)
  BY <1>2
<1>10. QED
  BY <1>3, <1>4, <1>5, <1>6, <1>7, <1>8, <1>9

LEMMA ProgramsAreCalm ==
  ASSUME NEW F, NEW call, call.do \in DllCalls, NEW a
  PROVE  CalmProgram(Program(call, a), F)
<1>0. /\ {"load", "populate", "update", "find", "missing", "choose", "shutad", "stop", "send", "ask"}
           \subseteq Calm \ {"lock", "unlock"}
  BY DEF Calm
<1> DEFINE w == Program(call, a)
<1>1. CASE call.do = "names"
  <2> DEFINE x == Do("load", "all")
             y == Do("populate", "all")
             k == Do("lock", "all")
             u == Do("unlock", "all")
  <2>1. x.do = "load" /\ y.do = "populate" /\ k.do = "lock" /\ u.do = "unlock"
    BY DoIs
  <2>2. w = <<x, y, k, u>>
    BY <1>1 DEF Program, PacketGetAdapterNames
  <2> HIDE DEF x, y, k, u, w
  <2>0. Fine(x) /\ Fine(y) /\ Pair(k, u)
    BY <1>0, <2>1 DEF Fine, Pair
  <2>3. CalmProgram(w, F)
    BY <2>0, <2>2, CalmShapes
  <2>4. QED
    BY <2>3 DEF w
<1>2. CASE call.do = "netinfo"
  <2> DEFINE n == call.name
             x == Do("update", n)
             k == Do("lock", n)
             y == Do("find", n)
             u == Do("unlock", n)
  <2>1. x.do = "update" /\ k.do = "lock" /\ y.do = "find" /\ u.do = "unlock"
    BY DoIs
  <2>2. w = <<x, k, y, u>>
    BY <1>2 DEF Program, PacketGetNetInfoEx
  <2> HIDE DEF x, y, k, u, w
  <2>0. Fine(x) /\ Fine(y) /\ Pair(k, u)
    BY <1>0, <2>1 DEF Fine, Pair
  <2>3. CalmProgram(w, F)
    BY <2>0, <2>2, CalmShapes
  <2>4. QED
    BY <2>3 DEF w
<1>3. CASE call.do = "nettype"
  <2> DEFINE n == a.name
             k == Do("lock", n)
             y == Do("find", n)
             u == Do("unlock", n)
  <2>1. k.do = "lock" /\ y.do = "find" /\ u.do = "unlock"
    BY DoIs
  <2>2. w = <<k, y, u>> \/ w = << >>
    BY <1>3 DEF Program, PacketGetNetType
  <2> HIDE DEF y, k, u, w
  <2>0. Fine(y) /\ Pair(k, u)
    BY <1>0, <2>1 DEF Fine, Pair
  <2>3. CalmProgram(w, F)
    BY <2>0, <2>2, CalmShapes
  <2>4. QED
    BY <2>3 DEF w
<1>4. CASE call.do = "open"
  <2> DEFINE n == call.name
             x == Do("load", "all")
             k == Do("lock", n)
             y == Do("find", n)
             z == Do("missing", n)
             c == Do("choose", n)
             u == Do("unlock", n)
  <2>1. x.do = "load" /\ k.do = "lock" /\ y.do = "find" /\ z.do = "missing" /\ c.do = "choose" /\ u.do = "unlock"
    BY DoIs
  <2>2. w = <<x, k, y, z, c, u>>
    BY <1>4 DEF Program, OpenAdapter
  <2> HIDE DEF x, y, k, z, c, u, w
  <2>0. Fine(x) /\ Fine(y) /\ Fine(z) /\ Fine(c) /\ Pair(k, u)
    BY <1>0, <2>1 DEF Fine, Pair
  <2>3. CalmProgram(w, F)
    BY <2>0, <2>2, CalmShapes
  <2>4. QED
    BY <2>3 DEF w
<1>5. CASE call.do = "close"
  <2> DEFINE x == Do("update", a.name)
             y == Do("shutad", a.name)
  <2>1. x.do = "update" /\ y.do = "shutad"
    BY DoIs
  <2>2. w = (IF a.flag = "dagfile" THEN <<x>> ELSE << >>) \o <<y>>
    BY <1>5 DEF Program, CloseAdapter
  <2> HIDE DEF x, y, w
  <2>3. w = <<x>> \o <<y>> \/ w = <<y>>
    <3>1. << >> \o <<y>> = <<y>>
      BY TupleList, NothingBefore
    <3>2. QED
      BY <2>2, <3>1
  <2>0. Fine(x) /\ Fine(y)
    BY <1>0, <2>1 DEF Fine
  <2>4. CalmProgram(w, F)
    BY <2>0, <2>3, CalmShapes
  <2>5. QED
    BY <2>4 DEF w
<1>6. CASE call.do \in {"stopdriver", "send", "ask"}
  <2> DEFINE x == Do("stop", "svc")
             y == Do("send", call.name)
             z == Do("ask", call.name)
  <2>1. x.do = "stop" /\ y.do = "send" /\ z.do = "ask"
    BY DoIs
  <2>2. w = << >> \/ w = <<x>> \/ w = <<y>> \/ w = <<z>>
    BY <1>6 DEF Program
  <2> HIDE DEF x, y, z, w
  <2>0. Fine(x) /\ Fine(y) /\ Fine(z)
    BY <1>0, <2>1 DEF Fine
  <2>3. CalmProgram(w, F)
    BY <2>0, <2>2, CalmShapes
  <2>4. QED
    BY <2>3 DEF w
<1>7. QED
  BY <1>1, <1>2, <1>3, <1>4, <1>5, <1>6 DEF DllCalls

(* A thread that had nothing left gets a program, or nothing again.        *)
Starts(t, s) ==
  /\ th' = [th EXCEPT ![t] = s] /\ th[t].work = << >> /\ IsList(s.work) /\ CalmProgram(s.work, FireWire)
  /\ UNCHANGED <<machine, list, mutex, dll>>

LEMMA NothingHeld ==
  ASSUME MutexHeld, NEW t \in Threads, th[t].work = << >>
  PROVE  Depth(mutex, t) = 0
<1>1. Level(<< >>, Depth(mutex, t), FireWire)
  BY DEF MutexHeld
<1>2. PICK f : Levels(<< >>, f) /\ f[1] = Depth(mutex, t)
  BY <1>1 DEF Level
<1>3. Len(<< >>) + 1 = 1
  OBVIOUS
<1>4. QED
  BY <1>2, <1>3 DEF Levels

LEMMA StartsCall ==
  ASSUME ListInv, DllInv', NEW t \in Threads, NEW s, Starts(t, s)
  PROVE  ListInv'
<1>1. /\ DllInv /\ NamesDiffer /\ MutexHeld /\ (\A q \in Threads : Named(th[q]))
      /\ (~dll.raced => ListHolds) /\ DOMAIN th = Threads
  BY DEF ListInv, DllInv, DllTypes
<1>2. /\ th' = [th EXCEPT ![t] = s] /\ th[t].work = << >> /\ IsList(s.work) /\ Level(s.work, 0, FireWire)
      /\ (\A i \in DOMAIN s.work : s.work[i].do \in Calm) /\ UNCHANGED <<machine, list, mutex, dll>>
  BY DEF Starts, CalmProgram
<1>3. th'[t] = s /\ \A q \in Threads \ {t} : th'[q] = th[q]
  BY <1>1, <1>2
<1>4. /\ AirCards' = AirCards /\ ImCards' = ImCards /\ Dags' = Dags /\ Bound' = Bound
      /\ MacNames' = MacNames /\ FireWire' = FireWire /\ NamesDiffer'
  BY <1>1, <1>2, NamesStay
<1>5. MutexHeld'
  <2>1. Depth(mutex, t) = 0
    BY <1>1, <1>2, NothingHeld
  <2>2. QED
    BY <1>1, <1>2, <2>1, MutexMoves
<1>6. s.work # << >> => s.work[1].do \in Calm
  <2>1. Len(s.work) \in Nat /\ DOMAIN s.work = 1..Len(s.work) /\ (s.work = << >> <=> Len(s.work) = 0)
    BY <1>2, ListIsSeq
  <2>2. s.work # << >> => 1 \in DOMAIN s.work
    BY <2>1
  <2>3. QED
    BY <1>2, <2>2
<1>7. HeadNamed(s) /\ \A l, shown : Unlisting(s, l, shown)
  <2>1. s.work # << >> => s.work[1].do \notin Wary
    BY <1>6 DEF Calm, Wary, Chain
  <2>2. QED
    BY <2>1, HeadQuiet
<1>8. \A q \in Threads : Named(th[q])'
  <2>1. \A do \in Calm : do \notin {"air", "im", "iph", "first", "prepend", "shut", "hide", "dagcard", "daglink"}
    BY DEF Calm
  <2>2. \A i \in DOMAIN s.work : ItemNames(s.work[i])
    BY <1>2, <2>1 DEF ItemNames
  <2>3. Named(s)
    BY <1>7, <2>2 DEF Named
  <2>4. \A q \in Threads : Named(th'[q])
    BY <1>1, <1>3, <2>3
  <2>5. QED
    BY <1>4, <2>4 DEF Named, HeadNamed, ItemNames, CardsOf
<1>9. ASSUME ~dll'.raced
      PROVE  ListHolds'
  <2>1. ListHolds
    BY <1>1, <1>2, <1>9
  <2>2. Entries'
    <3>1. dll.shown \subseteq dll'.shown
      BY <1>2
    <3>2. QED
      BY <1>2, <2>1, <3>1, EntriesStay DEF ListHolds
  <2>3. ASSUME NEW q \in Threads
        PROVE  Unlisting(th[q], list, dll.shown)'
    <3>1. CASE q = t
      BY <1>3, <1>4, <1>7, <3>1 DEF Unlisting
    <3>2. CASE q # t
      <4>1. Frame(t)
        BY <1>2 DEF Frame
      <4>2. th'[q] = th[q] /\ q \in Threads \ {t} /\ machine' = machine /\ Unlisting(th[q], list, dll.shown)
        BY <1>2, <1>3, <2>1, <3>2 DEF ListHolds
      <4>3. QED
        BY <1>1, <4>1, <4>2, OthersSee
    <3>3. QED
      BY <3>1, <3>2
  <2>4. ASSUME NEW n \in FireWire
        PROVE  (Known(n) \/ Untold(n))'
    <3>1. Known(n) \/ Untold(n)
      BY <2>1 DEF ListHolds
    <3>2. CASE n \in dll.shown \/ n \in Names(list)
      BY <1>2, <3>2 DEF Known, Names
    <3>3. CASE ToHide(n)
      <4>1. PICK q \in Threads : \E i \in DOMAIN th[q].work :
              th[q].work[i].do = "npfs" \/ (th[q].work[i].do = "hide" /\ th[q].work[i].name = n)
        BY <3>3 DEF ToHide
      <4>2. q # t
        <5>1. DOMAIN << >> = {}
          OBVIOUS
        <5>2. QED
          BY <1>2, <4>1, <5>1
      <4>3. th'[q] = th[q]
        BY <1>3, <4>2
      <4>4. ToHide(n)'
        BY <4>1, <4>3 DEF ToHide
      <4>5. QED
        BY <4>4 DEF Known
    <3>4. CASE Untold(n)
      <4>1. \A do \in Calm : do \notin {"iphs", "iph", "shut", "first", "prepend", "add"}
        BY DEF Calm
      <4>2. \A i \in DOMAIN s.work : Harmless(s.work[i], n)
        BY <1>2, <4>1 DEF Harmless
      <4>3. \A q \in Threads : \A i \in DOMAIN th'[q].work : Harmless(th'[q].work[i], n)
        BY <1>3, <3>4, <4>2 DEF Untold
      <4>4. Untold(n)'
        BY <4>3 DEF Untold, Harmless
      <4>5. QED
        BY <4>4
    <3>5. QED
      BY <3>1, <3>2, <3>3, <3>4 DEF Known
  <2>5. QED
    BY <1>4, <2>2, <2>3, <2>4 DEF ListHolds
<1>10. QED
  BY <1>4, <1>5, <1>8, <1>9 DEF ListInv

LEMMA CallBegins ==
  ASSUME ListInv, DllInv', NEW t \in Threads, machine' = machine, Enter(t) \/ Return(t)
  PROVE  ListInv'
<1>1. DllInv /\ DllThread(th[t], ad[t])
  BY DEF ListInv, DllInv
<1>2. UNCHANGED <<machine, list, mutex, dll>>
  BY DEF Enter, Return, KeepAdapters
<1>3. CASE Enter(t)
  <2> DEFINE call == Head(th[t].calls)
             w == Program(call, ad[t])
             s == [Waiting(Tail(th[t].calls)) EXCEPT !.call = call, !.work = w]
  <2>1. th[t].call = Idle /\ th[t].calls # << >> /\ th' = [th EXCEPT ![t] = s]
    BY <1>3 DEF Enter, Becomes
  <2>2. /\ IsList(th[t].calls) /\ (\A i \in DOMAIN th[t].calls : th[t].calls[i].do \in DllCalls)
        /\ th[t].work = << >>
    BY <1>1, <2>1 DEF DllThread, ThreadFields
  <2>3. call = th[t].calls[1]
    BY <2>1, <2>2, ListTail
  <2>4. call.do \in DllCalls
    BY <2>1, <2>2, <2>3, ListIsSeq
  <2>5. s.work = w
    BY DEF Waiting
  <2> HIDE DEF call, s
  <2>6. CalmProgram(w, FireWire)
    BY <2>4, ProgramsAreCalm
  <2>7. IsList(w)
    <3>1. AdapterOK(ad[t])
      BY <1>1 DEF DllInv
    <3>2. ProgramOK(w, ad[t])
      BY <2>4, <3>1, ProgramIs
    <3>3. QED
      BY <3>2 DEF ProgramOK, Shape
  <2> HIDE DEF w
  <2>8. Starts(t, s)
    BY <1>2, <2>1, <2>2, <2>5, <2>6, <2>7 DEF Starts
  <2>9. QED
    BY <2>8, StartsCall
<1>4. CASE Return(t)
  <2> DEFINE s == Waiting(th[t].calls)
  <2>1. th[t].work = << >> /\ th' = [th EXCEPT ![t] = s]
    BY <1>4 DEF Return, Becomes
  <2>2. s.work = << >>
    BY DEF Waiting
  <2> HIDE DEF s
  <2>3. IsList(<< >>) /\ CalmProgram(<< >>, FireWire)
    BY CalmShapes DEF IsList
  <2>4. Starts(t, s)
    BY <1>2, <2>1, <2>2, <2>3 DEF Starts
  <2>5. QED
    BY <2>4, StartsCall
<1>5. QED
  BY <1>3, <1>4

(* Nobody moves.                                                           *)
LEMMA NobodyMoves ==
  ASSUME ListInv, DllInv', UNCHANGED <<machine, list, mutex, th>>, dll'.raced = dll.raced, dll'.shown = dll.shown
  PROVE  ListInv'
<1>1. /\ DllInv /\ NamesDiffer /\ MutexHeld /\ (\A q \in Threads : Named(th[q])) /\ (~dll.raced => ListHolds)
  BY DEF ListInv
<1>2. /\ AirCards' = AirCards /\ ImCards' = ImCards /\ Dags' = Dags /\ Bound' = Bound
      /\ MacNames' = MacNames /\ FireWire' = FireWire /\ NamesDiffer'
  BY <1>1, NamesStay
<1>3. MutexHeld'
  BY <1>1, <1>2 DEF MutexHeld
<1>4. \A q \in Threads : Named(th[q])'
  BY <1>1, <1>2 DEF Named, HeadNamed, ItemNames, CardsOf
<1>5. ASSUME ~dll'.raced
      PROVE  ListHolds'
  <2>1. ListHolds
    BY <1>1, <1>5
  <2>2. Entries'
    <3>1. dll.shown \subseteq dll'.shown
      OBVIOUS
    <3>2. QED
      BY <2>1, <3>1, EntriesStay DEF ListHolds
  <2>3. \A q \in Threads : Unlisting(th[q], list, dll.shown)'
    BY <1>2, <2>1 DEF ListHolds, Unlisting
  <2>4. \A n \in FireWire : (Known(n) \/ Untold(n))'
    <3>1. \A n : ToHide(n)' <=> ToHide(n)
      BY DEF ToHide
    <3>2. \A n : Untold(n)' <=> Untold(n)
      BY DEF Untold, Harmless
    <3>3. \A n : Known(n)' <=> Known(n)
      BY <3>1 DEF Known, Names
    <3>4. QED
      BY <2>1, <3>2, <3>3 DEF ListHolds
  <2>5. QED
    BY <1>2, <2>2, <2>3, <2>4 DEF ListHolds
<1>6. QED
  BY <1>2, <1>3, <1>4, <1>5 DEF ListInv

-----------------------------------------------------------------------------
(* The invariant of the list holds, and with it what the list is for.      *)

LEMMA ListInvAtStart ==
  ASSUME DllStart, NamesDiffer
  PROVE  ListInv
<1>1. DllInv
  BY DllInvAtStart
<1>2. \A t \in Threads : th[t].work = << >>
  BY DEF DllStart, Waiting
<1>3. list = << >> /\ mutex.owner = NoOne /\ mutex.depth = 0
  BY DEF DllStart, DllInit
<1>4. IsList(<< >>) /\ DOMAIN << >> = {}
  BY DEF IsList
<1>5. MutexHeld
  <2>1. \A t \in Threads : Depth(mutex, t) = 0
    BY <1>3 DEF Depth
  <2>2. \A t \in Threads : Level(th[t].work, Depth(mutex, t), FireWire)
    BY <1>2, <2>1, LevelOfNothing
  <2>3. QED
    BY <1>3, <2>2 DEF MutexHeld
<1>6. \A t \in Threads : Named(th[t]) /\ Unlisting(th[t], list, dll.shown)
  <2>1. \A t \in Threads : HeadNamed(th[t]) /\ \A l, shown : Unlisting(th[t], l, shown)
    BY <1>2, HeadQuiet
  <2>2. QED
    BY <1>2, <1>4, <2>1 DEF Named
<1>7. Entries
  BY <1>3, <1>4 DEF Entries, Unlisted
<1>8. \A n \in FireWire : Known(n) \/ Untold(n)
  BY <1>2, <1>4 DEF Untold
<1>9. QED
  BY <1>1, <1>5, <1>6, <1>7, <1>8 DEF ListInv, ListHolds

LEMMA ListInvStep ==
  ASSUME ListInv, [DllNext]_<<serviceVars, dllVars>>
  PROVE  ListInv'
<1>0. DllInv /\ DllInv'
  BY DllInvStep DEF ListInv
<1>1. CASE UNCHANGED <<serviceVars, dllVars>>
  <2>1. UNCHANGED <<machine, list, mutex, th>> /\ dll'.raced = dll.raced /\ dll'.shown = dll.shown
    BY <1>1 DEF serviceVars, dllVars
  <2>2. QED
    BY <1>0, <2>1, NobodyMoves
<1>2. CASE AdapterGoes
  <2>1. UNCHANGED <<machine, list, mutex, th>> /\ dll' = [dll EXCEPT !.gone = machine.leaves]
    BY <1>2 DEF AdapterGoes, serviceVars
  <2>2. dll'.raced = dll.raced /\ dll'.shown = dll.shown
    <3>1. [dll EXCEPT !.gone = machine.leaves].raced = dll.raced /\ [dll EXCEPT !.gone = machine.leaves].shown = dll.shown
      BY <1>0, DllFields
    <3>2. QED
      BY <2>1, <3>1
  <2>3. QED
    BY <1>0, <2>1, <2>2, NobodyMoves
<1>3. CASE ServiceNext /\ UNCHANGED dllVars
  <2>1. machine' = machine
    BY <1>3 DEF ServiceNext, MgmMain, MgmOpen, create_driver_service, delete_service, MgmRemove, stop_service,
         start_service, change_start_type_service, MgmClose
  <2>2. UNCHANGED <<list, mutex, th>> /\ dll'.raced = dll.raced /\ dll'.shown = dll.shown
    BY <1>3 DEF dllVars
  <2>3. QED
    BY <1>0, <2>1, <2>2, NobodyMoves
<1>4. ASSUME NEW t \in Threads, ThreadNext(t)
      PROVE  ListInv'
  <2>0. machine' = machine
    BY <1>4 DEF ThreadNext
  <2>1. CASE Enter(t) \/ Return(t)
    BY <1>0, <2>0, <2>1, CallBegins
  <2>2. CASE NpfNext(t)
    BY <1>0, <2>0, <2>2, NpfSteps
  <2>3. CASE ListNext(t)
    <3>1. CASE LockMutex(t) \/ ReleaseMutex(t)
      BY <1>0, <2>0, <3>1, MutexSteps
    <3>2. CASE PacketLoadLibrariesDynamically(t) \/ PacketFindAdInfo(t) \/ LookAtList(t)
      BY <1>0, <2>0, <3>2, FindSteps
    <3>3. CASE PacketAddAdapterNPF(t)
      BY <1>0, <2>0, <3>3, AddNPFSteps
    <3>4. CASE LinkNPF(t)
      BY <1>0, <2>0, <3>4, LinkNPFSteps
    <3>5. CASE PacketGetAdaptersNPF(t)
      BY <1>0, <2>0, <3>5, GetNPFSteps
    <3>6. CASE PacketAddAdapterIPH(t) \/ ShutIPH(t) \/ ReadFirst(t)
      BY <1>0, <2>0, <3>6, IPHSteps
    <3>7. CASE WriteFirst(t)
      BY <1>0, <2>0, <3>7, WriteFirstSteps
    <3>8. CASE PacketGetAdaptersIPH(t)
      BY <1>0, <2>0, <3>8, ListIPH
    <3>9. CASE PacketAddFakeNdisWanAdapter(t)
      BY <1>0, <2>0, <3>9, FakeSteps
    <3>10. CASE PacketUpdateAdInfo(t)
      BY <1>0, <2>0, <3>10, UpdateSteps
    <3>11. CASE UpdateOthers(t)
      BY <1>0, <2>0, <3>11, OthersSteps
    <3>12. CASE PacketPopulateAdaptersInfoList(t)
      BY <1>0, <2>0, <3>12, PopulateSteps
    <3>13. QED
      BY <2>3, <3>1, <3>2, <3>3, <3>4, <3>5, <3>6, <3>7, <3>8, <3>9, <3>10, <3>11, <3>12 DEF ListNext
  <2>4. CASE CardsNext(t)
    <3>1. CASE PacketGetAdaptersAirpcap(t) \/ PacketGetAdaptersNpfIm(t) \/ PacketGetAdaptersDag(t)
      BY <1>0, <2>0, <3>1, CardLists
    <3>2. CASE PacketAddAdapterAirpcap(t) \/ PacketAddAdapterNpfIm(t)
      BY <1>0, <2>0, <3>2, AddCardSteps DEF PacketAddAdapterAirpcap, PacketAddAdapterNpfIm
    <3>3. CASE LinkCard(t)
      BY <1>0, <2>0, <3>3, LinkCardSteps
    <3>4. CASE PacketAddAdapterDag(t)
      BY <1>0, <2>0, <3>4, DagSteps
    <3>5. CASE LinkDag(t)
      BY <1>0, <2>0, <3>5, LinkDagSteps
    <3>6. QED
      BY <2>4, <3>1, <3>2, <3>3, <3>4, <3>5 DEF CardsNext
  <2>5. CASE OpenNext(t)
    <3>1. CASE PacketOpenAdapter(t)
      BY <1>0, <2>0, <3>1, ChooseSteps
    <3>2. QED
      BY <1>0, <2>0, <2>5, <3>1, OpenSteps DEF OpenNext
  <2>6. CASE CallNext(t)
    BY <1>0, <2>0, <2>6, CallSteps
  <2>7. QED
    BY <1>4, <2>1, <2>2, <2>3, <2>4, <2>5, <2>6 DEF ThreadNext, Working
<1>5. QED
  BY <1>1, <1>2, <1>3, <1>4 DEF DllNext

(* On a machine whose names tell the kinds of adapters apart: however the  *)
(* threads of the application interleave in PacketPopulateAdaptersInfoList,*)
(* PacketUpdateAdInfo and what they call, with npf_mgm, with adapters that *)
(* go and with calls of the system that fail, whenever nobody holds        *)
(* g_AdaptersInfoMutex the list names each adapter but those of the DAG    *)
(* library once, and a FireWire adapter that PacketUpdateAdInfo has not    *)
(* been asked for, or added for another, is in it only as one that is      *)
(* hidden; as long as no PacketAddAdapterIPH, called without the mutex,    *)
(* has raced with a thread that changes the list.                          *)
THEOREM ListIsSound == DllSpec /\ NamesDiffer => []ListSound
<1>1. DllStart /\ NamesDiffer => ListInv
  BY ListInvAtStart
<1>2. ListInv /\ [DllNext]_<<serviceVars, dllVars>> => ListInv'
  BY ListInvStep
<1>3. ListInv => ListSound
  BY DEF ListInv, ListHolds, Entries, ListSound
<1>4. QED
  BY <1>1, <1>2, <1>3, PTL DEF DllSpec
=============================================================================
