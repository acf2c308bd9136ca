---------------------------- MODULE ProbeLadder_proofs ----------------------------
(***************************************************************************)
(* What can be read off a table of drivers without running it: conditions  *)
(* on the steps, ladders and remove functions under which no behaviour     *)
(* leaks a resource, releases one twice, binds an incomplete driver or     *)
(* lets an interface be called without what it uses, for any table.        *)
(***************************************************************************)
EXTENDS ProbeLadder, SequenceTheorems, TLAPS

-----------------------------------------------------------------------------
(* Sequences, and what the assumption says of one step                     *)

LEMMA LastType ==
  ASSUME NEW S, NEW s \in Seq(S), s # <<>>
  PROVE  Last(s) \in S /\ Front(s) \in Seq(S)
  BY DEF Last, Front

LEMMA ToSetHead ==
  ASSUME NEW S, NEW s \in Seq(S), s # <<>>
  PROVE  ToSet(s) \subseteq {Head(s)} \cup ToSet(Tail(s))
<1>1. ASSUME NEW i \in 1..Len(s), i # 1 PROVE s[i] \in ToSet(Tail(s))
  <2>1. /\ Len(s) \in Nat /\ Len(Tail(s)) = Len(s) - 1
        /\ DOMAIN Tail(s) = 1..Len(Tail(s))
        /\ \A j \in 1..Len(Tail(s)) : Tail(s)[j] = s[j + 1]
    OBVIOUS
  <2>2. i - 1 \in DOMAIN Tail(s) /\ Tail(s)[i - 1] = s[i]
    BY <1>1, <2>1
  <2> QED
    BY <2>2, Zenon DEF ToSet
<1>2. Head(s) = s[1] /\ DOMAIN s = 1..Len(s)
  OBVIOUS
<1> QED
  BY <1>1, <1>2 DEF ToSet

LEMMA ToSetLast ==
  ASSUME NEW S, NEW s \in Seq(S), s # <<>>
  PROVE  ToSet(s) \subseteq {Last(s)} \cup ToSet(Front(s))
<1>1. Len(s) \in Nat \ {0} /\ DOMAIN s = 1..Len(s)
  OBVIOUS
<1>2. DOMAIN Front(s) = 1..Len(s) - 1 /\ \A i \in 1..Len(s) - 1 : Front(s)[i] = s[i]
  BY <1>1 DEF Front
<1>3. ASSUME NEW n \in Nat, NEW i \in 1..n, i # n PROVE i \in 1..n - 1
  BY <1>3
<1>4. ASSUME NEW i \in 1..Len(s), i # Len(s) PROVE s[i] \in ToSet(Front(s))
  <2>1. i \in DOMAIN Front(s) /\ Front(s)[i] = s[i]
    BY <1>1, <1>2, <1>3, <1>4
  <2> QED
    BY <2>1, Zenon DEF ToSet
<1> QED
  BY <1>1, <1>4, Zenon DEF ToSet, Last

LEMMA ToSetAppend ==
  ASSUME NEW S, NEW s \in Seq(S), NEW e \in S
  PROVE  ToSet(s) \subseteq ToSet(Append(s, e)) /\ e \in ToSet(Append(s, e))
<1>1. DOMAIN s = 1..Len(s) /\ Len(s) \in Nat
  OBVIOUS
<1>2. DOMAIN Append(s, e) = 1..Len(s) + 1 /\ Append(s, e)[Len(s) + 1] = e
      /\ \A i \in 1..Len(s) : Append(s, e)[i] = s[i]
  OBVIOUS
<1>3. 1..Len(s) \subseteq 1..Len(s) + 1 /\ Len(s) + 1 \in 1..Len(s) + 1
  BY <1>1
<1> QED
  BY <1>1, <1>2, <1>3 DEF ToSet

LEMMA ToSetEmpty == ToSet(<<>>) = {}
  BY DEF ToSet

LEMMA GivenBackHead ==
  ASSUME NEW d, NEW S, NEW s \in Seq(S), s # <<>>
  PROVE  GivenBackBy(d, s)
           \subseteq {Head(s)} \cup AlsoOf(d, Head(s)) \cup GivenBackBy(d, Tail(s))
  BY ToSetHead DEF GivenBackBy

LEMMA ToSetTail ==
  ASSUME NEW S, NEW s \in Seq(S), s # <<>>
  PROVE  Head(s) \in ToSet(s) /\ ToSet(Tail(s)) \subseteq ToSet(s)
<1>1. DOMAIN s = 1..Len(s) /\ 1 \in DOMAIN s /\ Head(s) = s[1]
  OBVIOUS
<1>2. /\ Len(s) \in Nat /\ DOMAIN Tail(s) = 1..Len(s) - 1
      /\ \A i \in 1..Len(s) - 1 : Tail(s)[i] = s[i + 1]
  OBVIOUS
<1>3. \A i \in 1..Len(s) - 1 : i + 1 \in 1..Len(s)
  BY <1>2
<1> QED
  BY <1>1, <1>2, <1>3 DEF ToSet

LEMMA DriverType ==
  ASSUME NEW d \in DOMAIN Table
  PROVE  /\ Steps(d) \in Seq(StepsOf(d))
         /\ Table[d].remove \in Seq(Resources(d))
  BY TableAssumption

LEMMA StepType ==
  ASSUME NEW d \in DOMAIN Table, NEW i \in 1..Len(Steps(d))
  PROVE  /\ Steps(d)[i] \in StepsOf(d)
         /\ Steps(d)[i].what \in Resources(d)
         /\ Steps(d)[i].undo \in Seq(Resources(d))
<1>1. i \in DOMAIN Steps(d)
  BY DriverType
<1>2. Steps(d)[i] \in StepsOf(d)
  BY <1>1 DEF StepsOf
<1> QED
  BY <1>2, TableAssumption DEF Resources

-----------------------------------------------------------------------------
(* Type correctness                                                        *)

\* The type invariant: a driver gives back, and devres releases, resources of its own
\* table only.
THEOREM TypeCorrect == Spec => []TypeOK
<1>1. Init => TypeOK
  <2> SUFFICES ASSUME Init PROVE TypeOK
    OBVIOUS
  <2>1. Len(Steps(driver)) \in Nat
    BY DriverType DEF Init
  <2> QED
    BY <2>1 DEF Init, TypeOK, Phases
<1>2. TypeOK /\ [Next]_vars => TypeOK'
  <2> SUFFICES ASSUME TypeOK, [Next]_vars PROVE TypeOK'
    OBVIOUS
  <2> USE DEF TypeOK, Phases
  <2>a. Len(Steps(driver)) \in Nat
    BY DriverType
  <2>b. Probing => /\ at \in 1..Len(Steps(driver))
                   /\ Step.what \in Resources(driver)
                   /\ Step.undo \in Seq(Resources(driver))
    BY <2>a, StepType DEF Probing, Step
  <2>1. CASE Succeed
    BY <2>1, <2>a, <2>b DEF Succeed, GiveBack, Probing
  <2>2. CASE Fail
    BY <2>2, <2>a, <2>b DEF Fail
  <2>3. CASE GoOnWithout
    BY <2>3, <2>a, <2>b DEF GoOnWithout, Probing
  <2>4. CASE Bind
    BY <2>4 DEF Bind
  <2>5. CASE Unbind
    BY <2>5, DriverType DEF Unbind
  <2>6. CASE Release
    BY <2>6 DEF Release, GiveBack
  <2>7. CASE Return
    BY <2>7 DEF Return
  <2>8. CASE Devres
    BY <2>8, LastType DEF Devres, GiveBack
  <2>9. CASE Gone
    BY <2>9 DEF Gone
  <2>10. CASE UNCHANGED vars
    BY <2>10 DEF vars
  <2> QED
    BY <2>1, <2>2, <2>3, <2>4, <2>5, <2>6, <2>7, <2>8, <2>9, <2>10 DEF Next
<1> QED
  BY <1>1, <1>2, PTL DEF Spec

-----------------------------------------------------------------------------
(* Ladders and remove functions                                            *)

Guarded(r) == \E g \in ToSet(dev) : Guards(driver, g, r)

\* What probe has surely put under the management of devres is there.
DevHasAll ==
  phase = "probe" =>
    \A j \in 1..at - 1 : SurelyManaged(Steps(driver)[j]) =>
                         Steps(driver)[j].what \in ToSet(dev)

\* The part of the code that is still to run gives r back.
OnItsWay(r) ==
  /\ phase = "probe" => TakenBefore(driver, r, at)
  /\ phase = "release" =>
       \/ r \in GivenBackBy(driver, todo)
       \/ Guarded(r)
       \/ ending = "bound" /\ r \in GivenBackBy(driver, Table[driver].remove)
  /\ phase = "bound" => r \in GivenBackBy(driver, Table[driver].remove) \/ Guarded(r)
  /\ phase = "devres" => Guarded(r)
  /\ phase # "gone"

HeldOnItsWay == \A r \in held : EveryPathReturns(driver, r) => OnItsWay(r)

\* Before a step of probe, a guard in the table is a guard on the list.
LEMMA GuardOnList ==
  ASSUME TypeOK, DevHasAll, phase = "probe", NEW r, GuardedBefore(driver, r, at)
  PROVE  Guarded(r)
  BY DEF DevHasAll, GuardedBefore, Guarded

LEMMA TakenStays ==
  ASSUME TypeOK, Probing, NEW r, TakenBefore(driver, r, at),
         ~(/\ Step.what = r /\ Step.kind = "drop"
           /\ Step.err \notin {"ignored", "optional"})
  PROVE  TakenBefore(driver, r, at + 1)
<1>1. at \in Nat \ {0}
  BY DriverType DEF TypeOK
<1>2. PICK j \in 1..at - 1 :
        /\ Steps(driver)[j].what = r /\ Steps(driver)[j].kind \notin {"try", "drop"}
        /\ \A k \in j + 1..at - 1 :
             ~(/\ Steps(driver)[k].what = r /\ Steps(driver)[k].kind = "drop"
               /\ Steps(driver)[k].err \notin {"ignored", "optional"})
  BY DEF TakenBefore
<1>3. j \in 1..(at + 1) - 1 /\ \A k \in j + 1..(at + 1) - 1 : k = at \/ k \in j + 1..at - 1
  BY <1>1
<1> QED
  BY <1>2, <1>3 DEF TakenBefore, Step

LEMMA TakenNow ==
  ASSUME TypeOK, Probing, NEW r, Step.what = r, Step.kind \notin {"try", "drop"}
  PROVE  TakenBefore(driver, r, at + 1)
<1>1. at \in Nat \ {0}
  BY DriverType DEF TypeOK
<1>2. at \in 1..(at + 1) - 1 /\ at + 1..(at + 1) - 1 = {}
  BY <1>1
<1> QED
  BY <1>2 DEF TakenBefore, Step

LEMMA DevHasAllNext == TypeOK /\ DevHasAll /\ [Next]_vars => DevHasAll'
<1> SUFFICES ASSUME TypeOK, DevHasAll, [Next]_vars, phase' = "probe"
             PROVE  \A j \in 1..at' - 1 : SurelyManaged(Steps(driver')[j]) =>
                                          Steps(driver')[j].what \in ToSet(dev')
  BY DEF DevHasAll
<1>1. /\ at \in Nat \ {0} /\ dev \in Seq(Resources(driver))
      /\ driver \in DOMAIN Table /\ Len(Steps(driver)) \in Nat
  BY DriverType DEF TypeOK
<1>2. CASE Succeed
  <2>1. Step.what \in Resources(driver)
    <3>1. at \in 1..Len(Steps(driver))
      BY <1>1, <1>2 DEF Succeed, Probing
    <3> QED
      BY <1>1, <3>1, StepType DEF Step
  <2>2. ToSet(dev) \subseteq ToSet(dev')
    BY <1>1, <1>2, <2>1, ToSetAppend DEF Succeed
  <2>3. SurelyManaged(Step) => Step.what \in ToSet(dev')
    BY <1>1, <1>2, <2>1, ToSetAppend DEF Succeed, SurelyManaged
  <2>4. \A j \in 1..at' - 1 : j = at \/ j \in 1..at - 1
    BY <1>1, <1>2 DEF Succeed
  <2>5. phase = "probe" /\ driver' = driver
    BY <1>2 DEF Succeed, Probing
  <2> QED
    BY <2>2, <2>3, <2>4, <2>5 DEF DevHasAll, Step
<1>3. CASE GoOnWithout
  <2>1. \A j \in 1..at' - 1 : j = at \/ j \in 1..at - 1
    BY <1>1, <1>3 DEF GoOnWithout
  <2>2. phase = "probe" /\ driver' = driver /\ dev' = dev /\ ~SurelyManaged(Step)
    BY <1>3 DEF GoOnWithout, Probing, SurelyManaged
  <2> QED
    BY <2>1, <2>2 DEF DevHasAll, Step
<1>4. CASE UNCHANGED vars
  BY <1>4 DEF vars, DevHasAll
<1>5. ~Fail /\ ~Bind /\ ~Unbind /\ ~Release /\ ~Return /\ ~Devres /\ ~Gone
  BY DEF Fail, Bind, Unbind, Release, Return, Devres, Gone, TypeOK
<1> QED
  BY <1>2, <1>3, <1>4, <1>5 DEF Next

LEMMA HeldOnItsWayNext ==
  TypeOK /\ DevHasAll /\ HeldOnItsWay /\ [Next]_vars => HeldOnItsWay'
<1> SUFFICES ASSUME TypeOK, DevHasAll, HeldOnItsWay, [Next]_vars,
                    NEW r \in held', EveryPathReturns(driver', r)
             PROVE  OnItsWay(r)'
  BY DEF HeldOnItsWay
<1>1. /\ at \in Nat \ {0} /\ dev \in Seq(Resources(driver))
      /\ todo \in Seq(Resources(driver)) /\ ending \in {"bound", "devres"}
      /\ driver \in DOMAIN Table /\ Len(Steps(driver)) \in Nat
      /\ at =< Len(Steps(driver)) + 1
  BY DriverType DEF TypeOK
<1>2. driver' = driver
  BY DEF Next, Succeed, Fail, GoOnWithout, Bind, Unbind, Release, Return, Devres, Gone, vars
<1>3. r \in held => OnItsWay(r)
  BY <1>2 DEF HeldOnItsWay
<1>4. CASE Succeed
  <2>1. phase' = "probe" /\ at' = at + 1 /\ Probing
    BY <1>4 DEF Succeed, Probing
  <2>2. CASE r = Step.what /\ Step.kind \notin {"try", "drop"}
    BY <2>1, <2>2, <1>2, TakenNow DEF OnItsWay
  <2>3. CASE ~(r = Step.what /\ Step.kind \notin {"try", "drop"})
    <3>1. r \in held /\ ~(Step.what = r /\ Step.kind = "drop")
      BY <1>4, <2>3 DEF Succeed, GiveBack
    <3>2. TakenBefore(driver, r, at)
      BY <1>3, <2>1, <3>1 DEF OnItsWay, Probing
    <3> QED
      BY <1>2, <2>1, <3>1, <3>2, TakenStays DEF OnItsWay
  <2> QED
    BY <2>2, <2>3
<1>5. CASE Fail
  <2>1. /\ phase = "probe" /\ at \in 1..Len(Steps(driver)) /\ r \in held
        /\ Step.err \in {"fails", "binds"} /\ TakenBefore(driver, r, at)
    BY <1>1, <1>3, <1>5 DEF Fail, Probing, OnItsWay
  <2>2. phase' = "release" /\ todo' = Step.undo /\ dev' = dev
        /\ ending' = IF Step.err = "binds" THEN "bound" ELSE "devres"
    BY <1>5 DEF Fail
  <2>3. CASE GuardedBefore(driver, r, at)
    BY <1>2, <2>1, <2>2, <2>3, GuardOnList DEF OnItsWay, Guarded
  <2>4. CASE ~GuardedBefore(driver, r, at)
    BY <1>2, <2>1, <2>2, <2>4 DEF EveryPathReturns, OnItsWay, Step
  <2> QED
    BY <2>3, <2>4
<1>6. CASE GoOnWithout
  BY <1>2, <1>3, <1>6, TakenStays DEF GoOnWithout, Probing, OnItsWay
<1>7. CASE Bind
  <2>1. at = Len(Steps(driver)) + 1 /\ phase = "probe" /\ r \in held
    BY <1>1, <1>7 DEF Bind
  <2>2. TakenBefore(driver, r, Len(Steps(driver)) + 1)
    BY <1>3, <2>1 DEF OnItsWay
  <2>3. phase' = "bound" /\ dev' = dev
    BY <1>7 DEF Bind
  <2> QED
    BY <1>2, <2>1, <2>2, <2>3, GuardOnList DEF EveryPathReturns, OnItsWay, Guarded
<1>8. CASE Unbind
  BY <1>2, <1>3, <1>8 DEF Unbind, OnItsWay, Guarded
<1>9. CASE Release
  <2>1. r \in held /\ r # Head(todo) /\ r \notin AlsoOf(driver, Head(todo))
    BY <1>9 DEF Release, GiveBack
  <2>2. r \in GivenBackBy(driver, todo) => r \in GivenBackBy(driver, Tail(todo))
    BY <1>1, <1>9, <2>1, GivenBackHead DEF Release
  <2> QED
    BY <1>2, <1>3, <1>9, <2>1, <2>2 DEF Release, OnItsWay, Guarded
<1>10. CASE Return
  <2>1. r \notin GivenBackBy(driver, todo)
    BY <1>10, ToSetEmpty DEF Return, GivenBackBy
  <2> QED
    BY <1>1, <1>2, <1>3, <1>10, <2>1 DEF Return, OnItsWay, Guarded
<1>11. CASE Devres
  <2>1. r \in held /\ phase = "devres" /\ phase' = "devres" /\ dev # <<>> /\ dev' = Front(dev)
    BY <1>11 DEF Devres, GiveBack
  <2>2. PICK g \in ToSet(dev) : Guards(driver, g, r)
    BY <1>3, <2>1 DEF OnItsWay, Guarded
  <2>3. g # Last(dev)
    BY <1>11, <2>2 DEF Devres, GiveBack, Guards
  <2>4. g \in ToSet(dev')
    BY <1>1, <2>1, <2>3, ToSetLast
  <2> QED
    BY <1>2, <2>1, <2>2, <2>4 DEF OnItsWay, Guarded
<1>12. CASE Gone
  BY <1>3, <1>12, ToSetEmpty DEF Gone, OnItsWay, Guarded
<1>13. CASE UNCHANGED vars
  BY <1>3, <1>13 DEF vars, OnItsWay, Guarded
<1> QED
  BY <1>4, <1>5, <1>6, <1>7, <1>8, <1>9, <1>10, <1>11, <1>12, <1>13 DEF Next

\* If every ladder and remove function of the table gives back what was taken before,
\* but for the known leaks, nothing else leaks, whatever fails: for any table.
THEOREM LaddersSuffice ==
  ASSUME LaddersReturn
  PROVE  Spec => []NothingLeaks
<1>1. Init => TypeOK /\ DevHasAll /\ HeldOnItsWay
  <2> SUFFICES ASSUME Init PROVE TypeOK /\ DevHasAll /\ HeldOnItsWay
    OBVIOUS
  <2>1. Len(Steps(driver)) \in Nat
    BY DriverType DEF Init
  <2> QED
    BY <2>1 DEF Init, TypeOK, Phases, DevHasAll, HeldOnItsWay
<1>2. TypeOK /\ HeldOnItsWay => NothingLeaks
  BY LaddersReturn DEF TypeOK, HeldOnItsWay, NothingLeaks, OnItsWay, LaddersReturn
<1>3. TypeOK /\ DevHasAll /\ HeldOnItsWay /\ [Next]_vars => DevHasAll' /\ HeldOnItsWay'
  BY DevHasAllNext, HeldOnItsWayNext
<1> QED
  BY <1>1, <1>2, <1>3, TypeCorrect, PTL DEF Spec

-----------------------------------------------------------------------------
(* What a bound driver has                                                 *)

Kept(r) ==
  /\ phase = "probe" => \A j \in 1..at - 1 : Needs(Steps(driver)[j], r) => r \in held
  /\ phase = "release" /\ ending = "bound" =>
       r \in held /\ r \notin GivenBackBy(driver, todo)
  /\ phase = "bound" => r \in held

RequiredKept == \A r \in Required(driver) : EveryPathKeeps(driver, r) => Kept(r)

LEMMA RequiredIsNeeded ==
  ASSUME NEW d \in DOMAIN Table, NEW r \in Required(d)
  PROVE  /\ \E j \in 1..Len(Steps(d)) : Needs(Steps(d)[j], r)
         /\ \A j \in 1..Len(Steps(d)) : Steps(d)[j].kind = "drop" => Steps(d)[j].what # r
<1>1. DOMAIN Steps(d) = 1..Len(Steps(d))
  BY DriverType
<1> QED
  BY <1>1 DEF Required, Dropped, StepsOf, Needs

LEMMA RequiredKeptNext == TypeOK /\ RequiredKept /\ [Next]_vars => RequiredKept'
<1> SUFFICES ASSUME TypeOK, RequiredKept, [Next]_vars,
                    NEW r \in Required(driver'), EveryPathKeeps(driver', r)
             PROVE  Kept(r)'
  BY DEF RequiredKept
<1>1. /\ at \in Nat \ {0} /\ todo \in Seq(Resources(driver))
      /\ ending \in {"bound", "devres"}
      /\ driver \in DOMAIN Table /\ Len(Steps(driver)) \in Nat
      /\ at =< Len(Steps(driver)) + 1
  BY DriverType DEF TypeOK
<1>2. driver' = driver
  BY DEF Next, Succeed, Fail, GoOnWithout, Bind, Unbind, Release, Return, Devres, Gone, vars
<1>3. Kept(r) /\ r \in Required(driver) /\ EveryPathKeeps(driver, r)
  BY <1>2 DEF RequiredKept
<1>4. ASSUME Probing, at' = at + 1 PROVE /\ at \in 1..Len(Steps(driver))
                                       /\ \A j \in 1..at' - 1 : j = at \/ j \in 1..at - 1
  BY <1>1, <1>4 DEF Probing
<1>5. CASE Succeed
  <2>1. Probing /\ at' = at + 1 /\ phase = "probe" /\ phase' = "probe"
    BY <1>5 DEF Succeed, Probing
  <2>2. r \in held => r \in held'
    <3>1. Step.kind = "drop" => Step.what # r /\ r \notin AlsoOf(driver, Step.what)
      BY <1>1, <1>3, <1>4, <2>1, RequiredIsNeeded DEF Step, EveryPathKeeps
    <3> QED
      BY <1>5, <3>1 DEF Succeed, GiveBack
  <2>3. Needs(Step, r) => r \in held'
    BY <1>5 DEF Succeed, Needs
  <2> QED
    BY <1>2, <1>3, <1>4, <2>1, <2>2, <2>3 DEF Kept, Step
<1>6. CASE Fail
  <2>1. at \in 1..Len(Steps(driver)) /\ phase = "probe" /\ phase' = "release"
    BY <1>1, <1>6 DEF Fail, Probing
  <2>2. todo' = Step.undo /\ held' = held
        /\ ending' = IF Step.err = "binds" THEN "bound" ELSE "devres"
    BY <1>6 DEF Fail
  <2>3. ASSUME Step.err = "binds" PROVE r \in held
    <3>1. PICK j \in 1..Len(Steps(driver)) : Needs(Steps(driver)[j], r)
      BY <1>1, <1>3, RequiredIsNeeded
    <3>2. j \notin at..Len(Steps(driver))
      BY <1>3, <2>1, <2>3, <3>1 DEF EveryPathKeeps, Step
    <3>3. j \in 1..at - 1
      BY <1>1, <2>1, <3>1, <3>2
    <3> QED
      BY <1>3, <2>1, <3>1, <3>3 DEF Kept
  <2>4. Step.err = "binds" => r \notin GivenBackBy(driver, Step.undo)
    BY <1>3, <2>1 DEF EveryPathKeeps, Step
  <2> QED
    BY <1>2, <2>1, <2>2, <2>3, <2>4 DEF Kept
<1>7. CASE GoOnWithout
  <2>1. Probing /\ at' = at + 1 /\ phase = "probe" /\ phase' = "probe" /\ held' = held
    BY <1>7 DEF GoOnWithout, Probing
  <2>2. ~Needs(Step, r)
    BY <1>3, <1>4, <1>7, <2>1 DEF GoOnWithout, Needs, EveryPathKeeps, Step
  <2> QED
    BY <1>2, <1>3, <1>4, <2>1, <2>2 DEF Kept, Step
<1>8. CASE Bind
  <2>1. at = Len(Steps(driver)) + 1 /\ phase = "probe" /\ phase' = "bound" /\ held' = held
    BY <1>1, <1>8 DEF Bind
  <2>2. PICK j \in 1..at - 1 : Needs(Steps(driver)[j], r)
    BY <1>1, <1>3, <2>1, RequiredIsNeeded
  <2> QED
    BY <1>3, <2>1, <2>2 DEF Kept
<1>9. CASE Unbind
  BY <1>9 DEF Unbind, Kept
<1>10. CASE Release
  <2>1. GivenBackBy(driver, Tail(todo)) \subseteq GivenBackBy(driver, todo)
        /\ {Head(todo)} \cup AlsoOf(driver, Head(todo)) \subseteq GivenBackBy(driver, todo)
    BY <1>1, <1>10, ToSetTail DEF Release, GivenBackBy
  <2> QED
    BY <1>2, <1>3, <1>10, <2>1 DEF Release, GiveBack, Kept
<1>11. CASE Return
  BY <1>1, <1>3, <1>11 DEF Return, Kept
<1>12. CASE Devres \/ Gone
  BY <1>12 DEF Devres, Gone, Kept
<1>13. CASE UNCHANGED vars
  BY <1>3, <1>13 DEF vars, Kept
<1> QED
  BY <1>5, <1>6, <1>7, <1>8, <1>9, <1>10, <1>11, <1>12, <1>13 DEF Next

\* If no step of the table fails unnoticed, but for the known ones, a bound driver has
\* all it needs, for any table.
THEOREM ProbesSuffice ==
  ASSUME ProbesKeep
  PROVE  Spec => []BoundIsComplete
<1>1. Init => RequiredKept
  BY DEF Init, RequiredKept, Kept
<1>2. TypeOK /\ RequiredKept => BoundIsComplete
  BY ProbesKeep DEF TypeOK, RequiredKept, Kept, BoundIsComplete, ProbesKeep
<1>3. TypeOK /\ RequiredKept /\ [Next]_vars => RequiredKept'
  BY RequiredKeptNext
<1> QED
  BY <1>1, <1>2, <1>3, TypeCorrect, PTL DEF Spec

-----------------------------------------------------------------------------
(* What probe is sure to hold                                              *)

\* Whatever is surely held before a step of probe is held there, and what is held has been
\* taken by a step before.
ProbeHolds ==
  phase = "probe" => \A r : /\ SurelyHeld(driver, r, at) => r \in held
                            /\ r \in held => TakenBefore(driver, r, at)

\* Before its next step.
LEMMA SurelyHeldNext ==
  ASSUME TypeOK, Probing, NEW r, SurelyHeld(driver, r, at + 1)
  PROVE  \/ SurelyTakes(Step, r)
         \/ SurelyHeld(driver, r, at) /\ (Step.kind = "drop" => r \notin Frees(driver, Step.what))
<1>1. at \in Nat \ {0}
  BY DriverType DEF TypeOK
<1>2. PICK j \in 1..(at + 1) - 1 :
        /\ SurelyTakes(Steps(driver)[j], r)
        /\ \A k \in j + 1..(at + 1) - 1 :
             Steps(driver)[k].kind = "drop" => r \notin Frees(driver, Steps(driver)[k].what)
  BY DEF SurelyHeld
<1>3. CASE j = at
  BY <1>2, <1>3 DEF Step
<1>4. CASE j # at
  <2>1. j \in 1..at - 1 /\ at \in j + 1..(at + 1) - 1
        /\ \A k \in j + 1..at - 1 : k \in j + 1..(at + 1) - 1
    BY <1>1, <1>4
  <2> QED
    BY <1>2, <2>1 DEF SurelyHeld, Step
<1> QED
  BY <1>3, <1>4

LEMMA ProbeHoldsNext == TypeOK /\ ProbeHolds /\ [Next]_vars => ProbeHolds'
<1> SUFFICES ASSUME TypeOK, ProbeHolds, [Next]_vars, phase' = "probe", NEW r
             PROVE  /\ SurelyHeld(driver', r, at') => r \in held'
                    /\ r \in held' => TakenBefore(driver', r, at')
  BY DEF ProbeHolds
<1>1. CASE Succeed
  <2>1. Probing /\ at' = at + 1 /\ driver' = driver /\ phase = "probe"
    BY <1>1 DEF Succeed, Probing
  <2>2. ASSUME SurelyHeld(driver, r, at + 1) PROVE r \in held'
    <3>1. CASE SurelyTakes(Step, r)
      BY <1>1, <3>1 DEF Succeed, SurelyTakes
    <3>2. CASE SurelyHeld(driver, r, at) /\ (Step.kind = "drop" => r \notin Frees(driver, Step.what))
      BY <1>1, <2>1, <3>2 DEF Succeed, GiveBack, ProbeHolds, Frees
    <3> QED
      BY <2>1, <2>2, <3>1, <3>2, SurelyHeldNext
  <2>3. ASSUME r \in held' PROVE TakenBefore(driver, r, at + 1)
    <3>1. CASE r = Step.what /\ Step.kind \notin {"try", "drop"}
      BY <2>1, <3>1, TakenNow
    <3>2. CASE ~(r = Step.what /\ Step.kind \notin {"try", "drop"})
      <4>1. r \in held /\ ~(Step.what = r /\ Step.kind = "drop")
        BY <1>1, <2>3, <3>2 DEF Succeed, GiveBack
      <4> QED
        BY <2>1, <4>1, TakenStays DEF ProbeHolds
    <3> QED
      BY <3>1, <3>2
  <2> QED
    BY <2>1, <2>2, <2>3
<1>2. CASE GoOnWithout
  <2>1. Probing /\ at' = at + 1 /\ driver' = driver /\ phase = "probe" /\ held' = held
        /\ Step.err \in {"ignored", "optional"}
    BY <1>2 DEF GoOnWithout, Probing
  <2>2. SurelyHeld(driver, r, at + 1) => r \in held
    BY <2>1, SurelyHeldNext DEF ProbeHolds, SurelyTakes
  <2>3. r \in held => TakenBefore(driver, r, at + 1)
    BY <2>1, TakenStays DEF ProbeHolds
  <2> QED
    BY <2>1, <2>2, <2>3
<1>3. CASE UNCHANGED vars
  BY <1>3 DEF vars, ProbeHolds
<1>4. ~Fail /\ ~Bind /\ ~Unbind /\ ~Release /\ ~Return /\ ~Devres /\ ~Gone
  BY DEF Fail, Bind, Unbind, Release, Return, Devres, Gone, TypeOK
<1> QED
  BY <1>1, <1>2, <1>3, <1>4 DEF Next

\* Each managed resource was taken by a managed step, and they are listed in the order of
\* their steps: those of the steps after it that surely succeed come after it on the list.
DevInOrder ==
  /\ at <= Len(Steps(driver)) + 1
  /\ \A p \in DOMAIN dev : \E h \in 1..at - 1 : Managed(Steps(driver)[h], dev[p])
  /\ \A p, q \in DOMAIN dev : p < q =>
       \E h, g \in 1..at - 1 : /\ h < g /\ Managed(Steps(driver)[h], dev[p])
                               /\ Managed(Steps(driver)[g], dev[q])
DevIsWhole ==
  phase = "probe" =>
    \A p \in DOMAIN dev : \E h \in 1..at - 1 :
      /\ Managed(Steps(driver)[h], dev[p])
      /\ \A g \in h + 1..at - 1 : SurelyManaged(Steps(driver)[g]) =>
           \E q \in p + 1..Len(dev) : dev[q] = Steps(driver)[g].what

\* What a list without its last element is.
LEMMA FrontElements ==
  ASSUME NEW S, NEW s \in Seq(S), s # <<>>
  PROVE  /\ Len(s) \in Nat \ {0} /\ DOMAIN s = 1..Len(s) /\ Last(s) = s[Len(s)]
         /\ Len(Front(s)) = Len(s) - 1 /\ DOMAIN Front(s) = 1..Len(s) - 1
         /\ \A p \in 1..Len(s) - 1 : Front(s)[p] = s[p]
<1>1. Len(s) \in Nat \ {0} /\ DOMAIN s = 1..Len(s)
  OBVIOUS
<1>2. /\ DOMAIN Front(s) = 1..Len(s) - 1 /\ Len(Front(s)) = Len(s) - 1
      /\ \A p \in 1..Len(s) - 1 : Front(s)[p] = s[p]
  BY <1>1 DEF Front
<1> QED
  BY <1>1, <1>2 DEF Last

\* A list with one more element.
LEMMA AppendElements ==
  ASSUME NEW S, NEW s \in Seq(S), NEW e \in S
  PROVE  /\ Len(s) \in Nat /\ DOMAIN s = 1..Len(s)
         /\ Len(Append(s, e)) = Len(s) + 1 /\ DOMAIN Append(s, e) = 1..Len(s) + 1
         /\ Append(s, e)[Len(s) + 1] = e
         /\ \A p \in 1..Len(s) : Append(s, e)[p] = s[p]
  OBVIOUS

LEMMA DevInOrderNext ==
  TypeOK /\ DevInOrder /\ DevIsWhole /\ [Next]_vars => DevInOrder' /\ DevIsWhole'
<1> SUFFICES ASSUME TypeOK, DevInOrder, DevIsWhole, [Next]_vars
             PROVE  DevInOrder' /\ DevIsWhole'
  OBVIOUS
<1>1. /\ at \in Nat \ {0} /\ dev \in Seq(Resources(driver)) /\ driver \in DOMAIN Table
      /\ Len(Steps(driver)) \in Nat /\ Len(dev) \in Nat /\ DOMAIN dev = 1..Len(dev)
  BY DriverType DEF TypeOK
<1>2. 1..at - 1 \subseteq 1..(at + 1) - 1 /\ at \in 1..(at + 1) - 1
  BY <1>1
<1>3. CASE Succeed
  <2>1. /\ Probing /\ at' = at + 1 /\ driver' = driver /\ phase = "probe" /\ phase' = "probe"
        /\ at <= Len(Steps(driver))
    BY <1>3 DEF Succeed, Probing
  <2>2. CASE Step.kind = "devm"
    <3>1. dev' = Append(dev, Step.what) /\ Step.what \in Resources(driver)
          /\ Managed(Steps(driver)[at], Step.what)
      BY <1>1, <1>3, <2>1, <2>2, StepType DEF Succeed, Step, Managed
    <3>2. /\ Len(dev') = Len(dev) + 1 /\ DOMAIN dev' = 1..Len(dev) + 1
          /\ dev'[Len(dev) + 1] = Step.what /\ \A p \in 1..Len(dev) : dev'[p] = dev[p]
      BY <1>1, <3>1, AppendElements
    <3>3. \A p \in DOMAIN dev' : p = Len(dev) + 1 \/ p \in DOMAIN dev
      BY <1>1, <3>2
    <3>4. at' <= Len(Steps(driver')) + 1
      BY <1>1, <2>1
    <3>5. ASSUME NEW p \in DOMAIN dev'
          PROVE  \E h \in 1..at' - 1 : Managed(Steps(driver')[h], dev'[p])
      BY <1>1, <1>2, <2>1, <3>1, <3>2, <3>3 DEF DevInOrder
    <3>6. ASSUME NEW p \in DOMAIN dev', NEW q \in DOMAIN dev', p < q
          PROVE  \E h, g \in 1..at' - 1 : /\ h < g /\ Managed(Steps(driver')[h], dev'[p])
                                          /\ Managed(Steps(driver')[g], dev'[q])
      <4>1. p \in DOMAIN dev
        BY <1>1, <3>2, <3>6
      <4>2. CASE q \in DOMAIN dev
        BY <1>1, <1>2, <2>1, <3>2, <3>6, <4>1, <4>2 DEF DevInOrder
      <4>3. CASE q = Len(dev) + 1
        <5>1. PICK h \in 1..at - 1 : Managed(Steps(driver)[h], dev[p])
          BY <4>1 DEF DevInOrder
        <5>2. h < at /\ h \in 1..at' - 1 /\ at \in 1..at' - 1
          BY <1>1, <2>1
        <5> QED
          BY <1>1, <2>1, <3>1, <3>2, <4>1, <4>3, <5>1, <5>2
      <4> QED
        BY <3>3, <4>2, <4>3
    <3>7. ASSUME NEW p \in DOMAIN dev'
          PROVE  \E h \in 1..at' - 1 :
                   /\ Managed(Steps(driver')[h], dev'[p])
                   /\ \A g \in h + 1..at' - 1 : SurelyManaged(Steps(driver')[g]) =>
                        \E q \in p + 1..Len(dev') : dev'[q] = Steps(driver')[g].what
      <4>1. CASE p \in DOMAIN dev
        <5>1. PICK h \in 1..at - 1 :
                /\ Managed(Steps(driver)[h], dev[p])
                /\ \A g \in h + 1..at - 1 : SurelyManaged(Steps(driver)[g]) =>
                     \E q \in p + 1..Len(dev) : dev[q] = Steps(driver)[g].what
          BY <2>1, <4>1 DEF DevIsWhole
        <5>2. ASSUME NEW g \in h + 1..at' - 1, SurelyManaged(Steps(driver)[g])
              PROVE  \E q \in p + 1..Len(dev') : dev'[q] = Steps(driver)[g].what
          <6>1. CASE g = at
            <7>1. Len(dev) + 1 \in p + 1..Len(dev')
              BY <1>1, <3>2, <4>1
            <7> QED
              BY <3>2, <6>1, <7>1 DEF Step
          <6>2. CASE g # at
            <7>1. g \in h + 1..at - 1
              BY <1>1, <2>1, <6>2
            <7>2. PICK q \in p + 1..Len(dev) : dev[q] = Steps(driver)[g].what
              BY <5>1, <5>2, <7>1
            <7>3. q \in p + 1..Len(dev') /\ q \in 1..Len(dev)
              BY <1>1, <3>2, <4>1
            <7> QED
              BY <3>2, <7>2, <7>3
          <6> QED
            BY <6>1, <6>2
        <5>3. h \in 1..at' - 1 /\ dev'[p] = dev[p]
          BY <1>1, <1>2, <2>1, <3>2, <4>1
        <5> QED
          BY <2>1, <5>1, <5>2, <5>3
      <4>2. CASE p = Len(dev) + 1
        <5>1. at \in 1..at' - 1 /\ at + 1..at' - 1 = {}
          BY <1>1, <2>1
        <5> QED
          BY <2>1, <3>1, <3>2, <4>2, <5>1
      <4> QED
        BY <3>3, <4>1, <4>2
    <3> QED
      BY <3>4, <3>5, <3>6, <3>7 DEF DevInOrder, DevIsWhole
  <2>3. CASE Step.kind # "devm"
    <3>1. dev' = dev /\ ~SurelyManaged(Step)
      BY <1>3, <2>3 DEF Succeed, SurelyManaged
    <3>2. \A h \in 1..at - 1 : \A g \in h + 1..at' - 1 : g = at \/ g \in h + 1..at - 1
      BY <1>1, <2>1
    <3>3. DevInOrder'
      BY <1>1, <1>2, <2>1, <3>1 DEF DevInOrder
    <3>4. DevIsWhole'
      BY <1>2, <2>1, <3>1, <3>2 DEF DevIsWhole, Step
    <3> QED
      BY <3>3, <3>4
  <2> QED
    BY <2>2, <2>3
<1>4. CASE GoOnWithout
  <2>1. /\ Probing /\ at' = at + 1 /\ driver' = driver /\ phase = "probe" /\ dev' = dev
        /\ at <= Len(Steps(driver)) /\ ~SurelyManaged(Step)
    BY <1>4 DEF GoOnWithout, Probing, SurelyManaged
  <2>2. \A h \in 1..at - 1 : \A g \in h + 1..at' - 1 : g = at \/ g \in h + 1..at - 1
    BY <1>1, <2>1
  <2>3. DevInOrder'
    <3>1. at' <= Len(Steps(driver')) + 1 /\ 1..at - 1 \subseteq 1..at' - 1
      BY <1>1, <2>1
    <3> QED
      BY <2>1, <3>1 DEF DevInOrder
  <2>4. DevIsWhole'
    <3>1. ASSUME NEW p \in DOMAIN dev
          PROVE  \E h \in 1..at' - 1 :
                   /\ Managed(Steps(driver)[h], dev[p])
                   /\ \A g \in h + 1..at' - 1 : SurelyManaged(Steps(driver)[g]) =>
                        \E q \in p + 1..Len(dev) : dev[q] = Steps(driver)[g].what
      <4>1. PICK h \in 1..at - 1 :
              /\ Managed(Steps(driver)[h], dev[p])
              /\ \A g \in h + 1..at - 1 : SurelyManaged(Steps(driver)[g]) =>
                   \E q \in p + 1..Len(dev) : dev[q] = Steps(driver)[g].what
        BY <2>1 DEF DevIsWhole
      <4>2. h \in 1..at' - 1
        BY <1>1, <2>1
      <4> QED
        BY <2>1, <2>2, <4>1, <4>2 DEF Step
    <3> QED
      BY <2>1, <3>1 DEF DevIsWhole
  <2> QED
    BY <2>3, <2>4
<1>5. CASE Devres
  <2>1. dev # <<>> /\ dev' = Front(dev) /\ at' = at /\ driver' = driver /\ phase' = "devres"
    BY <1>5 DEF Devres
  <2>2. DOMAIN dev' \subseteq DOMAIN dev /\ \A p \in DOMAIN dev' : dev'[p] = dev[p]
    BY <1>1, <2>1, FrontElements
  <2> QED
    BY <2>1, <2>2 DEF DevInOrder, DevIsWhole
<1>6. CASE Fail \/ Bind \/ Unbind \/ Release \/ Return \/ Gone \/ UNCHANGED vars
  <2>1. /\ dev' = dev /\ at' = at /\ driver' = driver
        /\ phase' = "probe" => phase = "probe"
    BY <1>6 DEF Fail, Bind, Unbind, Release, Return, Gone, vars, TypeOK
  <2> QED
    BY <2>1 DEF DevInOrder, DevIsWhole
<1> QED
  BY <1>3, <1>4, <1>5, <1>6 DEF Next

\* The facts about probe and devres together.
ProbeInv == TypeOK /\ ProbeHolds /\ DevInOrder /\ DevIsWhole

LEMMA ProbeInvariance == Spec => []ProbeInv
<1>1. Init => ProbeHolds /\ DevInOrder /\ DevIsWhole
  <2> SUFFICES ASSUME Init PROVE ProbeHolds /\ DevInOrder /\ DevIsWhole
    OBVIOUS
  <2>1. Len(Steps(driver)) \in Nat /\ at = 1 /\ dev = <<>> /\ DOMAIN dev = {} /\ held = {}
    BY DriverType DEF Init
  <2>2. \A r : ~SurelyHeld(driver, r, at)
    BY <2>1 DEF SurelyHeld
  <2> QED
    BY <2>1, <2>2 DEF ProbeHolds, DevInOrder, DevIsWhole
<1>2. TypeOK /\ ProbeHolds /\ DevInOrder /\ DevIsWhole /\ [Next]_vars
        => ProbeHolds' /\ DevInOrder' /\ DevIsWhole'
  BY ProbeHoldsNext, DevInOrderNext
<1>3. TypeOK /\ ProbeHolds /\ DevInOrder /\ DevIsWhole <=> ProbeInv
  BY DEF ProbeInv
<1> QED
  BY <1>1, <1>2, <1>3, TypeCorrect, PTL DEF Spec

LEMMA GivenBackTail ==
  ASSUME NEW d, NEW S, NEW s \in Seq(S), s # <<>>
  PROVE  /\ Frees(d, Head(s)) \subseteq GivenBackBy(d, s)
         /\ GivenBackBy(d, Tail(s)) \subseteq GivenBackBy(d, s)
         /\ GivenBackBy(d, s) \subseteq Frees(d, Head(s)) \cup GivenBackBy(d, Tail(s))
<1>1. Head(s) \in ToSet(s) /\ ToSet(Tail(s)) \subseteq ToSet(s)
  BY ToSetTail
<1>2. ToSet(s) \subseteq {Head(s)} \cup ToSet(Tail(s))
  BY ToSetHead
<1> QED
  BY <1>1, <1>2 DEF GivenBackBy, Frees

-----------------------------------------------------------------------------
(* Nothing is given back twice                                             *)

\* Where the code still to run gives r back, r is held, and not given back before.
HeldForRelease(r) ==
  LET remove == Table[driver].remove IN
  /\ r \notin wrong
  /\ phase = "release" =>
       /\ r \in ToSet(todo) => r \in held /\ OnceIn(driver, todo, r)
       /\ ending = "bound" /\ r \in ToSet(remove) =>
            r \in held /\ r \notin GivenBackBy(driver, todo)
  /\ phase = "bound" /\ r \in ToSet(remove) => r \in held
  /\ r \in ToSet(dev) \ Table[driver].aware =>
       r \in held /\ (phase = "release" => r \notin GivenBackBy(driver, todo))

ReleasesHeld == \A r \in Resources(driver) : EveryReleaseHolds(driver, r) => HeldForRelease(r)

\* The rest of a list gives r back once.
LEMMA OnceInTail ==
  ASSUME NEW d, NEW S, NEW s \in Seq(S), s # <<>>, NEW r, OnceIn(d, s, r)
  PROVE  /\ OnceIn(d, Tail(s), r)
         /\ r \in ToSet(Tail(s)) => r \in ToSet(s) /\ r \notin Frees(d, Head(s))
<1>1. /\ DOMAIN s = 1..Len(s) /\ Len(s) \in Nat \ {0} /\ Head(s) = s[1]
      /\ DOMAIN Tail(s) = 1..Len(s) - 1 /\ \A p \in 1..Len(s) - 1 : Tail(s)[p] = s[p + 1]
  OBVIOUS
<1>2. ASSUME NEW p \in DOMAIN Tail(s), Tail(s)[p] = r
      PROVE  /\ p + 1 \in DOMAIN s /\ s[p + 1] = r
             /\ \A q \in 1..p : r \notin Frees(d, s[q])
  <2>1. p + 1 \in DOMAIN s /\ s[p + 1] = r /\ (p + 1) - 1 = p
    BY <1>1, <1>2
  <2> QED
    BY <2>1 DEF OnceIn
<1>3. OnceIn(d, Tail(s), r)
  <2> SUFFICES ASSUME NEW p \in DOMAIN Tail(s), Tail(s)[p] = r, NEW q \in 1..p - 1
               PROVE  r \notin Frees(d, Tail(s)[q])
    BY DEF OnceIn
  <2>1. q + 1 \in 1..p /\ q \in 1..Len(s) - 1
    BY <1>1
  <2> QED
    BY <1>1, <1>2, <2>1
<1>4. ASSUME r \in ToSet(Tail(s)) PROVE r \in ToSet(s) /\ r \notin Frees(d, Head(s))
  <2>1. PICK p \in DOMAIN Tail(s) : Tail(s)[p] = r
    BY <1>4 DEF ToSet
  <2>2. 1 \in 1..p
    BY <1>1
  <2> QED
    BY <1>1, <1>2, <2>1, <2>2 DEF ToSet
<1> QED
  BY <1>3, <1>4

\* What devres still has to give back was taken by a managed step, and neither a ladder, nor
\* remove, nor a later step gives it back.
LEMMA DevresAlone ==
  ASSUME TypeOK, DevInOrder, NEW r \in ToSet(dev), r \notin Table[driver].aware,
         EveryReleaseHolds(driver, r)
  PROVE  /\ r \notin GivenBackBy(driver, Table[driver].remove)
         /\ at <= Len(Steps(driver)) =>
              /\ ErrorPath(Step) => r \notin GivenBackBy(driver, Step.undo)
              /\ Step.kind \in {"drop", "devm"} => r \notin Frees(driver, Step.what)
<1>1. /\ at \in Nat \ {0} /\ Len(Steps(driver)) \in Nat /\ at <= Len(Steps(driver)) + 1
      /\ driver \in DOMAIN Table
  BY DriverType DEF TypeOK
<1>2. PICK j \in 1..at - 1 : Managed(Steps(driver)[j], r)
  BY DEF DevInOrder, ToSet
<1>3. j \in 1..Len(Steps(driver)) /\ (at <= Len(Steps(driver)) => at \in j + 1..Len(Steps(driver)))
  BY <1>1
<1> QED
  BY <1>2, <1>3 DEF EveryReleaseHolds, Step

\* Devres gives back its last resource: this takes no other of its list along.
LEMMA DevresLastAlone ==
  ASSUME TypeOK, DevInOrder, dev # <<>>, NEW r \in ToSet(Front(dev)),
         r \notin Table[driver].aware, EveryReleaseHolds(driver, r)
  PROVE  r \in ToSet(dev) /\ r \notin Frees(driver, Last(dev))
<1>1. /\ dev \in Seq(Resources(driver)) /\ Len(dev) \in Nat \ {0} /\ DOMAIN dev = 1..Len(dev)
      /\ Last(dev) = dev[Len(dev)] /\ DOMAIN Front(dev) = 1..Len(dev) - 1
      /\ \A p \in 1..Len(dev) - 1 : Front(dev)[p] = dev[p]
  BY FrontElements DEF TypeOK
<1>2. PICK p \in 1..Len(dev) - 1 : dev[p] = r
  BY <1>1 DEF ToSet
<1>3. p \in DOMAIN dev /\ Len(dev) \in DOMAIN dev /\ p < Len(dev)
  BY <1>1
<1>4. PICK h, g \in 1..at - 1 : /\ h < g /\ Managed(Steps(driver)[h], r)
                                /\ Managed(Steps(driver)[g], Last(dev))
  BY <1>1, <1>2, <1>3 DEF DevInOrder
<1>5. h \in 1..Len(Steps(driver)) /\ g \in h + 1..Len(Steps(driver))
  <2>1. at \in Nat \ {0} /\ Len(Steps(driver)) \in Nat /\ at <= Len(Steps(driver)) + 1
    BY DriverType DEF TypeOK
  <2> QED
    BY <1>4, <2>1
<1>6. r \notin Frees(driver, Last(dev))
  BY <1>4, <1>5 DEF EveryReleaseHolds, Managed
<1> QED
  BY <1>2, <1>3, <1>6 DEF ToSet

LEMMA ReleasesHeldNext == ProbeInv /\ ReleasesHeld /\ [Next]_vars => ReleasesHeld'
<1> SUFFICES ASSUME ProbeInv, ReleasesHeld, [Next]_vars,
                    NEW r \in Resources(driver'), EveryReleaseHolds(driver', r)
             PROVE  HeldForRelease(r)'
  BY DEF ReleasesHeld
<1> DEFINE remove == Table[driver].remove
           last == Len(Steps(driver))
<1>1. /\ TypeOK /\ ProbeHolds /\ DevInOrder
      /\ at \in Nat \ {0} /\ dev \in Seq(Resources(driver))
      /\ todo \in Seq(Resources(driver)) /\ ending \in {"bound", "devres"}
      /\ driver \in DOMAIN Table /\ last \in Nat /\ at <= last + 1
  BY DriverType DEF ProbeInv, TypeOK
<1>2. driver' = driver
  BY DEF Next, Succeed, Fail, GoOnWithout, Bind, Unbind, Release, Return, Devres, Gone, vars
<1>3. HeldForRelease(r) /\ EveryReleaseHolds(driver, r)
  BY <1>2 DEF ReleasesHeld
<1>4. CASE Succeed
  <2>1. Probing /\ phase = "probe" /\ phase' = "probe" /\ at \in 1..last
    BY <1>1, <1>4 DEF Succeed, Probing
  <2>2. r \notin wrong'
    <3>1. Step.kind = "drop" /\ Step.what = r => r \in held
      BY <1>1, <1>3, <2>1 DEF EveryReleaseHolds, ProbeHolds, Step
    <3> QED
      BY <1>3, <1>4, <3>1 DEF Succeed, GiveBack, HeldForRelease
  <2>3. ASSUME r \in ToSet(dev'), r \notin Table[driver].aware PROVE r \in held'
    <3>1. CASE r \in ToSet(dev)
      <4>1. r \in held /\ (Step.kind = "drop" => r \notin Frees(driver, Step.what))
        BY <1>1, <1>3, <2>1, <2>3, <3>1, DevresAlone DEF HeldForRelease
      <4> QED
        BY <1>4, <4>1 DEF Succeed, GiveBack, Frees
    <3>2. CASE r \notin ToSet(dev)
      <4>1. Step.kind = "devm" /\ dev' = Append(dev, Step.what) /\ Step.what \in Resources(driver)
        BY <1>1, <1>4, <2>1, <2>3, <3>2, StepType DEF Succeed, Step
      <4>2. r = Step.what
        <5>1. PICK p \in DOMAIN dev' : dev'[p] = r
          BY <2>3 DEF ToSet
        <5>2. /\ Len(dev) \in Nat /\ DOMAIN dev = 1..Len(dev) /\ DOMAIN dev' = 1..Len(dev) + 1
              /\ dev'[Len(dev) + 1] = Step.what /\ \A q \in 1..Len(dev) : dev'[q] = dev[q]
          BY <1>1, <4>1, AppendElements
        <5>3. p = Len(dev) + 1 \/ p \in DOMAIN dev
          BY <5>2
        <5> QED
          BY <3>2, <5>1, <5>2, <5>3 DEF ToSet
      <4> QED
        BY <1>4, <4>1, <4>2 DEF Succeed
    <3> QED
      BY <3>1, <3>2
  <2> QED
    BY <1>2, <2>1, <2>2, <2>3 DEF HeldForRelease
<1>5. CASE Fail
  <2>1. /\ phase = "probe" /\ phase' = "release" /\ at \in 1..last /\ ErrorPath(Step)
        /\ todo' = Step.undo /\ UNCHANGED <<held, dev, wrong>>
        /\ ending' = IF Step.err = "binds" THEN "bound" ELSE "devres"
    BY <1>1, <1>5 DEF Fail, Probing, ErrorPath
  <2>2. r \in ToSet(Step.undo) => r \in held /\ OnceIn(driver, Step.undo, r)
    BY <1>1, <1>3, <2>1 DEF EveryReleaseHolds, ProbeHolds, Step
  <2>3. Step.err = "binds" /\ r \in ToSet(remove) =>
          r \in held /\ r \notin GivenBackBy(driver, Step.undo)
    BY <1>1, <1>3, <2>1 DEF EveryReleaseHolds, ProbeHolds, Step
  <2>4. r \in ToSet(dev) \ Table[driver].aware =>
          r \in held /\ r \notin GivenBackBy(driver, Step.undo)
    BY <1>1, <1>3, <2>1, DevresAlone DEF HeldForRelease
  <2> QED
    BY <1>2, <1>3, <2>1, <2>2, <2>3, <2>4 DEF HeldForRelease
<1>6. CASE GoOnWithout
  BY <1>2, <1>3, <1>6 DEF GoOnWithout, Probing, HeldForRelease
<1>7. CASE Bind
  <2>1. phase = "probe" /\ phase' = "bound" /\ at = last + 1 /\ UNCHANGED <<held, dev, wrong>>
    BY <1>1, <1>7 DEF Bind
  <2>2. r \in ToSet(remove) => r \in held
    BY <1>1, <1>3, <2>1 DEF EveryReleaseHolds, ProbeHolds
  <2> QED
    BY <1>2, <1>3, <2>1, <2>2 DEF HeldForRelease
<1>8. CASE Unbind
  <2>1. /\ phase = "bound" /\ phase' = "release" /\ todo' = remove /\ ending' = "devres"
        /\ UNCHANGED <<held, dev, wrong>>
    BY <1>8 DEF Unbind
  <2>2. r \in ToSet(remove) => r \in held /\ OnceIn(driver, remove, r)
    BY <1>3, <2>1 DEF EveryReleaseHolds, HeldForRelease
  <2>3. r \in ToSet(dev) \ Table[driver].aware => r \in held /\ r \notin GivenBackBy(driver, remove)
    BY <1>1, <1>3, DevresAlone DEF HeldForRelease
  <2> QED
    BY <1>2, <1>3, <2>1, <2>2, <2>3 DEF HeldForRelease
<1>9. CASE Release
  <2>1. /\ phase = "release" /\ todo # <<>> /\ todo' = Tail(todo)
        /\ held' = held \ Frees(driver, Head(todo)) /\ wrong' = wrong \cup ({Head(todo)} \ held)
        /\ UNCHANGED <<phase, dev, ending>>
    BY <1>9 DEF Release, GiveBack, Frees
  <2>2. /\ Head(todo) \in ToSet(todo)
        /\ Frees(driver, Head(todo)) \subseteq GivenBackBy(driver, todo)
        /\ GivenBackBy(driver, Tail(todo)) \subseteq GivenBackBy(driver, todo)
    BY <1>1, <2>1, ToSetTail, GivenBackTail
  <2>3. r \notin wrong'
    BY <1>3, <2>1, <2>2 DEF HeldForRelease
  <2>4. r \in ToSet(Tail(todo)) => r \in held' /\ OnceIn(driver, Tail(todo), r)
    <3>1. ASSUME r \in ToSet(Tail(todo)) PROVE r \in ToSet(todo)
      BY <1>1, <2>1, <3>1, ToSetTail
    <3> QED
      BY <1>1, <1>3, <2>1, <3>1, OnceInTail DEF HeldForRelease
  <2> QED
    BY <1>2, <1>3, <2>1, <2>2, <2>3, <2>4 DEF HeldForRelease
<1>10. CASE Return
  BY <1>1, <1>2, <1>3, <1>10 DEF Return, HeldForRelease
<1>11. CASE Devres
  <2>1. /\ phase = "devres" /\ phase' = "devres" /\ dev # <<>> /\ dev' = Front(dev)
        /\ \/ Last(dev) \in Table[driver].aware \ held /\ UNCHANGED <<held, wrong>>
           \/ /\ Last(dev) \notin Table[driver].aware \ held
              /\ held' = held \ Frees(driver, Last(dev)) /\ wrong' = wrong \cup ({Last(dev)} \ held)
    BY <1>11 DEF Devres, GiveBack, Frees
  <2>2. Last(dev) \in ToSet(dev)
    <3>1. Len(dev) \in DOMAIN dev /\ Last(dev) = dev[Len(dev)]
      BY <1>1, <2>1, FrontElements
    <3> QED
      BY <3>1 DEF ToSet
  <2>3. r \notin wrong'
    BY <1>3, <2>1, <2>2 DEF HeldForRelease
  <2>4. r \in ToSet(dev') \ Table[driver].aware => r \in held'
    BY <1>1, <1>3, <2>1, DevresLastAlone DEF HeldForRelease
  <2> QED
    BY <1>2, <2>1, <2>3, <2>4 DEF HeldForRelease
<1>12. CASE Gone
  BY <1>2, <1>3, <1>12 DEF Gone, HeldForRelease
<1>13. CASE UNCHANGED vars
  BY <1>3, <1>13 DEF vars, HeldForRelease
<1> QED
  BY <1>4, <1>5, <1>6, <1>7, <1>8, <1>9, <1>10, <1>11, <1>12, <1>13 DEF Next

\* If every release of the table is of what is surely held, but for the known doubles,
\* nothing else is given back twice or without being held, whatever fails: for any table.
THEOREM ReleasesSuffice ==
  ASSUME ReleasesHold
  PROVE  Spec => []NothingReleasedTwice
<1>1. Init => ReleasesHeld
  <2> SUFFICES ASSUME Init, NEW r PROVE HeldForRelease(r)
    BY DEF ReleasesHeld
  <2> QED
    BY ToSetEmpty DEF Init, HeldForRelease
<1>2. TypeOK /\ ReleasesHeld => NothingReleasedTwice
  BY ReleasesHold DEF TypeOK, ReleasesHeld, HeldForRelease, NothingReleasedTwice, ReleasesHold
<1>3. ProbeInv => TypeOK
  BY DEF ProbeInv
<1> QED
  BY <1>1, <1>2, <1>3, ProbeInvariance, ReleasesHeldNext, PTL DEF Spec

-----------------------------------------------------------------------------
(* What an interface needs is there                                        *)

\* Devres gives the interface i back before r, or with it.
DevresServes(i, r) ==
  \A p \in DOMAIN dev : r \in Frees(driver, dev[p]) =>
    i \in Frees(driver, dev[p]) \/ \E q \in p + 1..Len(dev) : Shuts(driver, dev[q], i)

\* So does remove, or devres after it.
RemoveServes(i, r) ==
  /\ ShutsFirst(driver, Table[driver].remove, i, r)
  /\ i \notin GivenBackBy(driver, Table[driver].remove) => DevresServes(i, r)

\* An interface that is held has what it needs, and the code that is still to run keeps
\* it that way.
Served(i, r) ==
  i \in held =>
    /\ r \in held
    /\ phase = "release" =>
         /\ ShutsFirst(driver, todo, i, r)
         /\ i \notin GivenBackBy(driver, todo) =>
              IF ending = "devres" THEN DevresServes(i, r) ELSE RemoveServes(i, r)
    /\ phase = "bound" => RemoveServes(i, r)
    /\ phase = "devres" => DevresServes(i, r)

AllServed ==
  \A i \in Interfaces(driver) : \A r \in Table[driver].needs[i] :
    EveryPathServes(driver, i, r) => Served(i, r)

\* What the table says of the steps of probe holds of the list of devres.
LEMMA DevresListServes ==
  ASSUME TypeOK, DevIsWhole, phase = "probe", NEW i, NEW r, DevresShutsFirst(driver, at, i, r)
  PROVE  DevresServes(i, r)
<1> SUFFICES ASSUME NEW p \in DOMAIN dev, r \in Frees(driver, dev[p]),
                    i \notin Frees(driver, dev[p])
             PROVE  \E q \in p + 1..Len(dev) : Shuts(driver, dev[q], i)
  BY DEF DevresServes
<1>1. PICK h \in 1..at - 1 :
        /\ Managed(Steps(driver)[h], dev[p])
        /\ \A g \in h + 1..at - 1 : SurelyManaged(Steps(driver)[g]) =>
             \E q \in p + 1..Len(dev) : dev[q] = Steps(driver)[g].what
  BY DEF DevIsWhole
<1>2. PICK g \in h + 1..at - 1 :
        SurelyManaged(Steps(driver)[g]) /\ Shuts(driver, Steps(driver)[g].what, i)
  BY <1>1 DEF DevresShutsFirst, Managed
<1> QED
  BY <1>1, <1>2

\* The rest of a list that has not given the interface back yet.
LEMMA ShutsFirstTail ==
  ASSUME NEW d, NEW S, NEW s \in Seq(S), s # <<>>, NEW i, NEW r, ShutsFirst(d, s, i, r),
         i \notin Frees(d, Head(s))
  PROVE  r \notin Frees(d, Head(s)) /\ ShutsFirst(d, Tail(s), i, r)
<1>1. /\ DOMAIN s = 1..Len(s) /\ Len(s) \in Nat \ {0} /\ Head(s) = s[1]
      /\ DOMAIN Tail(s) = 1..Len(s) - 1 /\ \A p \in 1..Len(s) - 1 : Tail(s)[p] = s[p + 1]
  OBVIOUS
<1>2. r \notin Frees(d, Head(s))
  <2>1. 1 \in DOMAIN s /\ \A q \in 1..1 : q = 1
    BY <1>1
  <2> QED
    BY <1>1, <2>1 DEF ShutsFirst
<1>3. ASSUME NEW p \in DOMAIN Tail(s), r \in Frees(d, Tail(s)[p])
      PROVE  \E q \in 1..p : i \in Frees(d, Tail(s)[q])
  <2>1. p + 1 \in DOMAIN s /\ s[p + 1] = Tail(s)[p]
    BY <1>1
  <2>2. PICK q \in 1..p + 1 : i \in Frees(d, s[q])
    BY <1>3, <2>1 DEF ShutsFirst
  <2>3. q # 1
    BY <1>1, <2>2
  <2>4. q - 1 \in 1..p /\ q - 1 \in 1..Len(s) - 1 /\ (q - 1) + 1 = q
    BY <1>1, <2>3
  <2>5. Tail(s)[q - 1] = s[q]
    BY <1>1, <2>4
  <2> QED
    BY <2>2, <2>4, <2>5
<1> QED
  BY <1>2, <1>3 DEF ShutsFirst

LEMMA AllServedNext == ProbeInv /\ AllServed /\ [Next]_vars => AllServed'
<1> SUFFICES ASSUME ProbeInv, AllServed, [Next]_vars,
                    NEW i \in Interfaces(driver'), NEW r \in Table[driver'].needs[i],
                    EveryPathServes(driver', i, r), i \in held'
             PROVE  Served(i, r)'
  BY DEF AllServed, Served
<1> DEFINE remove == Table[driver].remove
           last == Len(Steps(driver))
<1>1. /\ TypeOK /\ ProbeHolds /\ DevIsWhole
      /\ at \in Nat \ {0} /\ dev \in Seq(Resources(driver))
      /\ todo \in Seq(Resources(driver)) /\ ending \in {"bound", "devres"}
      /\ driver \in DOMAIN Table /\ last \in Nat /\ at <= last + 1
  BY DriverType DEF ProbeInv, TypeOK
<1>2. driver' = driver
  BY DEF Next, Succeed, Fail, GoOnWithout, Bind, Unbind, Release, Return, Devres, Gone, vars
<1>3. Served(i, r) /\ EveryPathServes(driver, i, r)
  BY <1>2 DEF AllServed
<1>4. CASE Succeed
  <2>1. Probing /\ phase = "probe" /\ phase' = "probe" /\ at \in 1..last
    BY <1>1, <1>4 DEF Succeed, Probing
  <2>2. CASE i = Step.what /\ Step.kind \notin {"try", "drop"}
    <3>1. r \in held
      BY <1>1, <1>3, <2>1, <2>2 DEF EveryPathServes, ProbeHolds, Step
    <3> QED
      BY <1>4, <2>1, <2>2, <3>1 DEF Succeed, Served
  <2>3. CASE ~(i = Step.what /\ Step.kind \notin {"try", "drop"})
    <3>1. i \in held /\ (Step.kind = "drop" => i \notin Frees(driver, Step.what))
      BY <1>4, <2>3 DEF Succeed, GiveBack, Frees
    <3>2. r \in held /\ TakenBefore(driver, i, at)
      BY <1>1, <1>3, <2>1, <3>1 DEF Served, ProbeHolds
    <3>3. Step.kind = "drop" => r \notin Frees(driver, Step.what)
      BY <1>3, <2>1, <3>1, <3>2 DEF EveryPathServes, Step
    <3> QED
      BY <1>4, <2>1, <3>2, <3>3 DEF Succeed, GiveBack, Served, Frees
  <2> QED
    BY <2>2, <2>3
<1>5. CASE Fail
  <2>1. /\ phase = "probe" /\ phase' = "release" /\ at \in 1..last /\ ErrorPath(Step)
        /\ todo' = Step.undo /\ UNCHANGED <<held, dev>> /\ i \in held /\ r \in held
        /\ ending' = IF Step.err = "binds" THEN "bound" ELSE "devres"
        /\ (Step.err = "fails" <=> Step.err # "binds")
    BY <1>1, <1>3, <1>5 DEF Fail, Probing, ErrorPath, Served
  <2>2. TakenBefore(driver, i, at)
    BY <1>1, <2>1 DEF ProbeHolds
  <2>3. /\ ShutsFirst(driver, Step.undo, i, r)
        /\ i \notin GivenBackBy(driver, Step.undo) =>
             IF Step.err = "fails" THEN DevresShutsFirst(driver, at, i, r)
             ELSE RemoveShutsFirst(driver, at, i, r)
    BY <1>3, <2>1, <2>2 DEF EveryPathServes, Step
  <2>4. DevresShutsFirst(driver, at, i, r) => DevresServes(i, r)
    BY <1>1, <2>1, DevresListServes
  <2>5. RemoveShutsFirst(driver, at, i, r) => RemoveServes(i, r)
    BY <2>4 DEF RemoveShutsFirst, RemoveServes
  <2>6. i \notin GivenBackBy(driver, Step.undo) =>
          IF ending' = "devres" THEN DevresServes(i, r) ELSE RemoveServes(i, r)
    BY <2>1, <2>3, <2>4, <2>5
  <2> QED
    BY <1>2, <2>1, <2>3, <2>6 DEF Served, DevresServes, RemoveServes
<1>6. CASE GoOnWithout
  BY <1>3, <1>6 DEF GoOnWithout, Probing, Served
<1>7. CASE Bind
  <2>1. phase = "probe" /\ phase' = "bound" /\ at = last + 1 /\ UNCHANGED <<held, dev>> /\ i \in held
    BY <1>1, <1>7 DEF Bind
  <2>2. RemoveShutsFirst(driver, at, i, r)
    BY <1>1, <1>3, <2>1 DEF EveryPathServes, ProbeHolds
  <2>3. RemoveServes(i, r)
    BY <1>1, <2>1, <2>2, DevresListServes DEF RemoveShutsFirst, RemoveServes
  <2> QED
    BY <1>2, <1>3, <2>1, <2>3 DEF Served, DevresServes, RemoveServes
<1>8. CASE Unbind
  BY <1>2, <1>3, <1>8 DEF Unbind, Served, DevresServes, RemoveServes
<1>9. CASE Release
  <2>1. /\ phase = "release" /\ todo # <<>> /\ todo' = Tail(todo)
        /\ held' = held \ Frees(driver, Head(todo)) /\ UNCHANGED <<phase, dev, ending>>
    BY <1>9 DEF Release, GiveBack, Frees
  <2>2. i \in held /\ i \notin Frees(driver, Head(todo))
    BY <2>1
  <2>3. r \notin Frees(driver, Head(todo)) /\ ShutsFirst(driver, Tail(todo), i, r)
    BY <1>1, <1>3, <2>1, <2>2, ShutsFirstTail DEF Served
  <2>4. i \notin GivenBackBy(driver, Tail(todo)) => i \notin GivenBackBy(driver, todo)
    BY <1>1, <2>1, <2>2, GivenBackTail
  <2> QED
    BY <1>2, <1>3, <2>1, <2>2, <2>3, <2>4 DEF Served, DevresServes, RemoveServes
<1>10. CASE Return
  <2>1. /\ phase = "release" /\ phase' = ending /\ todo = <<>> /\ UNCHANGED <<held, dev>>
    BY <1>10 DEF Return
  <2>2. i \notin GivenBackBy(driver, todo)
    BY <2>1, ToSetEmpty DEF GivenBackBy
  <2> QED
    BY <1>1, <1>2, <1>3, <2>1, <2>2 DEF Served, DevresServes, RemoveServes
<1>11. CASE Devres
  <2>1. /\ phase = "devres" /\ phase' = "devres" /\ dev # <<>> /\ dev' = Front(dev)
        /\ \/ Last(dev) \in Table[driver].aware \ held /\ held' = held
           \/ held' = held \ Frees(driver, Last(dev))
    BY <1>11 DEF Devres, GiveBack, Frees
  <2>2. /\ Len(dev) \in Nat \ {0} /\ DOMAIN dev = 1..Len(dev) /\ Last(dev) = dev[Len(dev)]
        /\ Len(dev') = Len(dev) - 1 /\ DOMAIN dev' = 1..Len(dev) - 1
        /\ \A p \in 1..Len(dev) - 1 : dev'[p] = dev[p]
    BY <1>1, <2>1, FrontElements
  <2>3. i \in held /\ r \in held /\ DevresServes(i, r)
    BY <1>3, <2>1 DEF Served
  <2>4. ~Shuts(driver, Last(dev), i)
    BY <2>1, <2>3 DEF Shuts
  <2>5. r \in held'
    <3>1. CASE held' = held
      BY <2>3, <3>1
    <3>2. CASE held' = held \ Frees(driver, Last(dev))
      <4>1. Len(dev) \in DOMAIN dev /\ Len(dev) + 1..Len(dev) = {}
        BY <2>2
      <4>2. i \notin Frees(driver, Last(dev))
        BY <3>2
      <4> QED
        BY <2>2, <2>3, <3>2, <4>1, <4>2 DEF DevresServes
    <3> QED
      BY <2>1, <3>1, <3>2
  <2>6. DevresServes(i, r)'
    <3> SUFFICES ASSUME NEW p \in DOMAIN dev', r \in Frees(driver, dev'[p]),
                        i \notin Frees(driver, dev'[p])
                 PROVE  \E q \in p + 1..Len(dev') : Shuts(driver, dev'[q], i)
      BY <1>2 DEF DevresServes
    <3>1. p \in DOMAIN dev /\ dev'[p] = dev[p]
      BY <2>2
    <3>2. PICK q \in p + 1..Len(dev) : Shuts(driver, dev[q], i)
      BY <2>3, <3>1 DEF DevresServes
    <3>3. q # Len(dev)
      BY <2>2, <2>4, <3>2
    <3>4. q \in p + 1..Len(dev') /\ q \in 1..Len(dev) - 1
      <4>1. ASSUME NEW n \in Nat \ {0}, NEW a \in 1..n - 1, NEW b \in a + 1..n, b # n
            PROVE  b \in a + 1..n - 1 /\ b \in 1..n - 1
        BY <4>1
      <4>2. p \in 1..Len(dev) - 1 /\ Len(dev') = Len(dev) - 1 /\ Len(dev) \in Nat \ {0}
        BY <2>2, Zenon
      <4> QED
        BY <3>3, <4>1, <4>2, Zenon
    <3> QED
      BY <2>2, <3>2, <3>4
  <2> QED
    BY <2>1, <2>5, <2>6 DEF Served
<1>12. CASE Gone
  BY <1>3, <1>12 DEF Gone, Served
<1>13. CASE UNCHANGED vars
  BY <1>2, <1>3, <1>13 DEF vars, Served, DevresServes, RemoveServes
<1> QED
  BY <1>4, <1>5, <1>6, <1>7, <1>8, <1>9, <1>10, <1>11, <1>12, <1>13 DEF Next

\* If the table makes interfaces last and gives them back first, but for the known ones, no
\* callback is ever reachable without what it uses: for any table.
THEOREM OrderSuffices ==
  ASSUME PathsServe
  PROVE  Spec => []ServedWhileReachable
<1>1. Init => AllServed
  BY DEF Init, AllServed, Served
<1>2. TypeOK /\ AllServed => ServedWhileReachable
  BY PathsServe DEF TypeOK, AllServed, Served, ServedWhileReachable, PathsServe
<1>3. ProbeInv => TypeOK
  BY DEF ProbeInv
<1> QED
  BY <1>1, <1>2, <1>3, ProbeInvariance, AllServedNext, PTL DEF Spec

====================================================================================
