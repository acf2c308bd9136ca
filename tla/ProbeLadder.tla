------------------------------- MODULE ProbeLadder -------------------------------
(***************************************************************************)
(* What a Linux driver of this repository may do with its resources: probe *)
(* takes them one by one and may fail at each, the goto ladder of the step *)
(* that failed gives some of them back, remove gives back those of a bound *)
(* driver, and the driver core releases the managed ones (devres) last, in *)
(* the reverse order of their allocation.  Which driver does what, and in  *)
(* which order, is data: the table (module DriverTables).                  *)
(*                                                                         *)
(* A step of probe is a record:                                            *)
(*   kind  "own"    the driver itself must give back what it takes         *)
(*         "devm"   devres gives it back                                   *)
(*         "try"    takes nothing (a check, a setting of the hardware)     *)
(*         "ready"  initialises a part of the driver: nothing to give back *)
(*         "drop"   probe itself gives back what it took before            *)
(*   what  the resource                                                    *)
(*   undo  what the error path of this step gives back, in its order       *)
(*   err   "fails"   probe returns an error after the error path           *)
(*         "binds"   the error path returns 0: the driver is bound         *)
(*         "ignored" a failure is not noticed: probe goes on without it    *)
(*         "optional" the driver is written to work without it             *)
(*         "never"   the step cannot fail                                  *)
(* A driver is a record of its steps, the order of remove, what each of    *)
(* its interfaces (device node, interrupt, timer) needs when it is called, *)
(* what else is given back with a resource (also: the callbacks of devm    *)
(* actions and of destructors) and the managed resources whose explicit    *)
(* release devres is told of (aware).                                      *)
(***************************************************************************)
EXTENDS Sequences, SequencesExt

CONSTANTS
  Table,         \* the drivers: a function from their names
  KnownLeaks,    \* <<driver, resource>>: leaks of this code,
  KnownDoubles,  \* double releases,
  KnownMissing,  \* resources a bound driver may lack,
  KnownBare      \* <<driver, interface, resource>>: served without it

Steps(d) == Table[d].steps
StepsOf(d) == {Steps(d)[i] : i \in DOMAIN Steps(d)}
Resources(d) == {s.what : s \in StepsOf(d)}
Interfaces(d) == DOMAIN Table[d].needs
Owned(d) == {s.what : s \in {t \in StepsOf(d) : t.kind = "own"}}
\* What a bound driver must have: what it took and did not drop on purpose.
Dropped(d) == {s.what : s \in {t \in StepsOf(d) : t.kind = "drop"}}
Required(d) == {s.what : s \in {t \in StepsOf(d) :
                                  t.kind \in {"own", "devm"} /\ t.err # "optional"}}
               \ Dropped(d)

ASSUME TableAssumption ==
  \A d \in DOMAIN Table :
    /\ Steps(d) \in Seq(StepsOf(d))
    /\ \A s \in StepsOf(d) :
         /\ s.kind \in {"own", "devm", "try", "ready", "drop"}
         /\ s.err \in {"fails", "binds", "ignored", "optional", "never"}
         /\ s.undo \in Seq(Resources(d))
    /\ Table[d].remove \in Seq(Resources(d))
    /\ Interfaces(d) \subseteq Resources(d)
    /\ \A i \in Interfaces(d) : Table[d].needs[i] \subseteq Resources(d)
    /\ DOMAIN Table[d].also \subseteq Resources(d)
    /\ \A r \in DOMAIN Table[d].also : Table[d].also[r] \subseteq Resources(d)

VARIABLES
  driver,  \* the driver whose device is probed
  phase,   \* what the driver core is doing with it
  at,      \* the step probe is at
  held,    \* what is taken and not given back
  dev,     \* the managed resources, oldest first
  todo,    \* what the error path or remove has still to give back
  ending,  \* the phase after that
  wrong    \* what was given back without being held

vars == <<driver, phase, at, held, dev, todo, ending, wrong>>

Phases == {"probe", "release", "bound", "devres", "gone"}

Init ==
  /\ driver \in DOMAIN Table
  /\ phase = "probe"
  /\ at = 1
  /\ held = {}
  /\ dev = <<>>
  /\ todo = <<>> /\ ending = "devres"
  /\ wrong = {}

Step == Steps(driver)[at]
Probing == phase = "probe" /\ at <= Len(Steps(driver))
AlsoOf(d, r) == IF r \in DOMAIN Table[d].also THEN Table[d].also[r] ELSE {}

\* r, and what goes with it, is given back.
GiveBack(r) ==
  /\ held' = held \ ({r} \cup AlsoOf(driver, r))
  /\ wrong' = wrong \cup ({r} \ held)

-----------------------------------------------------------------------------
(* probe                                                                   *)

\* A step succeeds.
Succeed ==
  /\ Probing
  /\ at' = at + 1
  /\ IF Step.kind = "drop" THEN GiveBack(Step.what)
     ELSE /\ held' = IF Step.kind = "try" THEN held ELSE held \cup {Step.what}
          /\ UNCHANGED wrong
  /\ dev' = IF Step.kind = "devm" THEN Append(dev, Step.what) ELSE dev
  /\ UNCHANGED <<driver, phase, todo, ending>>

\* Mutant: the goto of a step jumps to the label after its own.
FailToNextLabel ==
  /\ Probing
  /\ Step.err \in {"fails", "binds"}
  /\ phase' = "release"
  /\ todo' = IF Step.undo = <<>> THEN <<>> ELSE Tail(Step.undo)
  /\ ending' = IF Step.err = "binds" THEN "bound" ELSE "devres"
  /\ UNCHANGED <<driver, at, held, dev, wrong>>

\* A step fails, its error path begins.
Fail ==
  /\ Probing
  /\ Step.err \in {"fails", "binds"}
  /\ phase' = "release"
  /\ todo' = Step.undo
  /\ ending' = IF Step.err = "binds" THEN "bound" ELSE "devres"
  /\ UNCHANGED <<driver, at, held, dev, wrong>>

\* Mutant: what a step returns is not looked at.
GoOnUnchecked ==
  /\ Probing
  /\ Step.err \in {"fails", "ignored", "optional"}
  /\ at' = at + 1
  /\ UNCHANGED <<driver, phase, held, dev, todo, ending, wrong>>

\* A step fails, or is not needed, and probe goes on.
GoOnWithout ==
  /\ Probing
  /\ Step.err \in {"ignored", "optional"}
  /\ at' = at + 1
  /\ UNCHANGED <<driver, phase, held, dev, todo, ending, wrong>>

\* probe returns 0.
Bind ==
  /\ phase = "probe" /\ at > Len(Steps(driver))
  /\ phase' = "bound"
  /\ UNCHANGED <<driver, at, held, dev, todo, ending, wrong>>

-----------------------------------------------------------------------------
(* Error paths, remove and devres                                          *)

Unbind ==
  /\ phase = "bound"
  /\ phase' = "release"
  /\ todo' = Table[driver].remove
  /\ ending' = "devres"
  /\ UNCHANGED <<driver, at, held, dev, wrong>>

Release ==
  /\ phase = "release"
  /\ todo # <<>>
  /\ GiveBack(Head(todo))
  /\ todo' = Tail(todo)
  /\ UNCHANGED <<driver, phase, at, dev, ending>>

Return ==
  /\ phase = "release"
  /\ todo = <<>>
  /\ phase' = ending
  /\ UNCHANGED <<driver, at, held, dev, todo, ending, wrong>>

\* Mutant: managed resources are released in the order of their allocation.
DevresOldestFirst ==
  /\ phase = "devres"
  /\ dev # <<>>
  /\ GiveBack(Head(dev))
  /\ dev' = Tail(dev)
  /\ UNCHANGED <<driver, phase, at, todo, ending>>

\* Mutant: input_unregister_device does not tell devres.
DevresUntold ==
  /\ phase = "devres"
  /\ dev # <<>>
  /\ GiveBack(Last(dev))
  /\ dev' = Front(dev)
  /\ UNCHANGED <<driver, phase, at, todo, ending>>

\* A managed resource that was given back by hand is given back again, unless the
\* function that did it has told devres.
Devres ==
  /\ phase = "devres"
  /\ dev # <<>>
  /\ IF Last(dev) \in Table[driver].aware \ held THEN UNCHANGED <<held, wrong>>
     ELSE GiveBack(Last(dev))
  /\ dev' = Front(dev)
  /\ UNCHANGED <<driver, phase, at, todo, ending>>

Gone ==
  /\ phase = "devres"
  /\ dev = <<>>
  /\ phase' = "gone"
  /\ UNCHANGED <<driver, at, held, dev, todo, ending, wrong>>

Next ==
  \/ Succeed \/ Fail \/ GoOnWithout \/ Bind
  \/ Unbind \/ Release \/ Return \/ Devres \/ Gone

Spec == Init /\ [][Next]_vars

-----------------------------------------------------------------------------
(* Properties                                                              *)

\* The type invariant: only what the driver takes is held, managed or released.
TypeOK ==
  /\ driver \in DOMAIN Table
  /\ phase \in Phases
  /\ at \in 1..(Len(Steps(driver)) + 1)
  /\ held \subseteq Resources(driver)
  /\ dev \in Seq(Resources(driver))
  /\ todo \in Seq(Resources(driver))
  /\ ending \in {"bound", "devres"}
  /\ wrong \subseteq Resources(driver)

\* When the device is gone, whichever step of probe failed or after remove, the
\* driver has given back all it took itself: the goto ladders and remove are complete.
NothingLeaks ==
  phase = "gone" =>
    \A r \in held \cap Owned(driver) : <<driver, r>> \in KnownLeaks

\* Nothing is given back that is not held: no ladder, remove or devres releases
\* what another has released before, or what was never taken.
NothingReleasedTwice == \A r \in wrong : <<driver, r>> \in KnownDoubles

\* When probe has returned 0, the driver has all it needs: no failure is lost.
BoundIsComplete ==
  phase = "bound" =>
    \A r \in Required(driver) \ held : <<driver, r>> \in KnownMissing

\* While an interface of the driver can be called (a device node, an interrupt, a
\* registration with a subsystem), what its callbacks use is there: interfaces are
\* made last and given back first, in probe, in every ladder, in remove and in devres.
ServedWhileReachable ==
  \A i \in Interfaces(driver) \cap held :
    \A r \in Table[driver].needs[i] \ held : <<driver, i, r>> \in KnownBare

-----------------------------------------------------------------------------
(* What a reviewer can check in the table, driver by driver                *)

\* Some step before step i takes r, and none in between is sure to drop it.
TakenBefore(d, r, i) ==
  \E j \in 1..i - 1 :
    /\ Steps(d)[j].what = r /\ Steps(d)[j].kind \notin {"try", "drop"}
    /\ \A k \in j + 1..i - 1 :
         ~(/\ Steps(d)[k].what = r /\ Steps(d)[k].kind = "drop"
           /\ Steps(d)[k].err \notin {"ignored", "optional"})

\* The release of the managed g, which devres is never told of, gives r back as well.
Guards(d, g, r) == r \in AlsoOf(d, g) /\ g \notin Table[d].aware
SurelyManaged(s) == s.kind = "devm" /\ s.err \notin {"ignored", "optional"}
GuardedBefore(d, r, i) ==
  \E j \in 1..i - 1 : SurelyManaged(Steps(d)[j]) /\ Guards(d, Steps(d)[j].what, r)

\* What an error path or a remove function gives back.
GivenBackBy(d, s) == ToSet(s) \cup UNION {AlsoOf(d, r) : r \in ToSet(s)}

\* Every ladder of a step after r is taken, and remove, give r back, or devres does.
EveryPathReturns(d, r) ==
  /\ \A i \in 1..Len(Steps(d)) :
       TakenBefore(d, r, i) /\ ~GuardedBefore(d, r, i) =>
         /\ Steps(d)[i].err = "fails" => r \in GivenBackBy(d, Steps(d)[i].undo)
         /\ Steps(d)[i].err = "binds" =>
              r \in GivenBackBy(d, Steps(d)[i].undo) \cup GivenBackBy(d, Table[d].remove)
  /\ TakenBefore(d, r, Len(Steps(d)) + 1) /\ ~GuardedBefore(d, r, Len(Steps(d)) + 1)
       => r \in GivenBackBy(d, Table[d].remove)

Needs(s, r) == s.what = r /\ s.kind \in {"own", "devm"} /\ s.err # "optional"

\* Taking r cannot fail unnoticed, nothing drops it, and a step that fails and yet
\* binds comes after all that take r and does not give it back.
EveryPathKeeps(d, r) ==
  \A i \in 1..Len(Steps(d)) :
    /\ Needs(Steps(d)[i], r) => Steps(d)[i].err # "ignored"
    /\ Steps(d)[i].kind = "drop" => r \notin AlsoOf(d, Steps(d)[i].what)
    /\ Steps(d)[i].err = "binds" =>
         /\ r \notin GivenBackBy(d, Steps(d)[i].undo)
         /\ \A k \in i..Len(Steps(d)) : ~Needs(Steps(d)[k], r)

\* What is given back with r.
Frees(d, r) == {r} \cup AlsoOf(d, r)

\* Some step before step i takes r and cannot be done without, and none in between may drop it.
SurelyTakes(s, r) ==
  s.what = r /\ s.kind \notin {"try", "drop"} /\ s.err \notin {"ignored", "optional"}
SurelyHeld(d, r, i) ==
  \E j \in 1..i - 1 :
    /\ SurelyTakes(Steps(d)[j], r)
    /\ \A k \in j + 1..i - 1 : Steps(d)[k].kind = "drop" => r \notin Frees(d, Steps(d)[k].what)

\* Before s comes to r, it gives back nothing that r goes with.
OnceIn(d, s, r) ==
  \A p \in DOMAIN s : s[p] = r => \A q \in 1..p - 1 : r \notin Frees(d, s[q])

Managed(s, r) == s.kind = "devm" /\ s.what = r
ErrorPath(s) == s.err \in {"fails", "binds"}

\* Where r is given back by a drop, a ladder or remove, it is surely held; and what devres
\* gives back is given back by nothing else, unless devres is told.
EveryReleaseHolds(d, r) ==
  LET remove == Table[d].remove  end == Len(Steps(d)) IN
  /\ \A i \in 1..end : LET s == Steps(d)[i] IN
       /\ s.kind = "drop" /\ s.what = r => SurelyHeld(d, r, i)
       /\ ErrorPath(s) /\ r \in ToSet(s.undo) => SurelyHeld(d, r, i) /\ OnceIn(d, s.undo, r)
       /\ s.err = "binds" /\ r \in ToSet(remove) =>
            SurelyHeld(d, r, i) /\ r \notin GivenBackBy(d, s.undo)
  /\ r \in ToSet(remove) => SurelyHeld(d, r, end + 1) /\ OnceIn(d, remove, r)
  /\ r \notin Table[d].aware =>
       \A j \in 1..end : Managed(Steps(d)[j], r) =>
         /\ r \notin GivenBackBy(d, remove)
         /\ \A k \in j + 1..end : LET s == Steps(d)[k] IN
              /\ ErrorPath(s) => r \notin GivenBackBy(d, s.undo)
              /\ s.kind \in {"drop", "devm"} => r \notin Frees(d, s.what)

\* g is given back by devres unless it is no longer held, and takes the interface i along.
Shuts(d, g, i) == i \in Frees(d, g) /\ (g \in Table[d].aware => g = i)

\* s gives the interface i back before r, or with it.
ShutsFirst(d, s, i, r) ==
  \A p \in DOMAIN s : r \in Frees(d, s[p]) => \E q \in 1..p : i \in Frees(d, s[q])

\* So does devres, after the first n - 1 steps of probe.
DevresShutsFirst(d, n, i, r) ==
  \A h \in 1..n - 1 : Steps(d)[h].kind = "devm" /\ r \in Frees(d, Steps(d)[h].what) =>
    \/ i \in Frees(d, Steps(d)[h].what)
    \/ \E g \in h + 1..n - 1 : SurelyManaged(Steps(d)[g]) /\ Shuts(d, Steps(d)[g].what, i)

\* After n - 1 steps remove gives i back before r, or devres does.
RemoveShutsFirst(d, n, i, r) ==
  /\ ShutsFirst(d, Table[d].remove, i, r)
  /\ i \notin GivenBackBy(d, Table[d].remove) => DevresShutsFirst(d, n, i, r)

\* The interface i is made when r is surely held, and is gone before r is, on every path.
EveryPathServes(d, i, r) ==
  /\ \A k \in 1..Len(Steps(d)) : LET s == Steps(d)[k] IN
       /\ s.what = i /\ s.kind \notin {"try", "drop"} => SurelyHeld(d, r, k)
       /\ TakenBefore(d, i, k) =>
            /\ s.kind = "drop" /\ r \in Frees(d, s.what) => i \in Frees(d, s.what)
            /\ ErrorPath(s) =>
                 /\ ShutsFirst(d, s.undo, i, r)
                 /\ i \notin GivenBackBy(d, s.undo) =>
                      IF s.err = "fails" THEN DevresShutsFirst(d, k, i, r)
                      ELSE RemoveShutsFirst(d, k, i, r)
  /\ TakenBefore(d, i, Len(Steps(d)) + 1) => RemoveShutsFirst(d, Len(Steps(d)) + 1, i, r)

LaddersReturn ==
  \A d \in DOMAIN Table : \A r \in Owned(d) :
    EveryPathReturns(d, r) \/ <<d, r>> \in KnownLeaks
ProbesKeep ==
  \A d \in DOMAIN Table : \A r \in Required(d) :
    EveryPathKeeps(d, r) \/ <<d, r>> \in KnownMissing
ReleasesHold ==
  \A d \in DOMAIN Table : \A r \in Resources(d) :
    EveryReleaseHolds(d, r) \/ <<d, r>> \in KnownDoubles
PathsServe ==
  \A d \in DOMAIN Table : \A i \in Interfaces(d) : \A r \in Table[d].needs[i] :
    EveryPathServes(d, i, r) \/ <<d, i, r>> \in KnownBare
==================================================================================
