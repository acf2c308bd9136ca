---------------------------------- MODULE PwmFan -----------------------------------
(***************************************************************************)
(* The pwm fan driver (17.pwm/kernel/pwm-fan.c) once it is bound: hwmon    *)
(* writes the speed and the mode, the thermal core the cooling state, the  *)
(* system is suspended and resumed, the driver unbound or shut down.  What *)
(* the fan does is up to three places that must agree: the pwm device, the *)
(* regulator, and what the driver remembers of both.  ctx->lock covers the *)
(* speed and the mode; the cooling state is read before it is taken and    *)
(* written after it is released.                                           *)
(*                                                                         *)
(* A duty cycle is named by the pwm value it is computed from.             *)
(***************************************************************************)
EXTENDS Integers, Sequences

CONSTANTS
  Users,      \* processes that write to hwmon
  Thermal,    \* the thermal core: one caller at a time
  Speeds,     \* the values written to pwm1, 0..255
  Levels,     \* cooling-levels of the device tree: state s has Levels[s + 1]
  MaxWrites,  \* bound: calls of hwmon, of the thermal core, and suspends
  MaxFails    \* bound: failures of the pwm or of the regulator

MAX_PWM == 255

ASSUME PwmFanAssumption ==
  /\ Thermal \notin Users
  /\ Speeds \subseteq 0..MAX_PWM
  /\ Levels \in Seq(0..MAX_PWM) /\ Levels # <<>>
  /\ \A i, j \in 1..Len(Levels) : i < j => Levels[i] < Levels[j]
  /\ MaxWrites \in Nat /\ MaxFails \in Nat

VARIABLES
  fan,     \* the driver's data under ctx->lock, and the pwm device
  level,   \* ctx->pwm_fan_state
  calling, \* what each caller has still to do
  power,   \* of the device: "bound", "suspended" or "gone"
  writes, fails,  \* calls and failures so far
  \* What an observer has seen go wrong:
  mishaps  \* "off", "on": pwm_apply_state failed in power_off, in power_on
           \* "hard": a speed was set while the fan is hard disabled
           \* "kept": the fan could not be hard disabled
           \* "resume": the speed could not be set again
           \* "race": the cooling state is written out of the order of the speeds

fanVars == <<fan, level, calling, power, writes, fails, mishaps>>

Callers == Users \cup {Thermal}
MaxState == Len(Levels) - 1

Modes == {"off", "disable", "enable", "disableBoth"}  \* 0, 1, 2, 3 of pwm1_enable
\* pwm_fan_enable_mode_2_state: what a stopped fan keeps on.
KeepsPwm(mode) == mode = "enable"
KeepsRegulator(mode) == mode \in {"disable", "enable"}

\* struct pwm_fan_ctx, with what it has done to the pwm device and the regulator.
Fans ==
  [supply : BOOLEAN, mode : Modes, enabled : BOOLEAN, regOn : BOOLEAN,
   state : [enabled : BOOLEAN, duty : 0..MAX_PWM],
   pwm : [enabled : BOOLEAN, duty : 0..MAX_PWM], value : 0..MAX_PWM]

NoCall == [at |-> "idle", to |-> 0]

Max255(supply) ==
  [supply |-> supply, mode |-> "disable", enabled |-> TRUE, regOn |-> supply,
   state |-> [enabled |-> TRUE, duty |-> MAX_PWM],
   pwm |-> [enabled |-> TRUE, duty |-> MAX_PWM], value |-> MAX_PWM]

\* After probe: the fan runs at full speed.
FanInit ==
  /\ fan \in {Max255(supply) : supply \in BOOLEAN}  \* with and without a regulator
  /\ level = MaxState
  /\ calling = [c \in Callers |-> NoCall]
  /\ power = "bound"
  /\ writes = 0 /\ fails = 0
  /\ mishaps = {}

-----------------------------------------------------------------------------
(* What the functions under the lock do to the data f.  bad is the call of *)
(* theirs that fails, if any: "regulator" (switched on or off), "duty"     *)
(* (pwm_apply_state in __set_pwm) or "apply" (in power_on and power_off).  *)

Bad == {"none", "regulator", "duty", "apply"}
Ok(f) == [ok |-> TRUE, f |-> f]
Err(f) == [ok |-> FALSE, f |-> f]

pwm_fan_switch_power(f, on, bad) ==
  IF ~f.supply \/ f.regOn = on THEN Ok(f)
  ELSE IF bad = "regulator" THEN Err(f) ELSE Ok([f EXCEPT !.regOn = on])

pwm_fan_power_on(f, bad) ==
  LET powered == pwm_fan_switch_power(f, TRUE, bad)
      g == [powered.f EXCEPT !.state.enabled = TRUE]
  IN CASE f.enabled -> Ok(f)
       [] ~f.enabled /\ ~powered.ok -> powered
       [] ~f.enabled /\ powered.ok ->
            IF bad = "apply" THEN Err(pwm_fan_switch_power(g, FALSE, bad).f)
            ELSE Ok([g EXCEPT !.pwm = g.state, !.enabled = TRUE])

pwm_fan_power_off(f, bad) ==
  LET g == [f EXCEPT !.state = [enabled |-> FALSE, duty |-> 0]]
      applied == [g EXCEPT !.pwm = g.state]
      cut == pwm_fan_switch_power(applied, KeepsRegulator(f.mode), bad).f
  IN IF ~f.enabled THEN Ok(f)
     ELSE IF bad = "apply" THEN Err(g) ELSE Ok([cut EXCEPT !.enabled = FALSE])

\* What __set_pwm calls for a speed that is not refused.
Switched(f, speed, bad) ==
  LET g == [f EXCEPT !.state.duty = speed]
  IN IF speed = 0 THEN pwm_fan_power_off(f, bad)
     ELSE IF bad = "duty" THEN Err(g)
     ELSE pwm_fan_power_on([g EXCEPT !.pwm = g.state], bad)

\* Mutant: the speed is remembered although setting it has failed.
SetPwmAnyway(f, speed, bad) ==
  LET ret == Switched(f, speed, bad)
  IN IF speed > 0 /\ f.mode = "off" THEN Ok(f)
     ELSE [ret EXCEPT !.f.value = speed]

\* A fan that is hard disabled takes every speed but 0 without a change, or an error.
set_pwm(f, speed, bad) ==
  LET ret == Switched(f, speed, bad)
  IN IF speed > 0 /\ f.mode = "off" THEN Ok(f)
     ELSE IF ret.ok THEN Ok([ret.f EXCEPT !.value = speed]) ELSE ret

\* The mode is changed to m: what happens when it is off, and when it is not.
HardDisable(f, bad) ==
  LET g == [f EXCEPT !.mode = "off"]
      ret == IF f.enabled THEN set_pwm(g, 0, bad)
             ELSE pwm_fan_switch_power(g, FALSE, bad)
  IN IF ret.ok THEN ret ELSE Err([ret.f EXCEPT !.mode = f.mode])

\* No result is looked at; a fan that runs is left as it is.
ChangeMode(f, m, bad) ==
  LET g == [f EXCEPT !.mode = m, !.state = [enabled |-> KeepsPwm(m), duty |-> 0]]
      applied == IF bad = "apply" THEN g ELSE [g EXCEPT !.pwm = g.state]
  IN IF f.enabled THEN Ok([f EXCEPT !.mode = m])
     ELSE Ok(pwm_fan_switch_power(applied, KeepsRegulator(m), bad).f)

-----------------------------------------------------------------------------
(* The callers                                                             *)

\* pwm_fan_update_state: the first state whose next level is above the speed.
LevelOf(speed) ==
  CHOOSE s \in 0..MaxState :
    /\ s = MaxState \/ speed < Levels[s + 2]
    /\ \A t \in 0..s - 1 : speed >= Levels[t + 2]

\* A call begins, in which bad may fail.
Begins(bad) ==
  /\ power = "bound" /\ writes < MaxWrites
  /\ writes' = writes + 1
  /\ fails + (IF bad = "none" THEN 0 ELSE 1) <= MaxFails
  /\ fails' = fails + (IF bad = "none" THEN 0 ELSE 1)

\* The mishaps of setting the speed, and of switching the fan off in another way.
SpeedMishaps(speed, bad) ==
  (IF bad = "apply" THEN {IF speed = 0 THEN "off" ELSE "on"} ELSE {})
  \cup (IF speed > 0 /\ fan.mode = "off" THEN {"hard"} ELSE {})
OffMishaps(bad) == IF bad = "apply" THEN {"off"} ELSE {}
ModeMishaps(m, ret) == IF m = "off" /\ ~ret.ok THEN {"kept"} ELSE {}
Others(c) == {d \in Callers \ {c} : calling[d].at # "idle"}
Races(c) == IF Others(c) = {} THEN {} ELSE {"race"}

\* pwm_fan_write of pwm1: the speed under the lock, the cooling state after it.
WritePwm(u, speed, bad) ==
  LET ret == set_pwm(fan, speed, bad) IN
  /\ calling[u].at = "idle" /\ Begins(bad)
  /\ fan' = ret.f
  /\ calling' = IF ret.ok
                THEN [calling EXCEPT ![u] = [at |-> "level", to |-> LevelOf(speed)]]
                ELSE calling
  /\ mishaps' = mishaps \cup SpeedMishaps(speed, bad) \cup Races(u)
  /\ UNCHANGED <<level, power>>

\* Mutant: the cooling state is left as it was.
WriteEnableOnly(u, m, bad) ==
  LET ret == IF m = "off" THEN HardDisable(fan, bad) ELSE ChangeMode(fan, m, bad) IN
  /\ calling[u].at = "idle" /\ Begins(bad)
  /\ m # fan.mode
  /\ fan' = ret.f
  /\ mishaps' = mishaps \cup OffMishaps(bad) \cup ModeMishaps(m, ret) \cup Races(u)
  /\ UNCHANGED <<level, calling, power>>

\* pwm_fan_write of pwm1_enable, all of it under the lock.
WriteEnable(u, m, bad) ==
  LET ret == IF m = "off" THEN HardDisable(fan, bad) ELSE ChangeMode(fan, m, bad) IN
  /\ calling[u].at = "idle" /\ Begins(bad)
  /\ m # fan.mode
  /\ fan' = ret.f
  /\ level' = IF m = "off" \/ ~fan.enabled THEN LevelOf(0) ELSE level
  /\ mishaps' = mishaps \cup OffMishaps(bad) \cup ModeMishaps(m, ret) \cup Races(u)
  /\ UNCHANGED <<calling, power>>

\* pwm_fan_set_cur_state looks at the state without the lock.
SetCurState(state) ==
  /\ calling[Thermal].at = "idle" /\ Begins("none")
  /\ state # level
  /\ calling' = [calling EXCEPT ![Thermal] = [at |-> "speed", to |-> state]]
  /\ mishaps' = mishaps \cup Races(Thermal)
  /\ UNCHANGED <<fan, level, power>>

SetCurSpeed(bad) ==
  LET speed == Levels[calling[Thermal].to + 1]
      ret == set_pwm(fan, speed, bad)
  IN
  /\ calling[Thermal].at = "speed"
  /\ fails + (IF bad = "none" THEN 0 ELSE 1) <= MaxFails
  /\ fails' = fails + (IF bad = "none" THEN 0 ELSE 1)
  /\ fan' = ret.f
  /\ calling' = [calling EXCEPT ![Thermal] = IF ret.ok THEN [at |-> "level", to |-> @.to]
                                             ELSE NoCall]
  /\ mishaps' = mishaps \cup SpeedMishaps(speed, bad) \cup Races(Thermal)
  /\ UNCHANGED <<level, power, writes>>

\* The state is stored after the lock is released.
StoreState(c) ==
  /\ calling[c].at = "level"
  /\ level' = calling[c].to
  /\ calling' = [calling EXCEPT ![c] = NoCall]
  /\ UNCHANGED <<fan, power, writes, fails, mishaps>>

-----------------------------------------------------------------------------
(* Suspend, resume, unbinding and shutdown                                 *)

Quiet == \A c \in Callers : calling[c].at = "idle"

\* Processes and the thermal core are frozen before; an error ends the suspend.
Suspend(bad) ==
  LET ret == pwm_fan_power_off(fan, bad) IN
  /\ Quiet /\ Begins(bad)
  /\ fan' = ret.f
  /\ power' = IF ret.ok THEN "suspended" ELSE "bound"
  /\ mishaps' = mishaps \cup OffMishaps(bad)
  /\ UNCHANGED <<level, calling>>

Resume(bad) ==
  LET ret == set_pwm(fan, fan.value, bad) IN
  /\ power = "suspended"
  /\ fails + (IF bad = "none" THEN 0 ELSE 1) <= MaxFails
  /\ fails' = fails + (IF bad = "none" THEN 0 ELSE 1)
  /\ fan' = ret.f
  /\ power' = "bound"
  /\ mishaps' = mishaps \cup SpeedMishaps(fan.value, bad)
                        \cup (IF ret.ok THEN {} ELSE {"resume"})
  /\ UNCHANGED <<level, calling, writes>>

\* pwm_fan_cleanup: by devres, when hwmon and cooling device are gone, or by shutdown,
\* beside any call that is under way, which goes on.  (It does not take ctx->lock: what
\* it does inside set_pwm is not followed, nor what is written after a shutdown.)
Cleanup(bad) ==
  LET f == [fan EXCEPT !.mode = "disableBoth"] IN
  /\ Begins(bad)
  /\ fan' = pwm_fan_power_off(f, bad).f
  /\ power' = "gone"
  /\ mishaps' = mishaps \cup OffMishaps(bad)
  /\ UNCHANGED <<level, calling>>

Write(bad) ==
  \E u \in Users : \/ \E speed \in Speeds : WritePwm(u, speed, bad)
                   \/ \E m \in Modes : WriteEnable(u, m, bad)
Cool(bad) == SetCurSpeed(bad) \/ \E state \in 0..MaxState : SetCurState(state)

FanNext ==
  \/ \E bad \in Bad : Write(bad) \/ Cool(bad) \/ Suspend(bad) \/ Resume(bad) \/ Cleanup(bad)
  \/ \E c \in Callers : StoreState(c)

FanSpec == FanInit /\ [][FanNext]_fanVars

-----------------------------------------------------------------------------
(* Properties                                                              *)

\* The type invariant of the driver's data; level is a cooling state by the definition
\* of LevelOf.
FanTypeOK ==
  /\ fan \in Fans
  /\ DOMAIN calling = Callers
  /\ \A c \in Callers : calling[c].at = "speed" => calling[c].to \in 0..MaxState
  /\ power \in {"bound", "suspended", "gone"}
  /\ mishaps \subseteq {"off", "on", "hard", "kept", "resume", "race"}

Turning == fan.pwm.enabled /\ fan.pwm.duty > 0 /\ (fan.supply => fan.regOn)

\* The fan turns at the speed the driver remembers, and only then, whatever mode it has
\* been through, over suspends, and after a regulator or a duty cycle that could not be
\* set.  Not when the pwm failed in power_off or power_on: the cached state is then that
\* of a stopped fan, or of one that runs, and the next speed that is set applies it; nor
\* when the speed could not be set again by resume.  A speed that is taken while the
\* fan is hard disabled is not remembered, and so is not seen here.
RunsAsTold ==
  power = "bound" /\ mishaps \cap {"on", "off", "resume"} = {} =>
    IF fan.value = 0 THEN ~Turning ELSE Turning /\ fan.pwm.duty = fan.value

\* What the thermal core believes is the state of the speed the driver remembers, so
\* that it acts upon the next change of temperature: set_cur_state does nothing when it
\* is asked for the state it believes in.  It is so after every failure of the pwm or of
\* the regulator to set a speed.  Not after two callers raced, after a speed was set
\* while the fan was hard disabled, and after a hard disabling or a resume that failed:
\* each stores the state of a speed that the fan was not given.
StateIsOfSpeed ==
  power = "bound" /\ Quiet /\ mishaps \cap {"race", "hard", "kept", "resume"} = {} =>
    level = LevelOf(fan.value)
====================================================================================
