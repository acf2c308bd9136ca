------------------------------ MODULE PwmFan_proofs ------------------------------
(***************************************************************************)
(* Proofs about PwmFan, for any number of writers, any speeds and cooling  *)
(* levels, and any number of calls and failures: the fan turns as the last *)
(* successful speed says, and the cooling state is the level of that       *)
(* speed.  Each function under ctx->lock has a lemma of its own.           *)
(***************************************************************************)
EXTENDS PwmFan, SequenceTheorems, TLAPS

Speed == 0..MAX_PWM

\* What ctx->enabled says: a fan that runs does so at its speed, one that is stopped
\* does not turn, and a hard disabled fan is stopped.
FanOK(f) ==
  /\ f.enabled => /\ f.state.enabled /\ f.pwm.enabled /\ f.pwm.duty = f.value
                  /\ f.value > 0 /\ (f.supply => f.regOn)
  /\ ~f.enabled /\ f.pwm.enabled /\ f.pwm.duty > 0 => f.supply /\ ~f.regOn
  /\ f.mode = "off" => ~f.enabled /\ f.value = 0

\* A fan that was not stopped for a suspend is stopped because its speed is 0.
Agrees(f) == ~f.enabled => f.value = 0

Sound ==
  mishaps \cap {"on", "off", "resume"} = {} =>
    /\ power = "bound" => FanOK(fan) /\ Agrees(fan)
    /\ power = "suspended" => FanOK(fan) /\ ~fan.enabled

\* As much holds after any failure but that of a resume.
Stops(f) == f.mode = "off" => ~f.enabled /\ f.value = 0
Stopped ==
  "resume" \notin mishaps =>
    /\ power = "bound" => Stops(fan) /\ Agrees(fan)
    /\ power = "suspended" => Stops(fan) /\ ~fan.enabled

\* Nobody is in the middle of a call when the system sleeps.
Frozen == power = "suspended" => Quiet

IInv == FanTypeOK /\ Sound /\ Stopped /\ Frozen

-----------------------------------------------------------------------------
\* A pwm state is a record of its own.
LEMMA StoppedState ==
  ASSUME NEW f \in Fans, NEW on \in BOOLEAN
  PROVE  LET g == [f EXCEPT !.state = [enabled |-> on, duty |-> 0]]
         IN  /\ g \in Fans /\ g.state.duty = 0 /\ (g.state.enabled <=> on)
             /\ g.supply = f.supply /\ g.mode = f.mode /\ (g.enabled <=> f.enabled)
             /\ (g.regOn <=> f.regOn) /\ g.pwm = f.pwm /\ g.value = f.value
<1> DEFINE st == [enabled |-> on, duty |-> 0]
<1>1. st \in [enabled : BOOLEAN, duty : 0..MAX_PWM] /\ st.duty = 0
  BY DEF MAX_PWM
<1>2. st.enabled <=> on
  BY Zenon
<1> HIDE DEF st
<1> QED
  BY <1>1, <1>2 DEF Fans

\* pwm_fan_switch_power changes nothing but the regulator.
LEMMA SwitchPower ==
  ASSUME NEW f \in Fans, NEW on \in BOOLEAN, NEW bad \in Bad
  PROVE  LET r == pwm_fan_switch_power(f, on, bad)
         IN  /\ r.ok \in BOOLEAN /\ r.f \in Fans
             /\ (r.f.supply <=> f.supply) /\ r.f.mode = f.mode
             /\ (r.f.enabled <=> f.enabled) /\ r.f.state = f.state
             /\ r.f.pwm = f.pwm /\ r.f.value = f.value
             /\ r.ok => (f.supply => (r.f.regOn <=> on))
             /\ ~r.ok => r.f = f
             /\ (f.regOn <=> on) => r.f = f
  BY DEF pwm_fan_switch_power, Fans, Ok, Err

\* pwm_fan_power_off of a fan that runs stops it, unless the pwm fails.
LEMMA PowerOff ==
  ASSUME NEW f \in Fans, NEW bad \in Bad
  PROVE  LET r == pwm_fan_power_off(f, bad)
         IN  /\ r.ok \in BOOLEAN /\ r.f \in Fans
             /\ r.f.value = f.value /\ r.f.mode = f.mode
             /\ ~f.enabled => r.ok /\ r.f = f
             /\ (r.ok <=> ~r.f.enabled)
             /\ f.enabled /\ bad # "apply" =>
                  r.ok /\ ~r.f.enabled /\ r.f.pwm.duty = 0
<1> DEFINE g == [f EXCEPT !.state = [enabled |-> FALSE, duty |-> 0]]
           applied == [g EXCEPT !.pwm = g.state]
           keep == KeepsRegulator(f.mode)
           cut == pwm_fan_switch_power(applied, keep, bad).f
<1>1. /\ g \in Fans /\ g.state.duty = 0 /\ g.mode = f.mode /\ g.value = f.value
      /\ (g.enabled <=> f.enabled)
  BY StoppedState
<1>2. /\ applied \in Fans /\ applied.pwm.duty = 0 /\ applied.mode = f.mode
      /\ applied.value = f.value
  <2> HIDE DEF g
  <2> QED
    BY <1>1 DEF Fans
<1>3. keep \in BOOLEAN
  BY DEF KeepsRegulator
<1>4. cut \in Fans /\ cut.pwm.duty = 0 /\ cut.mode = f.mode /\ cut.value = f.value
  <2> HIDE DEF applied, keep
  <2> QED
    BY <1>2, <1>3, SwitchPower
<1>5. pwm_fan_power_off(f, bad) =
        IF ~f.enabled THEN Ok(f)
        ELSE IF bad = "apply" THEN Err(g) ELSE Ok([cut EXCEPT !.enabled = FALSE])
  BY DEF pwm_fan_power_off
<1> HIDE DEF g, cut
<1>6. LET h == [cut EXCEPT !.enabled = FALSE]
      IN  h \in Fans /\ ~h.enabled /\ h.pwm.duty = 0 /\ h.mode = f.mode /\ h.value = f.value
  BY <1>4 DEF Fans
<1> QED
  BY <1>1, <1>5, <1>6 DEF Ok, Err

\* pwm_fan_power_on of a fan that is stopped applies its state and starts it, or
\* leaves it stopped.
LEMMA PowerOn ==
  ASSUME NEW f \in Fans, NEW bad \in Bad
  PROVE  LET r == pwm_fan_power_on(f, bad)
         IN  /\ r.ok \in BOOLEAN /\ r.f \in Fans
             /\ r.f.value = f.value /\ r.f.mode = f.mode
             /\ f.enabled => r.ok /\ r.f = f
             /\ ~f.enabled /\ r.ok =>
                  /\ r.f.enabled /\ r.f.state.enabled /\ r.f.pwm.enabled
                  /\ r.f.pwm.duty = f.state.duty
                  /\ r.f.supply => r.f.regOn
             /\ ~f.enabled /\ ~r.ok => ~r.f.enabled
             /\ ~r.ok /\ bad # "apply" => r.f = f /\ f.supply /\ ~f.regOn
<1> DEFINE powered == pwm_fan_switch_power(f, TRUE, bad)
           g == [powered.f EXCEPT !.state.enabled = TRUE]
           cut == pwm_fan_switch_power(g, FALSE, bad).f
           h == [g EXCEPT !.pwm = g.state, !.enabled = TRUE]
<1>1. /\ powered.ok \in BOOLEAN /\ powered.f \in Fans /\ powered.f.mode = f.mode
      /\ powered.f.value = f.value /\ powered.f.state = f.state
      /\ (powered.f.enabled <=> f.enabled)
      /\ powered.ok => (powered.f.supply => powered.f.regOn)
      /\ ~powered.ok => powered.f = f
  BY DEF pwm_fan_switch_power, Ok, Err, Fans
<1>2. ~powered.ok => f.supply /\ ~f.regOn
  BY DEF pwm_fan_switch_power, Ok, Err, Fans
<1> HIDE DEF powered
<1>3. /\ g \in Fans /\ g.mode = f.mode /\ g.value = f.value /\ g.state.duty = f.state.duty
      /\ g.state.enabled /\ (g.enabled <=> f.enabled)
      /\ powered.ok => (g.supply => g.regOn)
  BY <1>1 DEF Fans
<1> HIDE DEF g
<1>4. cut \in Fans /\ cut.mode = f.mode /\ cut.value = f.value /\ (cut.enabled <=> f.enabled)
  BY <1>3, SwitchPower
<1>5. /\ h \in Fans /\ h.mode = f.mode /\ h.value = f.value /\ h.enabled
      /\ h.state.enabled /\ h.pwm.enabled /\ h.pwm.duty = f.state.duty
      /\ powered.ok => (h.supply => h.regOn)
  BY <1>3 DEF Fans
<1>6. pwm_fan_power_on(f, bad) =
        CASE f.enabled -> Ok(f)
          [] ~f.enabled /\ ~powered.ok -> powered
          [] ~f.enabled /\ powered.ok -> IF bad = "apply" THEN Err(cut) ELSE Ok(h)
  BY DEF pwm_fan_power_on, powered, g
<1> HIDE DEF cut, h
<1>7. CASE f.enabled
  <2>1. pwm_fan_power_on(f, bad) = Ok(f)
    BY <1>6, <1>7
  <2> QED
    BY <2>1, <1>7 DEF Ok
<1>8. CASE ~f.enabled /\ ~powered.ok
  <2>1. pwm_fan_power_on(f, bad) = powered
    BY <1>6, <1>8
  <2> QED
    BY <2>1, <1>1, <1>2, <1>8
<1>9. CASE ~f.enabled /\ powered.ok
  <2>1. pwm_fan_power_on(f, bad) = IF bad = "apply" THEN Err(cut) ELSE Ok(h)
    BY <1>6, <1>9
  <2> QED
    BY <2>1, <1>4, <1>5, <1>9 DEF Ok, Err
<1> QED
  BY <1>1, <1>7, <1>8, <1>9

\* set_pwm keeps FanOK unless the pwm fails; a speed that is taken is the speed the fan
\* has, and one that is not leaves speed and running as they were.
LEMMA SetPwm ==
  ASSUME NEW f \in Fans, NEW speed \in Speed, NEW bad \in Bad
  PROVE  LET r == set_pwm(f, speed, bad)
         IN  /\ r.ok \in BOOLEAN /\ r.f \in Fans /\ r.f.mode = f.mode
             /\ FanOK(f) /\ bad # "apply" =>
                  /\ FanOK(r.f)
                  /\ speed = 0 => r.ok /\ ~r.f.enabled /\ r.f.value = 0
                  /\ Agrees(f) => Agrees(r.f)
                  /\ r.ok /\ (f.mode = "off" => speed = 0 \/ Agrees(f)) => Agrees(r.f)
<1> DEFINE g == [f EXCEPT !.state.duty = speed]
           applied == [g EXCEPT !.pwm = g.state]
           ret == Switched(f, speed, bad)
           taken == [ret.f EXCEPT !.value = speed]
<1> USE DEF Speed
<1>1. CASE speed > 0 /\ f.mode = "off"
  BY <1>1 DEF set_pwm, Ok, FanOK, Agrees
<1>2. CASE speed = 0
  <2>1. ret = pwm_fan_power_off(f, bad)
    BY <1>2 DEF Switched
  <2>2. /\ ret.ok \in BOOLEAN /\ ret.f \in Fans /\ ret.f.mode = f.mode
        /\ ret.f.value = f.value
        /\ ~f.enabled => ret.ok /\ ret.f = f
        /\ f.enabled /\ bad # "apply" => ret.ok /\ ~ret.f.enabled /\ ret.f.pwm.duty = 0
    BY <2>1, PowerOff
  <2>3. set_pwm(f, speed, bad) = IF ret.ok THEN Ok(taken) ELSE ret
    BY <1>2 DEF set_pwm
  <2> HIDE DEF ret
  <2>4. /\ taken \in Fans /\ taken.mode = f.mode /\ taken.value = 0
        /\ taken.pwm = ret.f.pwm /\ taken.state = ret.f.state
        /\ (taken.enabled <=> ret.f.enabled) /\ (taken.supply <=> ret.f.supply)
        /\ (taken.regOn <=> ret.f.regOn)
    BY <1>2, <2>2 DEF Fans, MAX_PWM
  <2> HIDE DEF taken
  <2>5. FanOK(f) /\ bad # "apply" => ret.ok /\ FanOK(taken) /\ ~taken.enabled
    BY <2>2, <2>4 DEF FanOK
  <2>6. CASE ret.ok
    <3>1. set_pwm(f, speed, bad).f = taken /\ set_pwm(f, speed, bad).ok
      BY <2>3, <2>6 DEF Ok
    <3> QED
      BY <1>2, <2>4, <2>5, <2>6, <3>1 DEF Agrees
  <2>7. CASE ~ret.ok
    <3>1. set_pwm(f, speed, bad) = ret
      BY <2>3, <2>7
    <3> QED
      BY <1>2, <2>2, <2>5, <2>7, <3>1
  <2> QED
    BY <2>6, <2>7
<1>3. CASE speed > 0 /\ f.mode # "off"
  <2>1. /\ g \in Fans /\ g.state.duty = speed /\ g.mode = f.mode /\ g.value = f.value
        /\ (g.enabled <=> f.enabled) /\ (g.state.enabled <=> f.state.enabled)
        /\ g.pwm = f.pwm /\ (g.supply <=> f.supply) /\ (g.regOn <=> f.regOn)
    BY DEF Fans
  <2>2. ret = IF bad = "duty" THEN Err(g) ELSE pwm_fan_power_on(applied, bad)
    BY <1>3 DEF Switched
  <2>3. set_pwm(f, speed, bad) = IF ret.ok THEN Ok(taken) ELSE ret
    BY <1>3 DEF set_pwm
  <2> HIDE DEF g
  <2>4. /\ applied \in Fans /\ applied.state.duty = speed /\ applied.mode = f.mode
        /\ applied.value = f.value /\ (applied.enabled <=> f.enabled)
        /\ (applied.pwm.enabled <=> f.state.enabled) /\ applied.pwm.duty = speed
        /\ (applied.state.enabled <=> f.state.enabled)
        /\ (applied.supply <=> f.supply) /\ (applied.regOn <=> f.regOn)
    BY <2>1 DEF Fans
  <2>5. CASE bad = "duty"
    <3>1. set_pwm(f, speed, bad) = Err(g)
      BY <2>2, <2>3, <2>5 DEF Err
    <3>2. FanOK(f) => FanOK(g)
      BY <2>1 DEF FanOK
    <3> QED
      BY <1>3, <2>1, <3>1, <3>2 DEF Err, Agrees
  <2>6. CASE bad # "duty"
    <3>1. ret = pwm_fan_power_on(applied, bad)
      BY <2>2, <2>6
    <3> HIDE DEF applied, ret
    <3>2. /\ ret.ok \in BOOLEAN /\ ret.f \in Fans
          /\ ret.f.value = applied.value /\ ret.f.mode = applied.mode
          /\ applied.enabled => ret.ok /\ ret.f = applied
          /\ ~applied.enabled /\ ret.ok =>
               /\ ret.f.enabled /\ ret.f.state.enabled /\ ret.f.pwm.enabled
               /\ ret.f.pwm.duty = applied.state.duty
               /\ ret.f.supply => ret.f.regOn
          /\ ~applied.enabled /\ ~ret.ok => ~ret.f.enabled
          /\ ~ret.ok /\ bad # "apply" =>
               ret.f = applied /\ applied.supply /\ ~applied.regOn
      BY <2>4, <3>1, PowerOn
    <3>3. /\ taken \in Fans /\ taken.mode = f.mode /\ taken.value = speed
          /\ taken.pwm = ret.f.pwm /\ taken.state = ret.f.state
          /\ (taken.enabled <=> ret.f.enabled) /\ (taken.supply <=> ret.f.supply)
          /\ (taken.regOn <=> ret.f.regOn)
      BY <2>4, <3>2 DEF Fans
    <3> HIDE DEF taken
    <3>4. ret.ok /\ FanOK(f) => FanOK(taken) /\ taken.enabled
      BY <1>3, <2>4, <3>2, <3>3 DEF FanOK
    <3>5. ~ret.ok /\ FanOK(f) /\ bad # "apply" => FanOK(ret.f) /\ ~ret.f.enabled
      BY <1>3, <2>4, <3>2 DEF FanOK
    <3>6. CASE ret.ok
      <4>1. set_pwm(f, speed, bad).f = taken /\ set_pwm(f, speed, bad).ok
        BY <2>3, <3>6 DEF Ok
      <4> QED
        BY <1>3, <3>3, <3>4, <3>6, <4>1 DEF Agrees
    <3>7. CASE ~ret.ok
      <4>1. set_pwm(f, speed, bad) = ret
        BY <2>3, <3>7
      <4>2. bad # "apply" => ret.f = applied
        BY <3>2, <3>7
      <4> QED
        BY <1>3, <2>4, <3>2, <3>5, <3>7, <4>1, <4>2 DEF Agrees
    <3> QED
      BY <3>6, <3>7
  <2> QED
    BY <2>5, <2>6
<1> QED
  BY <1>1, <1>2, <1>3

\* What __set_pwm remembers: the speed and whether the fan runs when it succeeds, what it
\* was when it fails, and nothing new when the fan is hard disabled.
LEMMA SetPwmValue ==
  ASSUME NEW f \in Fans, NEW speed \in Speed, NEW bad \in Bad
  PROVE  LET r == set_pwm(f, speed, bad)
         IN  /\ r.ok \in BOOLEAN
             /\ speed > 0 /\ f.mode = "off" => r.f = f
             /\ ~(speed > 0 /\ f.mode = "off") =>
                  /\ r.f.value = IF r.ok THEN speed ELSE f.value
                  /\ r.ok => (r.f.enabled <=> speed > 0)
                  /\ ~r.ok => (r.f.enabled <=> f.enabled)
<1> DEFINE g == [f EXCEPT !.state.duty = speed]
           applied == [g EXCEPT !.pwm = g.state]
           ret == Switched(f, speed, bad)
           taken == [ret.f EXCEPT !.value = speed]
<1> USE DEF Speed
<1>1. g \in Fans /\ applied \in Fans /\ g.value = f.value /\ applied.value = f.value
      /\ (g.enabled <=> f.enabled) /\ (applied.enabled <=> f.enabled)
  <2>1. g \in Fans /\ g.value = f.value /\ (g.enabled <=> f.enabled)
    BY DEF Fans
  <2> HIDE DEF g
  <2> QED
    BY <2>1 DEF Fans
<1>2. /\ ret.ok \in BOOLEAN /\ ret.f \in Fans /\ ret.f.value = f.value
      /\ ret.ok => (ret.f.enabled <=> speed > 0)
      /\ ~ret.ok => (ret.f.enabled <=> f.enabled)
  <2>1. CASE speed = 0
    <3>1. ret = pwm_fan_power_off(f, bad)
      BY <2>1 DEF Switched
    <3> HIDE DEF ret
    <3>2. /\ ret.ok \in BOOLEAN /\ ret.f \in Fans /\ ret.f.value = f.value
          /\ ~f.enabled => ret.ok /\ ret.f = f
          /\ (ret.ok <=> ~ret.f.enabled)
      BY <3>1, PowerOff
    <3> QED
      BY <2>1, <3>2
  <2>2. CASE speed # 0 /\ bad = "duty"
    <3>1. ret = Err(g)
      BY <2>2 DEF Switched
    <3> HIDE DEF g, ret
    <3> QED
      BY <1>1, <2>2, <3>1 DEF Err
  <2>3. CASE speed # 0 /\ bad # "duty"
    <3>1. ret = pwm_fan_power_on(applied, bad)
      BY <2>3 DEF Switched
    <3> HIDE DEF applied, ret
    <3> QED
      BY <1>1, <2>3, <3>1, PowerOn
  <2> QED
    BY <2>1, <2>2, <2>3
<1>3. set_pwm(f, speed, bad) =
        IF speed > 0 /\ f.mode = "off" THEN Ok(f) ELSE IF ret.ok THEN Ok(taken) ELSE ret
  BY DEF set_pwm
<1> HIDE DEF ret
<1>4. taken.value = speed /\ (taken.enabled <=> ret.f.enabled)
  BY <1>2 DEF Fans
<1> HIDE DEF taken
<1>5. CASE speed > 0 /\ f.mode = "off"
  BY <1>3, <1>5 DEF Ok
<1>6. CASE ~(speed > 0 /\ f.mode = "off") /\ ret.ok
  <2>1. set_pwm(f, speed, bad).ok /\ set_pwm(f, speed, bad).f = taken
    BY <1>3, <1>6 DEF Ok
  <2> QED
    BY <1>2, <1>4, <1>6, <2>1
<1>7. CASE ~(speed > 0 /\ f.mode = "off") /\ ~ret.ok
  BY <1>2, <1>3, <1>7
<1> QED
  BY <1>2, <1>5, <1>6, <1>7

\* A fan that is hard disabled stays stopped, whatever fails.
LEMMA SetPwmStops ==
  ASSUME NEW f \in Fans, NEW speed \in Speed, NEW bad \in Bad, Stops(f)
  PROVE  LET r == set_pwm(f, speed, bad)
         IN  Stops(r.f) /\ (r.ok \/ Agrees(f) => Agrees(r.f))
<1> DEFINE r == set_pwm(f, speed, bad)
<1>1. /\ r.ok \in BOOLEAN
      /\ speed > 0 /\ f.mode = "off" => r.f = f
      /\ ~(speed > 0 /\ f.mode = "off") =>
           /\ r.f.value = IF r.ok THEN speed ELSE f.value
           /\ r.ok => (r.f.enabled <=> speed > 0)
           /\ ~r.ok => (r.f.enabled <=> f.enabled)
  BY SetPwmValue
<1>2. r.f.mode = f.mode
  BY SetPwm
<1>3. speed = 0 \/ speed > 0
  BY DEF Speed, MAX_PWM
<1> HIDE DEF r
<1>4. Stops(r.f) /\ (r.ok \/ Agrees(f) => Agrees(r.f))
  BY <1>1, <1>2, <1>3 DEF Stops, Agrees
<1> QED
  BY <1>4 DEF r

\* The mode is set to "off": the fan is stopped.
LEMMA Disabling ==
  ASSUME NEW f \in Fans, NEW bad \in Bad
  PROVE  LET r == HardDisable(f, bad)
         IN  /\ r.f \in Fans
             /\ FanOK(f) /\ Agrees(f) /\ bad # "apply" =>
                  FanOK(r.f) /\ Agrees(r.f) /\ r.f.value = 0
<1> DEFINE g == [f EXCEPT !.mode = "off"]
           ret == IF f.enabled THEN set_pwm(g, 0, bad)
                  ELSE pwm_fan_switch_power(g, FALSE, bad)
           back == [ret.f EXCEPT !.mode = f.mode]
<1>1. /\ g \in Fans /\ g.mode = "off" /\ (g.enabled <=> f.enabled) /\ g.value = f.value
      /\ g.pwm = f.pwm /\ g.state = f.state /\ (g.supply <=> f.supply)
      /\ (g.regOn <=> f.regOn)
  BY DEF Fans, Modes
<1>2. HardDisable(f, bad) = IF ret.ok THEN ret ELSE Err(back)
  BY DEF HardDisable
<1> HIDE DEF g
<1>3. ret.f \in Fans
  <2>1. set_pwm(g, 0, bad).f \in Fans
    BY <1>1, SetPwm DEF Speed, MAX_PWM
  <2>2. pwm_fan_switch_power(g, FALSE, bad).f \in Fans
    BY <1>1 DEF pwm_fan_switch_power, Ok, Err, Fans
  <2> QED
    BY <2>1, <2>2
<1>4. back \in Fans
  <2> HIDE DEF ret
  <2> QED
    BY <1>3 DEF Fans
<1>5. CASE f.enabled
  <2> DEFINE off == pwm_fan_power_off(g, bad)
             taken == [off.f EXCEPT !.value = 0]
  <2>1. /\ off.ok \in BOOLEAN /\ off.f \in Fans
        /\ bad # "apply" => off.ok /\ ~off.f.enabled /\ off.f.pwm.duty = 0
    BY <1>1, <1>5, PowerOff
  <2>2. ret = IF off.ok THEN Ok(taken) ELSE off
    BY <1>5 DEF set_pwm, Switched
  <2> HIDE DEF off, ret
  <2>3. bad # "apply" => /\ ~taken.enabled /\ taken.pwm.duty = 0 /\ taken.value = 0
    BY <2>1 DEF Fans
  <2> HIDE DEF taken
  <2>4. bad # "apply" => FanOK(taken) /\ Agrees(taken)
    BY <2>3 DEF FanOK, Agrees
  <2>5. bad # "apply" => HardDisable(f, bad).f = taken
    BY <1>2, <2>1, <2>2 DEF Ok
  <2>6. HardDisable(f, bad).f \in Fans
    BY <1>2, <1>3, <1>4 DEF Err
  <2> QED
    BY <2>3, <2>4, <2>5, <2>6
<1>6. CASE ~f.enabled
  <2>1. ret = pwm_fan_switch_power(g, FALSE, bad)
    BY <1>6
  <2> HIDE DEF ret
  <2>2. /\ (ret.f.supply <=> f.supply) /\ ret.f.mode = "off"
        /\ ~ret.f.enabled /\ ret.f.pwm = f.pwm /\ ret.f.value = f.value
        /\ ret.ok => (f.supply => ~ret.f.regOn)
        /\ ~ret.ok => (ret.f.regOn <=> f.regOn)
    BY <1>1, <1>6, <2>1 DEF pwm_fan_switch_power, Ok, Err, Fans
  <2>3. /\ (back.supply <=> f.supply) /\ back.mode = f.mode
        /\ ~back.enabled /\ back.pwm = f.pwm /\ back.value = f.value
        /\ ~ret.ok => (back.regOn <=> f.regOn)
    BY <1>3, <2>2 DEF Fans
  <2> HIDE DEF back
  <2>4. CASE ret.ok
    <3>1. FanOK(f) /\ Agrees(f) => FanOK(ret.f) /\ Agrees(ret.f) /\ ret.f.value = 0
      BY <1>6, <2>2, <2>4 DEF FanOK, Agrees
    <3> QED
      BY <1>2, <1>3, <2>4, <3>1
  <2>5. CASE ~ret.ok
    <3>1. FanOK(f) /\ Agrees(f) => FanOK(back) /\ Agrees(back) /\ back.value = 0
      BY <1>6, <2>3, <2>5 DEF FanOK, Agrees
    <3>2. HardDisable(f, bad).f = back
      BY <1>2, <2>5 DEF Err
    <3> QED
      BY <1>4, <3>1, <3>2
  <2> QED
    BY <2>4, <2>5
<1> QED
  BY <1>5, <1>6

\* The same after any failure: a fan that could not be stopped has the mode it had.
LEMMA DisablingStops ==
  ASSUME NEW f \in Fans, NEW bad \in Bad, Stops(f), Agrees(f)
  PROVE  LET r == HardDisable(f, bad)
         IN  Stops(r.f) /\ Agrees(r.f) /\ (r.ok => r.f.value = 0)
<1> DEFINE g == [f EXCEPT !.mode = "off"]
           ret == IF f.enabled THEN set_pwm(g, 0, bad)
                  ELSE pwm_fan_switch_power(g, FALSE, bad)
           back == [ret.f EXCEPT !.mode = f.mode]
<1>1. g \in Fans /\ g.mode = "off" /\ (g.enabled <=> f.enabled) /\ g.value = f.value
  BY DEF Fans, Modes
<1>2. HardDisable(f, bad) = IF ret.ok THEN ret ELSE Err(back)
  BY DEF HardDisable
<1> HIDE DEF g
<1>3. /\ ret.ok \in BOOLEAN /\ ret.f \in Fans
      /\ ret.ok => ret.f.value = 0 /\ ~ret.f.enabled
      /\ ~ret.ok => ret.f.value = f.value /\ (ret.f.enabled <=> f.enabled)
  <2>1. CASE f.enabled
    <3>1. ret = set_pwm(g, 0, bad) /\ 0 \in Speed
      BY <2>1 DEF Speed, MAX_PWM
    <3> HIDE DEF ret
    <3>2. ret.ok \in BOOLEAN /\ ret.f \in Fans
      BY <1>1, <3>1, SetPwm
    <3>3. /\ ret.f.value = IF ret.ok THEN 0 ELSE g.value
          /\ ret.ok => ~ret.f.enabled
          /\ ~ret.ok => (ret.f.enabled <=> g.enabled)
      BY <1>1, <3>1, SetPwmValue
    <3> QED
      BY <1>1, <3>2, <3>3
  <2>2. CASE ~f.enabled
    <3>1. ret = pwm_fan_switch_power(g, FALSE, bad)
      BY <2>2
    <3> HIDE DEF ret
    <3> QED
      BY <1>1, <2>2, <3>1 DEF Agrees, pwm_fan_switch_power, Ok, Err, Fans
  <2> QED
    BY <2>1, <2>2
<1> HIDE DEF ret
<1>4. back.mode = f.mode /\ back.value = ret.f.value /\ (back.enabled <=> ret.f.enabled)
  BY <1>3 DEF Fans
<1> HIDE DEF back
<1>5. CASE ret.ok
  BY <1>2, <1>3, <1>5 DEF Stops, Agrees
<1>6. CASE ~ret.ok
  <2>1. HardDisable(f, bad).f = back /\ ~HardDisable(f, bad).ok
    BY <1>2, <1>6 DEF Err
  <2> QED
    BY <1>3, <1>4, <1>6, <2>1 DEF Stops, Agrees
<1> QED
  BY <1>3, <1>5, <1>6

\* Another mode: a fan that runs goes on, one that is stopped is not started.
LEMMA Changing ==
  ASSUME NEW f \in Fans, NEW m \in Modes \ {"off"}, NEW bad \in Bad
  PROVE  LET r == ChangeMode(f, m, bad)
         IN  /\ r.f \in Fans
             /\ r.f.value = f.value /\ r.f.mode = m /\ (r.f.enabled <=> f.enabled)
             /\ FanOK(f) /\ Agrees(f) /\ bad # "apply" => FanOK(r.f) /\ Agrees(r.f)
<1> DEFINE h == [f EXCEPT !.mode = m]
           keep == KeepsPwm(m)
           g == [h EXCEPT !.state = [enabled |-> keep, duty |-> 0]]
           applied == IF bad = "apply" THEN g ELSE [g EXCEPT !.pwm = g.state]
           keepSupply == KeepsRegulator(m)
           cut == pwm_fan_switch_power(applied, keepSupply, bad).f
<1>1. /\ h \in Fans /\ h.mode = m /\ (h.enabled <=> f.enabled) /\ h.value = f.value
      /\ h.pwm = f.pwm /\ h.state = f.state /\ (h.supply <=> f.supply)
      /\ (h.regOn <=> f.regOn)
  BY DEF Fans
<1>2. [f EXCEPT !.mode = m, !.state = [enabled |-> keep, duty |-> 0]] = g
  BY DEF Fans
<1>3. ChangeMode(f, m, bad) = IF f.enabled THEN Ok(h) ELSE Ok(cut)
  BY <1>2 DEF ChangeMode
<1>4. keep \in BOOLEAN /\ keepSupply \in BOOLEAN
  BY DEF KeepsPwm, KeepsRegulator
<1> HIDE DEF h, keep, keepSupply
<1>5. g \in Fans /\ g.state.duty = 0 /\ g.mode = m /\ g.value = f.value /\ (g.enabled <=> f.enabled)
  BY <1>1, <1>4, StoppedState
<1> HIDE DEF g
<1>6. /\ applied \in Fans /\ applied.mode = m /\ applied.value = f.value
      /\ (applied.enabled <=> f.enabled)
      /\ bad # "apply" => applied.pwm.duty = 0
  BY <1>5 DEF Fans
<1> HIDE DEF applied
<1>7. /\ cut \in Fans /\ cut.mode = m /\ cut.value = f.value /\ (cut.enabled <=> f.enabled)
      /\ bad # "apply" => cut.pwm.duty = 0
  BY <1>4, <1>6 DEF pwm_fan_switch_power, Ok, Err, Fans
<1> HIDE DEF cut
<1>8. CASE f.enabled
  <2>1. FanOK(f) /\ Agrees(f) => FanOK(h) /\ Agrees(h)
    BY <1>1, <1>8 DEF FanOK, Agrees
  <2> QED
    BY <1>1, <1>3, <1>8, <2>1 DEF Ok
<1>9. CASE ~f.enabled
  <2>1. Agrees(f) /\ bad # "apply" => FanOK(cut) /\ Agrees(cut)
    BY <1>7, <1>9 DEF FanOK, Agrees
  <2> QED
    BY <1>3, <1>7, <1>9, <2>1 DEF Ok
<1> QED
  BY <1>8, <1>9

-----------------------------------------------------------------------------
\* There is a cooling level, and each is a speed.
LEMMA LevelsAreSpeeds ==
  Len(Levels) \in Nat \ {0} /\ \A i \in 1..Len(Levels) : Levels[i] \in Speed
<1>1. Levels \in Seq(Speed) /\ Levels # <<>>
  BY PwmFanAssumption DEF Speed
<1> QED
  BY <1>1, ElementOfSeq

LEMMA InitIInv == FanInit => IInv
<1> SUFFICES ASSUME FanInit PROVE IInv
  OBVIOUS
<1>1. PICK supply \in BOOLEAN : fan = Max255(supply)
  BY DEF FanInit
<1> DEFINE full == [enabled |-> TRUE, duty |-> MAX_PWM]
<1>2. full \in [enabled : BOOLEAN, duty : 0..MAX_PWM] /\ full.duty = 255 /\ full.enabled
  <2>1. full.enabled /\ full.enabled \in BOOLEAN
    BY Zenon
  <2> QED
    BY <2>1 DEF MAX_PWM
<1>3. fan \in Fans
  <2>1. fan = [supply |-> supply, mode |-> "disable", enabled |-> TRUE, regOn |-> supply,
               state |-> full, pwm |-> full, value |-> MAX_PWM]
    BY <1>1 DEF Max255
  <2>2. TRUE \in BOOLEAN /\ MAX_PWM \in 0..MAX_PWM /\ "disable" \in Modes
    BY DEF MAX_PWM, Modes
  <2> HIDE DEF full
  <2> QED
    BY <2>1, <2>2, <1>2, Zenon DEF Fans
<1>4. /\ fan.enabled /\ fan.state = full /\ fan.pwm = full /\ fan.value = 255
      /\ (fan.supply <=> fan.regOn) /\ fan.mode = "disable"
  <2>1. fan.enabled /\ (fan.supply <=> fan.regOn)
    BY <1>1, Zenon DEF Max255
  <2> QED
    BY <1>1, <2>1 DEF Max255, MAX_PWM
<1> HIDE DEF full
<1>5. FanOK(fan) /\ Agrees(fan) /\ Stops(fan)
  BY <1>2, <1>4 DEF FanOK, Agrees, Stops
<1>6. \A c \in Callers : calling[c].at = "idle"
  BY DEF FanInit, NoCall
<1> QED
  BY <1>3, <1>5, <1>6 DEF FanInit, IInv, FanTypeOK, Sound, Stopped, Frozen

\* The calls that set a speed: the mishaps say when the pwm has failed.
LEMMA SpeedKeeps ==
  ASSUME IInv, NEW speed \in Speed, NEW bad \in Bad, power # "suspended",
         power' = power, fan' = set_pwm(fan, speed, bad).f,
         mishaps \cup SpeedMishaps(speed, bad) \subseteq mishaps',
         mishaps' \subseteq {"off", "on", "hard", "kept", "resume", "race"},
         DOMAIN calling' = Callers,
         \A c \in Callers : calling'[c].at = "speed" => calling'[c].to \in 0..MaxState
  PROVE  IInv'
<1>1. fan' \in Fans
  BY SetPwm DEF IInv, FanTypeOK
<1>2. bad = "apply" => "off" \in mishaps' \/ "on" \in mishaps'
  BY DEF SpeedMishaps
<1>3. ASSUME mishaps' \cap {"on", "off", "resume"} = {}, power = "bound"
      PROVE  FanOK(fan') /\ Agrees(fan')
  <2>1. mishaps \cap {"on", "off", "resume"} = {} /\ bad # "apply"
    BY <1>2, <1>3
  <2>2. FanOK(fan) /\ Agrees(fan) /\ fan \in Fans
    BY <1>3, <2>1 DEF IInv, FanTypeOK, Sound
  <2> QED
    BY <2>1, <2>2, SetPwm
<1>4. ASSUME "resume" \notin mishaps', power = "bound" PROVE Stops(fan') /\ Agrees(fan')
  BY <1>4, SetPwmStops DEF IInv, FanTypeOK, Stopped
<1> QED
  BY <1>1, <1>3, <1>4 DEF IInv, FanTypeOK, Sound, Stopped, Frozen

LEMMA NextIInv == IInv /\ [FanNext]_fanVars => IInv'
<1> SUFFICES ASSUME IInv, [FanNext]_fanVars PROVE IInv'
  OBVIOUS
<1>types. /\ fan \in Fans /\ mishaps \subseteq {"off", "on", "hard", "kept", "resume", "race"}
          /\ DOMAIN calling = Callers
          /\ \A c \in Callers : calling[c].at = "speed" => calling[c].to \in 0..MaxState
  BY DEF IInv, FanTypeOK
<1>a. \A c \in Callers : Races(c) \subseteq {"race"}
  BY DEF Races
<1>b. \A speed \in Speed, bad \in Bad : SpeedMishaps(speed, bad) \subseteq {"off", "on", "hard"}
  BY DEF SpeedMishaps
<1>c. \A bad \in Bad :
        OffMishaps(bad) \subseteq {"off"} /\ (bad = "apply" => "off" \in OffMishaps(bad))
  BY DEF OffMishaps
<1>d. \A m \in Modes : \A ret : ModeMishaps(m, ret) \subseteq {"kept"}
  BY DEF ModeMishaps
<1>1. ASSUME NEW u \in Users, NEW speed \in Speeds, NEW bad \in Bad, WritePwm(u, speed, bad)
      PROVE  IInv'
  <2>1. speed \in Speed /\ u \in Callers
    BY PwmFanAssumption DEF Speed, Callers
  <2>2. /\ fan' = set_pwm(fan, speed, bad).f /\ power = "bound" /\ power' = power
        /\ mishaps' = mishaps \cup SpeedMishaps(speed, bad) \cup Races(u)
    BY <1>1 DEF WritePwm, Begins
  <2>3. \/ calling' = calling
        \/ calling' = [calling EXCEPT ![u] = [at |-> "level", to |-> LevelOf(speed)]]
    BY <1>1 DEF WritePwm
  <2>4. /\ DOMAIN calling' = Callers
        /\ \A c \in Callers : calling'[c].at = "speed" => calling'[c].to \in 0..MaxState
    <3> DEFINE call == [at |-> "level", to |-> LevelOf(speed)]
    <3>1. call.at = "level"
      OBVIOUS
    <3> HIDE DEF call
    <3> QED
      BY <2>3, <3>1, <1>types
  <2> QED
    BY <2>1, <2>2, <2>4, <1>types, <1>a, <1>b, SpeedKeeps
<1>2. ASSUME NEW u \in Users, NEW m \in Modes, NEW bad \in Bad, WriteEnable(u, m, bad)
      PROVE  IInv'
  <2> DEFINE ret == IF m = "off" THEN HardDisable(fan, bad) ELSE ChangeMode(fan, m, bad)
  <2>1. /\ fan' = ret.f /\ power = "bound" /\ UNCHANGED <<calling, power>>
        /\ mishaps' = mishaps \cup OffMishaps(bad) \cup ModeMishaps(m, ret) \cup Races(u)
    BY <1>2 DEF WriteEnable, Begins
  <2>2. /\ fan' \in Fans
        /\ FanOK(fan) /\ Agrees(fan) /\ bad # "apply" => FanOK(fan') /\ Agrees(fan')
    BY <2>1, <1>types, Disabling, Changing
  <2>3. u \in Callers
    BY DEF Callers
  <2>4. Stops(fan) /\ Agrees(fan) => Stops(fan') /\ Agrees(fan')
    <3>1. CASE m = "off"
      BY <2>1, <3>1, <1>types, DisablingStops
    <3>2. CASE m # "off"
      BY <2>1, <3>2, <1>types, Changing DEF Stops, Agrees
    <3> QED
      BY <3>1, <3>2
  <2> HIDE DEF ret
  <2>5. ModeMishaps(m, ret) \subseteq {"kept"}
    BY <1>d
  <2> QED
    BY <2>1, <2>2, <2>3, <2>4, <2>5, <1>types, <1>a, <1>c DEF IInv, FanTypeOK, Sound, Stopped, Frozen
<1>3. ASSUME NEW state \in 0..MaxState, SetCurState(state) PROVE IInv'
  <2>1. /\ calling' = [calling EXCEPT ![Thermal] = [at |-> "speed", to |-> state]]
        /\ mishaps' = mishaps \cup Races(Thermal) /\ UNCHANGED <<fan, power>>
        /\ power = "bound"
    BY <1>3 DEF SetCurState, Begins
  <2> DEFINE call == [at |-> "speed", to |-> state]
  <2>2. /\ DOMAIN calling' = Callers
        /\ \A c \in Callers : calling'[c].at = "speed" => calling'[c].to \in 0..MaxState
    <3>1. calling' = [calling EXCEPT ![Thermal] = call] /\ call.to = state
      BY <2>1
    <3> HIDE DEF call
    <3> QED
      BY <3>1, <1>types
  <2>3. Thermal \in Callers
    BY DEF Callers
  <2> QED
    BY <2>1, <2>2, <2>3, <1>types, <1>a DEF IInv, FanTypeOK, Sound, Stopped, Frozen
<1>4. ASSUME NEW bad \in Bad, SetCurSpeed(bad) PROVE IInv'
  <2> DEFINE speed == Levels[calling[Thermal].to + 1]
  <2>1. /\ calling[Thermal].at = "speed" /\ Thermal \in Callers
        /\ fan' = set_pwm(fan, speed, bad).f /\ power' = power
        /\ mishaps' = mishaps \cup SpeedMishaps(speed, bad) \cup Races(Thermal)
        /\ \E e : calling' = [calling EXCEPT ![Thermal] = e] /\ e.at # "speed"
    <3>1. \E e : /\ calling' = [calling EXCEPT ![Thermal] = e]
                 /\ e.at # "speed"
      <4> DEFINE done == [at |-> "level", to |-> calling[Thermal].to]
      <4>1. done.at # "speed" /\ NoCall.at # "speed"
        BY DEF NoCall
      <4>2. \/ calling' = [calling EXCEPT ![Thermal] = done]
            \/ calling' = [calling EXCEPT ![Thermal] = NoCall]
        BY <1>4 DEF SetCurSpeed
      <4> HIDE DEF done
      <4> QED
        BY <4>1, <4>2
    <3> QED
      BY <1>4, <3>1 DEF SetCurSpeed, Callers
  <2>2. speed \in Speed
    <3>1. Len(Levels) \in Nat /\ \A i \in 1..Len(Levels) : Levels[i] \in Speed
      BY LevelsAreSpeeds
    <3>2. calling[Thermal].to \in 0..(Len(Levels) - 1)
      BY <2>1, <1>types DEF MaxState
    <3>3. calling[Thermal].to + 1 \in 1..Len(Levels)
      BY <3>1, <3>2
    <3> QED
      BY <3>1, <3>3
  <2>3. /\ DOMAIN calling' = Callers
        /\ \A c \in Callers : calling'[c].at = "speed" => calling'[c].to \in 0..MaxState
    BY <2>1, <1>types
  <2>4. power # "suspended"
    BY <2>1 DEF IInv, Frozen, Quiet
  <2> HIDE DEF speed
  <2> QED
    BY <2>4, <2>1, <2>2, <2>3, <1>types, <1>a, <1>b, SpeedKeeps
<1>5. ASSUME NEW c \in Callers, StoreState(c) PROVE IInv'
  <2>1. /\ calling' = [calling EXCEPT ![c] = NoCall] /\ calling[c].at = "level"
        /\ UNCHANGED <<fan, power, mishaps>>
    BY <1>5 DEF StoreState
  <2> QED
    BY <2>1, <1>types DEF NoCall, IInv, FanTypeOK, Sound, Stopped, Frozen, Quiet
<1>6. ASSUME NEW bad \in Bad, Suspend(bad) PROVE IInv'
  <2> DEFINE ret == pwm_fan_power_off(fan, bad)
  <2>1. /\ fan' = ret.f /\ power = "bound" /\ power' = IF ret.ok THEN "suspended" ELSE "bound"
        /\ mishaps' = mishaps \cup OffMishaps(bad) /\ calling' = calling /\ Quiet
    BY <1>6 DEF Suspend, Begins
  <2>2. /\ ret.ok \in BOOLEAN /\ ret.f \in Fans
        /\ ret.f.value = fan.value /\ ret.f.mode = fan.mode
        /\ ~fan.enabled => ret.ok /\ ret.f = fan
        /\ (ret.ok <=> ~ret.f.enabled)
        /\ fan.enabled /\ bad # "apply" => ret.ok /\ ~ret.f.enabled /\ ret.f.pwm.duty = 0
    BY <1>types, PowerOff
  <2> HIDE DEF ret
  <2>3. FanOK(fan) /\ bad # "apply" => FanOK(ret.f) /\ ret.ok /\ ~ret.f.enabled
    BY <2>2 DEF FanOK
  <2>4. /\ Stops(fan) => Stops(ret.f)
        /\ ret.ok => ~ret.f.enabled
        /\ ~ret.ok => Agrees(ret.f)
    BY <2>2 DEF Stops, Agrees
  <2> QED
    BY <2>1, <2>2, <2>3, <2>4, <1>types, <1>c DEF IInv, FanTypeOK, Sound, Stopped, Frozen, Quiet
<1>7. ASSUME NEW bad \in Bad, Resume(bad) PROVE IInv'
  <2> DEFINE ret == set_pwm(fan, fan.value, bad)
  <2>1. /\ fan' = ret.f /\ power = "suspended" /\ power' = "bound" /\ calling' = calling
        /\ mishaps' = mishaps \cup SpeedMishaps(fan.value, bad)
                               \cup (IF ret.ok THEN {} ELSE {"resume"})
    BY <1>7 DEF Resume
  <2>2. fan.value \in Speed
    BY <1>types DEF Fans, Speed
  <2>3. /\ ret.f \in Fans
        /\ FanOK(fan) /\ bad # "apply" =>
             /\ FanOK(ret.f)
             /\ ret.ok /\ (fan.mode = "off" => fan.value = 0) => Agrees(ret.f)
    BY <2>2, <1>types, SetPwm
  <2>4. bad = "apply" => "off" \in mishaps' \/ "on" \in mishaps'
    BY <2>1 DEF SpeedMishaps
  <2>5. ~ret.ok => "resume" \in mishaps'
    BY <2>1
  <2>6. mishaps \subseteq mishaps' /\ mishaps' \subseteq {"off", "on", "hard", "kept", "resume", "race"}
    BY <2>1, <2>2, <1>types, <1>b
  <2> HIDE DEF ret
  <2>7. ASSUME mishaps' \cap {"on", "off", "resume"} = {} PROVE FanOK(fan') /\ Agrees(fan')
    <3>1. mishaps \cap {"on", "off", "resume"} = {} /\ bad # "apply" /\ ret.ok
      BY <2>4, <2>5, <2>6, <2>7
    <3>2. FanOK(fan) /\ (fan.mode = "off" => fan.value = 0)
      BY <2>1, <3>1 DEF IInv, Sound, FanOK
    <3> QED
      BY <2>1, <2>3, <3>1, <3>2
  <2>8. ASSUME "resume" \notin mishaps' PROVE Stops(fan') /\ Agrees(fan')
    <3>1. "resume" \notin mishaps /\ ret.ok
      BY <2>5, <2>6, <2>8
    <3>2. Stops(fan)
      BY <2>1, <3>1 DEF IInv, Stopped
    <3> QED
      BY <2>1, <2>2, <3>1, <3>2, <1>types, SetPwmStops DEF ret
  <2> QED
    BY <2>1, <2>3, <2>6, <2>7, <2>8, <1>types DEF IInv, FanTypeOK, Sound, Stopped, Frozen
<1>8. ASSUME NEW bad \in Bad, Cleanup(bad) PROVE IInv'
  <2> DEFINE f == [fan EXCEPT !.mode = "disableBoth"]
  <2>1. /\ fan' = pwm_fan_power_off(f, bad).f /\ power' = "gone" /\ calling' = calling
        /\ mishaps' = mishaps \cup OffMishaps(bad)
    BY <1>8 DEF Cleanup
  <2>2. f \in Fans
    BY <1>types DEF Fans, Modes
  <2> HIDE DEF f
  <2>3. fan' \in Fans
    BY <2>1, <2>2, PowerOff
  <2> QED
    BY <2>1, <2>3, <1>types, <1>c DEF IInv, FanTypeOK, Sound, Stopped, Frozen
<1>9. CASE UNCHANGED fanVars
  BY <1>9 DEF fanVars, IInv, FanTypeOK, Sound, Stopped, Frozen, Quiet
<1> QED
  BY <1>1, <1>2, <1>3, <1>4, <1>5, <1>6, <1>7, <1>8, <1>9 DEF FanNext, Write, Cool

LEMMA Invariance == FanSpec => []IInv
  BY InitIInv, NextIInv, PTL DEF FanSpec

-----------------------------------------------------------------------------
\* The type invariant.
THEOREM TypeCorrect == FanSpec => []FanTypeOK
<1>1. IInv => FanTypeOK
  BY DEF IInv
<1> QED
  BY <1>1, Invariance, PTL

\* The fan turns at the speed the driver remembers, whatever modes, suspends, failures of
\* the regulator and duty cycles that could not be set came in between; not after the pwm
\* failed in power_off or power_on, nor after a resume that failed.
THEOREM TurnsAsTold == FanSpec => []RunsAsTold
<1>1. IInv => RunsAsTold
  <2> SUFFICES ASSUME IInv, power = "bound", mishaps \cap {"on", "off", "resume"} = {}
               PROVE  IF fan.value = 0 THEN ~Turning ELSE Turning /\ fan.pwm.duty = fan.value
    BY DEF RunsAsTold
  <2>1. FanOK(fan) /\ Agrees(fan) /\ fan \in Fans
    BY DEF IInv, FanTypeOK, Sound
  <2> QED
    BY <2>1 DEF FanOK, Agrees, Fans, Turning
<1> QED
  BY <1>1, Invariance, PTL

-----------------------------------------------------------------------------
(* The cooling state                                                       *)

\* While none of the four mishaps has come about, one caller is at work at a time, and the state that is
\* stored, or that this caller is about to store, is that of the speed the fan has.
Misled == {"race", "hard", "kept", "resume"}
Believes ==
  mishaps \cap Misled = {} =>
    /\ \A c, d \in Callers : calling[c].at # "idle" /\ calling[d].at # "idle" => c = d
    /\ \A c \in Callers : calling[c].at = "level" => calling[c].to = LevelOf(fan.value)
    /\ (\A c \in Callers : calling[c].at # "level") => level = LevelOf(fan.value)

\* pwm_fan_update_state is the inverse of cooling_levels[]: the state of the speed of a state
\* is that state.
LEMMA LevelOfLevel ==
  ASSUME NEW state \in 0..MaxState
  PROVE  LevelOf(Levels[state + 1]) = state
<1> DEFINE speed == Levels[state + 1]
           P(s) == /\ s = MaxState \/ speed < Levels[s + 2]
                   /\ \A t \in 0..s - 1 : speed >= Levels[t + 2]
<1>1. /\ Len(Levels) \in Nat \ {0} /\ MaxState = Len(Levels) - 1
      /\ \A i \in 1..Len(Levels) : Levels[i] \in Int
      /\ \A i, j \in 1..Len(Levels) : i < j => Levels[i] < Levels[j]
  <2>1. \A i \in 1..Len(Levels) : Levels[i] \in Int
    <3>1. Speed \subseteq Int
      BY DEF Speed, MAX_PWM
    <3> QED
      BY <3>1, LevelsAreSpeeds, Zenon
  <2> QED
    BY <2>1, LevelsAreSpeeds, PwmFanAssumption DEF MaxState
<1>2. state + 1 \in 1..Len(Levels)
  BY <1>1
<1>3. P(state)
  <2>1. state = MaxState \/ speed < Levels[state + 2]
    <3> SUFFICES ASSUME state # MaxState PROVE speed < Levels[state + 2]
      OBVIOUS
    <3>1. state + 2 \in 1..Len(Levels) /\ state + 1 < state + 2
      BY <1>1
    <3> QED
      BY <1>1, <1>2, <3>1
  <2>2. ASSUME NEW t \in 0..state - 1 PROVE speed >= Levels[t + 2]
    <3>1. t + 2 \in 1..Len(Levels) /\ (t + 2 = state + 1 \/ t + 2 < state + 1)
      BY <1>1
    <3> QED
      BY <1>1, <1>2, <3>1
  <2> QED
    BY <2>1, <2>2
<1>4. ASSUME NEW s \in 0..MaxState, P(s) PROVE s = state
  <2>1. ~(s < state)
    <3> SUFFICES ASSUME s < state PROVE FALSE
      OBVIOUS
    <3>1. s # MaxState /\ s + 2 \in 1..Len(Levels) /\ (s + 2 = state + 1 \/ s + 2 < state + 1)
      BY <1>1
    <3>2. speed < Levels[s + 2]
      BY <1>4, <3>1
    <3> QED
      BY <1>1, <1>2, <3>1, <3>2
  <2>2. ~(state < s)
    <3> SUFFICES ASSUME state < s PROVE FALSE
      OBVIOUS
    <3>1. state \in 0..s - 1 /\ state + 2 \in 1..Len(Levels) /\ state + 1 < state + 2
      BY <1>1
    <3>2. speed >= Levels[state + 2]
      BY <1>4, <3>1
    <3> QED
      BY <1>1, <1>2, <3>1, <3>2
  <2> QED
    BY <1>1, <2>1, <2>2
<1>5. LevelOf(speed) = CHOOSE s \in 0..MaxState : P(s)
  BY DEF LevelOf
<1> HIDE DEF P, speed
<1> QED
  BY <1>3, <1>4, <1>5 DEF speed

\* The state after probe is that of full speed.
LEMMA LevelOfFull == MaxState \in 0..MaxState /\ LevelOf(MAX_PWM) = MaxState
<1> DEFINE P(s) == /\ s = MaxState \/ MAX_PWM < Levels[s + 2]
                   /\ \A t \in 0..s - 1 : MAX_PWM >= Levels[t + 2]
<1>1. Len(Levels) \in Nat \ {0} /\ \A i \in 1..Len(Levels) : Levels[i] \in 0..MAX_PWM
  BY LevelsAreSpeeds DEF Speed
<1>2. MaxState \in 0..MaxState /\ \A t \in 0..MaxState - 1 : t + 2 \in 1..Len(Levels)
  BY <1>1 DEF MaxState
<1>3. \A t \in 0..MaxState - 1 : Levels[t + 2] <= MAX_PWM /\ ~(MAX_PWM < Levels[t + 2])
  <2> TAKE t \in 0..MaxState - 1
  <2>1. Levels[t + 2] \in 0..255
    BY <1>1, <1>2 DEF MAX_PWM
  <2> QED
    BY <2>1 DEF MAX_PWM
<1>4. P(MaxState)
  BY <1>3 DEF MAX_PWM
<1>5. ASSUME NEW s \in 0..MaxState, P(s) PROVE s = MaxState
  <2>1. s \in 0..MaxState - 1 \/ s = MaxState
    BY <1>1 DEF MaxState
  <2> QED
    BY <1>3, <1>5, <2>1
<1>6. LevelOf(MAX_PWM) = CHOOSE s \in 0..MaxState : P(s)
  BY DEF LevelOf
<1> HIDE DEF P
<1> QED
  BY <1>2, <1>4, <1>5, <1>6

LEMMA InitBelieves == FanInit => Believes
<1> SUFFICES ASSUME FanInit PROVE Believes
  OBVIOUS
<1>1. fan.value = MAX_PWM
  BY DEF FanInit, Max255
<1>2. level = LevelOf(fan.value)
  BY <1>1, LevelOfFull DEF FanInit
<1>3. \A c \in Callers : calling[c].at = "idle"
  BY DEF FanInit, NoCall
<1> QED
  BY <1>2, <1>3 DEF Believes

\* Every step keeps what is believed in line with the speed.
LEMMA NextBelieves == IInv /\ Believes /\ [FanNext]_fanVars => Believes'
<1> SUFFICES ASSUME IInv, Believes, [FanNext]_fanVars, mishaps' \cap Misled = {}
             PROVE  Believes'
  BY DEF Believes
<1>types. fan \in Fans /\ DOMAIN calling = Callers
          /\ \A c \in Callers : calling[c].at = "speed" => calling[c].to \in 0..MaxState
  BY DEF IInv, FanTypeOK
<1>races. \A c \in Callers : Races(c) \cap Misled = {} => Races(c) = {}
  BY DEF Races, Misled
<1>1. ASSUME NEW u \in Users, NEW speed \in Speeds, NEW bad \in Bad, WritePwm(u, speed, bad)
      PROVE  Believes'
  <2> DEFINE ret == set_pwm(fan, speed, bad)
             call == [at |-> "level", to |-> LevelOf(speed)]
  <2>1. /\ calling[u].at = "idle" /\ fan' = ret.f /\ level' = level
        /\ calling' = IF ret.ok THEN [calling EXCEPT ![u] = call] ELSE calling
        /\ mishaps \cap Misled = {} /\ SpeedMishaps(speed, bad) \cap Misled = {}
        /\ Races(u) = {}
    BY <1>1, <1>races DEF WritePwm, Callers
  <2>2. speed \in Speed /\ u \in Callers
    BY PwmFanAssumption DEF Speed, Callers
  <2>3. ~(speed > 0 /\ fan.mode = "off")
    BY <2>1 DEF SpeedMishaps, Misled
  <2>4. ret.ok \in BOOLEAN /\ ret.f.value = IF ret.ok THEN speed ELSE fan.value
    BY <2>2, <2>3, <1>types, SetPwmValue
  <2>5. \A c \in Callers : calling[c].at = "idle"
    BY <2>1 DEF Races, Others
  <2>6. call.at = "level" /\ call.to = LevelOf(speed)
    OBVIOUS
  <2> HIDE DEF ret, call
  <2>7. CASE ret.ok
    BY <2>1, <2>2, <2>4, <2>5, <2>6, <2>7, <1>types DEF Believes
  <2>8. CASE ~ret.ok
    <3>1. fan'.value = fan.value /\ calling' = calling
      BY <2>1, <2>4, <2>8
    <3> QED
      BY <2>1, <3>1 DEF Believes
  <2> QED
    BY <2>7, <2>8
<1>2. ASSUME NEW u \in Users, NEW m \in Modes, NEW bad \in Bad, WriteEnable(u, m, bad)
      PROVE  Believes'
  <2> DEFINE ret == IF m = "off" THEN HardDisable(fan, bad) ELSE ChangeMode(fan, m, bad)
  <2>1. /\ calling[u].at = "idle" /\ calling' = calling /\ power = "bound" /\ fan' = ret.f
        /\ level' = IF m = "off" \/ ~fan.enabled THEN LevelOf(0) ELSE level
        /\ mishaps \cap Misled = {} /\ ModeMishaps(m, ret) \cap Misled = {}
        /\ Races(u) = {}
    BY <1>2, <1>races DEF WriteEnable, Begins, Callers
  <2>2. Stops(fan) /\ Agrees(fan)
    BY <2>1 DEF IInv, Stopped, Misled
  <2>3. /\ m = "off" => fan'.value = 0
        /\ m # "off" => fan'.value = fan.value
    <3>1. m = "off" => ret.ok
      BY <2>1 DEF ModeMishaps, Misled
    <3> QED
      BY <2>1, <2>2, <3>1, <1>types, DisablingStops, Changing
  <2>4. \A c \in Callers : calling[c].at = "idle"
    BY <2>1 DEF Races, Others
  <2>5. level = LevelOf(fan.value)
    BY <2>1, <2>4 DEF Believes
  <2>6. level' = LevelOf(fan'.value)
    BY <2>1, <2>2, <2>3, <2>5 DEF Agrees
  <2> QED
    BY <2>1, <2>4, <2>6 DEF Believes
<1>3. ASSUME NEW state \in 0..MaxState, SetCurState(state) PROVE Believes'
  <2> DEFINE call == [at |-> "speed", to |-> state]
  <2>1. /\ calling' = [calling EXCEPT ![Thermal] = call] /\ call.at = "speed"
        /\ fan' = fan /\ level' = level /\ calling[Thermal].at = "idle"
        /\ mishaps \cap Misled = {} /\ Races(Thermal) = {} /\ Thermal \in Callers
    BY <1>3, <1>races DEF SetCurState, Callers
  <2>2. \A c \in Callers : calling[c].at = "idle"
    BY <2>1 DEF Races, Others
  <2> HIDE DEF call
  <2> QED
    BY <2>1, <2>2, <1>types DEF Believes
<1>4. ASSUME NEW bad \in Bad, SetCurSpeed(bad) PROVE Believes'
  <2> DEFINE state == calling[Thermal].to
             speed == Levels[state + 1]
             ret == set_pwm(fan, speed, bad)
             call == [at |-> "level", to |-> state]
  <2>1. /\ calling[Thermal].at = "speed" /\ fan' = ret.f /\ level' = level
        /\ calling' = [calling EXCEPT ![Thermal] = IF ret.ok THEN call ELSE NoCall]
        /\ mishaps \cap Misled = {} /\ SpeedMishaps(speed, bad) \cap Misled = {}
        /\ Thermal \in Callers
    BY <1>4 DEF SetCurSpeed, Callers
  <2>2. state \in 0..MaxState /\ LevelOf(speed) = state
    BY <2>1, <1>types, LevelOfLevel
  <2>3. speed \in Speed
    <3>1. Len(Levels) \in Nat /\ \A i \in 1..Len(Levels) : Levels[i] \in Speed
      BY LevelsAreSpeeds
    <3>2. state + 1 \in 1..Len(Levels)
      BY <2>2, <3>1 DEF MaxState
    <3> QED
      BY <3>1, <3>2
  <2>4. ~(speed > 0 /\ fan.mode = "off")
    BY <2>1 DEF SpeedMishaps, Misled
  <2> HIDE DEF speed
  <2>5. ret.ok \in BOOLEAN /\ ret.f.value = IF ret.ok THEN speed ELSE fan.value
    BY <2>3, <2>4, <1>types, SetPwmValue
  <2>6. \A c \in Callers \ {Thermal} : calling[c].at = "idle"
    BY <2>1 DEF Believes
  <2>7. level = LevelOf(fan.value)
    BY <2>1, <2>6 DEF Believes
  <2>8. call.at = "level" /\ call.to = state /\ NoCall.at = "idle"
    BY DEF NoCall
  <2> HIDE DEF ret, call, state
  <2>9. CASE ret.ok
    <3>1. fan'.value = speed /\ calling' = [calling EXCEPT ![Thermal] = call]
      BY <2>1, <2>5, <2>9
    <3> QED
      BY <2>1, <2>2, <2>6, <2>8, <3>1, <1>types DEF Believes
  <2>10. CASE ~ret.ok
    <3>1. fan'.value = fan.value /\ calling' = [calling EXCEPT ![Thermal] = NoCall]
      BY <2>1, <2>5, <2>10
    <3> QED
      BY <2>1, <2>6, <2>7, <2>8, <3>1, <1>types DEF Believes
  <2> QED
    BY <2>5, <2>9, <2>10
<1>5. ASSUME NEW c \in Callers, StoreState(c) PROVE Believes'
  <2>1. /\ calling' = [calling EXCEPT ![c] = NoCall] /\ calling[c].at = "level"
        /\ NoCall.at = "idle" /\ level' = calling[c].to /\ fan' = fan /\ mishaps \cap Misled = {}
    BY <1>5 DEF StoreState, NoCall
  <2>2. \A d \in Callers \ {c} : calling[d].at = "idle"
    BY <2>1 DEF Believes
  <2>3. level' = LevelOf(fan.value)
    BY <2>1 DEF Believes
  <2> QED
    BY <2>1, <2>2, <2>3, <1>types DEF Believes
<1>6. ASSUME NEW bad \in Bad, Suspend(bad) PROVE Believes'
  <2>1. fan' = pwm_fan_power_off(fan, bad).f /\ UNCHANGED <<level, calling>> /\ mishaps \cap Misled = {}
    BY <1>6 DEF Suspend
  <2>2. fan'.value = fan.value
    BY <2>1, <1>types, PowerOff
  <2> QED
    BY <2>1, <2>2 DEF Believes
<1>7. ASSUME NEW bad \in Bad, Resume(bad) PROVE Believes'
  <2>1. /\ fan' = set_pwm(fan, fan.value, bad).f /\ UNCHANGED <<level, calling>>
        /\ mishaps \cap Misled = {}
    BY <1>7 DEF Resume
  <2>2. fan.value \in Speed
    BY <1>types DEF Fans, Speed
  <2>3. fan'.value = fan.value
    BY <2>1, <2>2, <1>types, SetPwmValue
  <2> QED
    BY <2>1, <2>3 DEF Believes
<1>8. ASSUME NEW bad \in Bad, Cleanup(bad) PROVE Believes'
  <2> DEFINE f == [fan EXCEPT !.mode = "disableBoth"]
  <2>1. fan' = pwm_fan_power_off(f, bad).f /\ UNCHANGED <<level, calling>> /\ mishaps \cap Misled = {}
    BY <1>8 DEF Cleanup
  <2>2. f \in Fans /\ f.value = fan.value
    BY <1>types DEF Fans, Modes
  <2> HIDE DEF f
  <2>3. fan'.value = fan.value
    BY <2>1, <2>2, PowerOff
  <2> QED
    BY <2>1, <2>3 DEF Believes
<1>9. CASE UNCHANGED fanVars
  BY <1>9 DEF fanVars, Believes
<1> QED
  BY <1>1, <1>2, <1>3, <1>4, <1>5, <1>6, <1>7, <1>8, <1>9 DEF FanNext, Write, Cool

\* The state the thermal core is told is that of the speed the driver remembers, after
\* any failure of pwm or regulator to set a speed or to suspend; not after calls that
\* overlap, a speed set while the fan is hard disabled, and a hard disabling or a resume
\* that failed.
THEOREM StateFollowsSpeed == FanSpec => []StateIsOfSpeed
<1> DEFINE BInv == IInv /\ Believes
<1>1. FanInit => BInv
  BY InitIInv, InitBelieves
<1>2. BInv /\ [FanNext]_fanVars => BInv'
  BY NextIInv, NextBelieves
<1>3. BInv => StateIsOfSpeed
  BY DEF Believes, Misled, StateIsOfSpeed, Quiet
<1> QED
  BY <1>1, <1>2, <1>3, PTL DEF FanSpec

=============================================================================
