------------------------------- MODULE AdcConversion -------------------------------
(***************************************************************************)
(* The vf610 ADC driver (07.adc/kernel_iio_adc.c) between probe and        *)
(* remove: single reads of a channel, the buffer that continuous           *)
(* conversions fill, and the two settings, the sampling frequency and the  *)
(* conversion mode, while the converter runs and over suspends.  mlock is  *)
(* taken by reads, by the mode and by the IIO core around the buffer, but  *)
(* not by the frequency, which reads CFG and GC and writes them back.      *)
(*                                                                         *)
(* A sample is named by the channel it was taken from.                     *)
(***************************************************************************)
EXTENDS Integers, Sequences

CONSTANTS
  Users,       \* processes that use the files of the device in sysfs
  Channels,    \* indexes of the channels of vf610_adc_iio_channels
  SampleRates, \* indexes of vf610_hw_avgs written to sampling_frequency
  IpgRate, MaxAdckRate, SampleTime,  \* clock in Hz, its limit in each mode, ns
  MaxCalls     \* bound: calls of Users, and suspends

None == 0    \* no channel
Nobody == "nobody"

NSEC_PER_SEC == 1000000000
conv_modes == {"normal", "high-speed", "low-power"}

ASSUME AdcAssumption ==
  /\ Nobody \notin Users
  /\ Channels \subseteq Nat \ {0}
  /\ SampleRates \subseteq 0..4
  /\ IpgRate \in Nat /\ SampleTime \in Nat
  /\ MaxAdckRate \in [conv_modes -> Nat]
  \* calculate_rates divides by the rate of the divided clock, and by the nanoseconds of
  \* its period: neither may be 0.
  /\ IpgRate >= 16 /\ IpgRate =< NSEC_PER_SEC
  /\ \A m \in conv_modes :
       MaxAdckRate[m] > 0 => 2 * ((IpgRate \div MaxAdckRate[m]) + 1) =< IpgRate
  /\ MaxCalls \in Nat

VARIABLES
  feature,  \* info->adc_feature
  cfg, gc,  \* the registers of the same names
  conv,     \* the channel in HC0 that is being converted
  coco,     \* the channel of the result in R0 that is not read yet
  value, done,     \* info->value, info->completion
  mlock, buffered, \* of the IIO device; buffered: its current mode is that of the buffer
  scan, buf,       \* the channel the buffer is enabled for, the sample it holds
  pc,       \* per user: the call it is in, and what it has read
  answer,   \* the last read that succeeded: the channel asked for, the sample it got
  phase, calls,  \* "on", "suspended", or "failed" to resume; calls so far
  \* What an observer has seen go wrong:
  mishaps   \* "abandoned": a read gave up while its conversion was still running
            \* "lost": CFG or GC was changed between a read and its write back
            \* "mode", "resume": either while the buffer was enabled

regs == <<cfg, gc>>
hw == <<conv, coco>>
result == <<value, done, buf>>
vars == <<feature, cfg, gc, conv, coco, value, done, mlock, buffered, scan, buf,
          pc, answer, phase, calls, mishaps>>

Idle == [at |-> "idle"]

-----------------------------------------------------------------------------
(* The settings                                                            *)

lst_adder == <<3, 5, 7, 9, 13, 17, 21, 25>>

\* fls: the number of bits of n, which is not 0 here
fls(n) == CHOOSE b \in 1..31 : 2^(b - 1) <= n /\ n < 2^b

\* vf610_adc_calculate_rates; an index of lst_adder that no entry sets stays as it is.
ClockDivider(mode) ==
  IF MaxAdckRate[mode] = 0 THEN 8 ELSE 2^fls((IpgRate \div MaxAdckRate[mode]) + 1)
LeastAdder(div) == SampleTime \div (NSEC_PER_SEC \div (IpgRate \div div))
AdderIndex(div, old) ==
  LET Longer == {i \in 1..Len(lst_adder) : lst_adder[i] > LeastAdder(div)}
  IN IF Longer = {} THEN old ELSE CHOOSE i \in Longer : \A j \in Longer : i <= j

\* Mutant: the adder of the mode that was left is kept.
RatesKeepAdder(f, mode) == [f EXCEPT !.mode = mode, !.clk_div = ClockDivider(mode)]

calculate_rates(f, mode) ==
  LET div == ClockDivider(mode)
  IN [f EXCEPT !.mode = mode, !.clk_div = div, !.adder = AdderIndex(div, f.adder)]

\* ADLSMP and the two bits of ADSTS select the sampling time; for the last entry of
\* lst_adder the driver sets the bits of the last but one.
SampleBits == {"ADLSMP", "ADSTS1", "ADSTS0"}
AdderBits ==
  <<{}, {"ADSTS0"}, {"ADSTS1"}, {"ADSTS1", "ADSTS0"}, {"ADLSMP"}, {"ADLSMP", "ADSTS0"},
    {"ADLSMP", "ADSTS1"}, {"ADLSMP", "ADSTS1"}>>
Cycles(bits) ==
  IF bits = SampleBits THEN 25
  ELSE lst_adder[CHOOSE i \in 1..7 : AdderBits[i] = bits]

\* vf610_adc_sample_set: what it makes of CFG and GC for the features f.  A divider above
\* 16 matches no case, and the bits of the sampling time are set but never cleared.
Averages(rate) == IF rate < 2 THEN 4 ELSE 2^(rate + 1)
SampleCfg(c, f) ==
  [c EXCEPT !.div = IF f.clk_div \in {1, 2, 4, 8, 16} THEN f.clk_div ELSE 1,
            !.adder = @ \cup AdderBits[f.adder],
            !.avgs = Averages(f.rate)]
SampleGc(g, f) == [g EXCEPT !.avgen = f.rate > 0]

\* vf610_adc_cfg_set
PowerCfg(c, f) == [c EXCEPT !.power = f.mode]

\* vf610_adc_cfg_post_set
PostCfg == [div |-> 1, adder |-> {}, avgs |-> 4, power |-> "calibration"]
PostGc == [avgen |-> FALSE, adcon |-> FALSE]

\* vf610_adc_hw_init with nobody else about, as in probe and resume.
InitCfg(f) == PowerCfg(SampleCfg(PostCfg, f), f)
InitGc(f) == SampleGc(PostGc, f)

\* vf610_adc_cfg_init
DefaultFeature ==
  calculate_rates([mode |-> "low-power", rate |-> 1, clk_div |-> 8, adder |-> 1],
                  "low-power")

Init ==
  /\ feature = DefaultFeature
  /\ cfg = InitCfg(DefaultFeature) /\ gc = InitGc(DefaultFeature)
  /\ conv = None /\ coco = None
  /\ value = None /\ done = FALSE
  /\ mlock = Nobody /\ buffered = FALSE
  /\ scan = None /\ buf = None
  /\ pc = [u \in Users |-> Idle]
  /\ answer = [asked |-> None, got |-> None]
  /\ phase = "on" /\ calls = 0
  /\ mishaps = {}

Call(u) ==
  /\ phase = "on" /\ pc[u] = Idle
  /\ calls < MaxCalls
  /\ calls' = calls + 1
Lock(u) == mlock = Nobody /\ mlock' = u
Goes(u, to) == pc' = [pc EXCEPT ![u] = to]

\* write_raw of the sampling frequency, without mlock.
SetFrequency(u, rate) ==
  /\ Call(u)
  /\ feature' = [feature EXCEPT !.rate = rate]
  /\ Goes(u, [at |-> "read", next |-> "end"])
  /\ UNCHANGED <<cfg, gc, conv, coco, value, done, mlock, buffered, scan, buf,
                 answer, phase, mishaps>>

\* vf610_set_conversion_mode as far as vf610_adc_cfg_post_set: GC is cleared.
SetMode(u, mode) ==
  /\ Call(u) /\ Lock(u)
  /\ feature' = calculate_rates(feature, mode)
  /\ cfg' = PostCfg /\ gc' = PostGc
  /\ Goes(u, [at |-> "read", next |-> "power"])
  /\ mishaps' = mishaps \cup (IF buffered THEN {"mode"} ELSE {})
  /\ UNCHANGED <<conv, coco, value, done, buffered, scan, buf, answer, phase>>

SampleRead(u) ==
  /\ pc[u].at = "read"
  /\ Goes(u, [at |-> "sample", next |-> pc[u].next, cfg |-> cfg, gc |-> gc])
  /\ UNCHANGED <<feature, cfg, gc, conv, coco, value, done, mlock, buffered, scan,
                 buf, answer, phase, calls, mishaps>>

Lost(seenCfg, seenGc) == IF <<seenCfg, seenGc>> = regs THEN {} ELSE {"lost"}

\* The features are those of now.
SampleWrite(u) ==
  /\ pc[u].at = "sample"
  /\ cfg' = SampleCfg(pc[u].cfg, feature)
  /\ gc' = SampleGc(pc[u].gc, feature)
  /\ Goes(u, IF pc[u].next = "end" THEN Idle ELSE [at |-> "sampled"])
  /\ mishaps' = mishaps \cup Lost(pc[u].cfg, pc[u].gc)
  /\ UNCHANGED <<feature, conv, coco, value, done, mlock, buffered, scan, buf,
                 answer, phase, calls>>

\* vf610_adc_cfg_set reads CFG again.
PowerRead(u) ==
  /\ pc[u].at = "sampled"
  /\ Goes(u, [at |-> "power", cfg |-> cfg])
  /\ UNCHANGED <<feature, cfg, gc, conv, coco, value, done, mlock, buffered, scan,
                 buf, answer, phase, calls, mishaps>>

SetPower(u) ==
  /\ pc[u].at = "power"
  /\ cfg' = PowerCfg(pc[u].cfg, feature)
  /\ Goes(u, Idle)
  /\ mlock' = Nobody
  /\ mishaps' = mishaps \cup Lost(pc[u].cfg, gc)
  /\ UNCHANGED <<feature, gc, conv, coco, value, done, buffered, scan, buf, answer,
                 phase, calls>>

-----------------------------------------------------------------------------
(* Single reads                                                            *)

\* vf610_read_raw as far as reinit_completion; it is refused while the buffer is enabled.
ReadRaw(u, ch) ==
  /\ Call(u) /\ Lock(u)
  /\ ~buffered
  /\ done' = FALSE
  /\ Goes(u, [at |-> "start", ch |-> ch])
  /\ UNCHANGED <<feature, cfg, gc, conv, coco, value, buffered, scan, buf, answer,
                 phase, mishaps>>

\* Writing HC0 aborts a conversion and clears COCO.
StartConversion(u) ==
  /\ pc[u].at = "start"
  /\ conv' = pc[u].ch /\ coco' = None
  /\ Goes(u, [at |-> "wait", ch |-> pc[u].ch])
  /\ UNCHANGED <<feature, cfg, gc, value, done, mlock, buffered, scan, buf, answer,
                 phase, calls, mishaps>>

ReadEnds(u) ==
  /\ pc[u].at = "wait" /\ done
  /\ done' = FALSE
  /\ answer' = [asked |-> pc[u].ch, got |-> value]
  /\ Goes(u, Idle)
  /\ mlock' = Nobody
  /\ UNCHANGED <<feature, cfg, gc, conv, coco, value, buffered, scan, buf, phase,
                 calls, mishaps>>

\* A signal or the timeout; the conversion is left to itself.
GiveUp(u) ==
  /\ pc[u].at = "wait" /\ ~done
  /\ Goes(u, Idle)
  /\ mlock' = Nobody
  /\ mishaps' = mishaps \cup {"abandoned"}
  /\ UNCHANGED <<feature, cfg, gc, conv, coco, value, done, buffered, scan, buf,
                 answer, phase, calls>>

-----------------------------------------------------------------------------
(* The converter and the interrupt                                         *)

ConversionEnds ==
  /\ conv # None /\ coco = None
  /\ coco' = conv
  /\ conv' = IF gc.adcon THEN conv ELSE None
  /\ UNCHANGED <<feature, cfg, gc, value, done, mlock, buffered, scan, buf, pc,
                 answer, phase, calls, mishaps>>

vf610_adc_isr ==
  /\ coco # None
  /\ value' = coco /\ coco' = None
  /\ IF buffered THEN buf' = coco /\ UNCHANGED done ELSE done' = TRUE /\ UNCHANGED buf
  /\ UNCHANGED <<feature, cfg, gc, conv, mlock, buffered, scan, pc, answer, phase,
                 calls, mishaps>>

-----------------------------------------------------------------------------
(* The buffer, and power management                                        *)

\* The IIO core has changed the mode when postenable is called, under mlock.
EnableBuffer(u, ch) ==
  /\ Call(u) /\ Lock(u)
  /\ ~buffered
  /\ buffered' = TRUE /\ scan' = ch /\ buf' = None
  /\ Goes(u, [at |-> "enable", gc |-> gc])
  /\ UNCHANGED <<feature, cfg, gc, conv, coco, value, done, answer, phase, mishaps>>

\* Mutant: the conversions are not made continuous.
PostEnableOnce(u) ==
  /\ pc[u].at = "enable"
  /\ conv' = scan /\ coco' = None
  /\ Goes(u, Idle) /\ mlock' = Nobody
  /\ mishaps' = mishaps \ {"mode", "resume"}
  /\ UNCHANGED <<feature, cfg, gc, value, done, buffered, scan, buf, answer, phase,
                 calls>>

PostEnable(u) ==
  /\ pc[u].at = "enable"
  /\ gc' = [pc[u].gc EXCEPT !.adcon = TRUE]
  /\ conv' = scan /\ coco' = None
  /\ Goes(u, Idle) /\ mlock' = Nobody
  /\ mishaps' = (mishaps \ {"mode", "resume"}) \cup Lost(cfg, pc[u].gc)
  /\ UNCHANGED <<feature, cfg, value, done, buffered, scan, buf, answer, phase, calls>>

DisableBuffer(u) ==
  /\ Call(u) /\ Lock(u)
  /\ buffered
  /\ Goes(u, [at |-> "disable", gc |-> gc])
  /\ UNCHANGED <<feature, cfg, gc, conv, coco, value, done, buffered, scan, buf,
                 answer, phase, mishaps>>

\* Mutant: HC0 is not written, so that the conversions go on.
PreDisableGcOnly(u) ==
  /\ pc[u].at = "disable"
  /\ gc' = [pc[u].gc EXCEPT !.adcon = FALSE]
  /\ buffered' = FALSE /\ scan' = None /\ buf' = None
  /\ Goes(u, Idle) /\ mlock' = Nobody
  /\ mishaps' = mishaps \cup Lost(cfg, pc[u].gc)
  /\ UNCHANGED <<feature, cfg, conv, coco, value, done, answer, phase, calls>>

\* predisable, after which the IIO core changes the mode back and drops the samples.
PreDisable(u) ==
  /\ pc[u].at = "disable"
  /\ gc' = [pc[u].gc EXCEPT !.adcon = FALSE]
  /\ conv' = None /\ coco' = None
  /\ buffered' = FALSE /\ scan' = None /\ buf' = None
  /\ Goes(u, Idle) /\ mlock' = Nobody
  /\ mishaps' = mishaps \cup Lost(cfg, pc[u].gc)
  /\ UNCHANGED <<feature, cfg, value, done, answer, phase, calls>>

ReadBuffer ==
  /\ buf # None
  /\ buf' = None
  /\ UNCHANGED <<feature, cfg, gc, conv, coco, value, done, mlock, buffered, scan, pc,
                 answer, phase, calls, mishaps>>

\* Processes are frozen before; a read that waits is interrupted.
Suspend ==
  /\ phase = "on" /\ calls < MaxCalls
  /\ \A u \in Users : pc[u] = Idle
  /\ conv' = None /\ coco' = None
  /\ phase' = "suspended" /\ calls' = calls + 1
  /\ UNCHANGED <<feature, cfg, gc, value, done, mlock, buffered, scan, buf, pc,
                 answer, mishaps>>

\* HC0 stays as suspend has left it, and GC loses ADCON.
Resume ==
  /\ phase = "suspended"
  /\ cfg' = InitCfg(feature) /\ gc' = InitGc(feature)
  /\ phase' = "on"
  /\ mishaps' = mishaps \cup (IF buffered THEN {"resume"} ELSE {})
  /\ UNCHANGED <<feature, conv, coco, value, done, mlock, buffered, scan, buf, pc,
                 answer, calls>>

\* Regulator or clock cannot be enabled: registers that have no clock are not followed.
ResumeFails ==
  /\ phase = "suspended"
  /\ phase' = "failed"
  /\ UNCHANGED <<feature, cfg, gc, conv, coco, value, done, mlock, buffered, scan, buf, pc,
                 answer, calls, mishaps>>

-----------------------------------------------------------------------------

Settings(u) == SampleRead(u) \/ SampleWrite(u) \/ PowerRead(u) \/ SetPower(u)
Reads(u) == StartConversion(u) \/ ReadEnds(u)
Buffer(u) == PostEnable(u) \/ PreDisable(u)
Proceed(u) == Settings(u) \/ Reads(u) \/ Buffer(u)

Calls(u) ==
  \/ \E rate \in SampleRates : SetFrequency(u, rate)
  \/ \E mode \in conv_modes : SetMode(u, mode)
  \/ \E ch \in Channels : ReadRaw(u, ch) \/ EnableBuffer(u, ch)
  \/ DisableBuffer(u)

Next ==
  \/ \E u \in Users : Calls(u) \/ Proceed(u) \/ GiveUp(u)
  \/ ConversionEnds \/ vf610_adc_isr
  \/ ReadBuffer \/ Suspend \/ Resume \/ ResumeFails

\* Conversions end, their interrupts are handled, and a call that runs goes on.
Fairness ==
  /\ WF_vars(ConversionEnds) /\ WF_vars(vf610_adc_isr)
  /\ \A u \in Users : WF_vars(Proceed(u))

Spec == Init /\ [][Next]_vars /\ Fairness

-----------------------------------------------------------------------------
(* Properties                                                              *)

\* A read returns, and the buffer holds, samples of the channel that was asked for,
\* as long as no earlier read has given up a conversion that still runs: its interrupt
\* completes whoever waits next.  Nor when ADCON was lost or brought back by a frequency.
ValueIsOfItsChannel ==
  mishaps \cap {"abandoned", "lost"} = {} =>
    answer.got = answer.asked /\ buf \in {None, scan}

Quiet == \A u \in Users : pc[u].at \notin {"read", "sample", "sampled", "power"}

\* What vf610_adc_calculate_rates determines for a mode is within the specification: a
\* clock that does not exceed the limit of the mode, and a sampling time that is long
\* enough, if 25 cycles are; if not, that of an earlier mode remains.
RatesWithinSpecification ==
  /\ MaxAdckRate[feature.mode] > 0 =>
       IpgRate \div feature.clk_div <= MaxAdckRate[feature.mode]
  /\ lst_adder[feature.adder] > LeastAdder(feature.clk_div) \/ LeastAdder(feature.clk_div) >= 25

\* Between calls the registers select what was determined last and what the settings ask
\* for, whatever order settings and suspends came in.  Not when a frequency was written
\* while the registers changed under it ("lost").  A divider above 16 and a sampling
\* time of 25 cycles are excluded by the formula: the driver programs 1 and 21
\* (RegistersAsDetermined).
ConfiguredAsAsked ==
  Quiet /\ phase = "on" /\ "lost" \notin mishaps =>
    /\ RatesWithinSpecification
    /\ cfg.div = feature.clk_div \/ feature.clk_div > 16
    /\ Cycles(cfg.adder) = lst_adder[feature.adder] \/ lst_adder[feature.adder] = 25
    /\ gc.avgen = (feature.rate > 0) /\ cfg.avgs = Averages(feature.rate)
    /\ cfg.power = feature.mode

\* Divider and sampling time are programmed as determined, for every clock, limit and
\* sampling time: "calculate clk divider which is within specification", "Set ADLSMP
\* and ADSTS based on the Long Sample Time Adder value determined".
RegistersAsDetermined ==
  Quiet /\ phase = "on" /\ "lost" \notin mishaps =>
    cfg.div = feature.clk_div /\ Cycles(cfg.adder) = lst_adder[feature.adder]

\* As long as the buffer is enabled, samples keep arriving in it, unless the mode has
\* been changed or the system suspended since it was enabled, or ADCON was lost, or the
\* device could not be resumed.
BufferFlows ==
  []<>(buf # None \/ ~buffered \/ phase # "on"
       \/ mishaps \cap {"lost", "mode", "resume"} # {})
====================================================================================
