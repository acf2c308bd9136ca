----------------------------------- MODULE Rngc -----------------------------------
(***************************************************************************)
(* The driver of the hardware random number generator (10.rng/hw_rngc):    *)
(* probe runs a self test, the hwrng core initialises the generator as     *)
(* often as it is selected.  Both start an operation, and wait for a       *)
(* completion with a timeout; the interrupt handler saves the error        *)
(* register, masks the interrupt and completes.                            *)
(***************************************************************************)
EXTENDS Integers

CONSTANT MaxOps  \* bound: operations started on the hardware

ASSUME RngcAssumption == MaxOps \in Nat

VARIABLES
  step,        \* where the thread in probe, or in init, is
  ret,         \* what self test or init returned
  masked,      \* MASK_DONE and MASK_ERROR in the control register
  ctrl,        \* init's copy of these bits while it sets AUTO_SEED
  op,          \* the operation the hardware is working on
  hwError,     \* the error register
  hwStatus,    \* the status register: SEED_DONE or ST_DONE is set, for good
  intr,        \* the hardware asserts its interrupt
  isr,         \* where the interrupt handler is
  seen,        \* the handler's copy of it
  errReg,      \* rngc->err_reg
  completions, \* rng_op_done.done
  ops,         \* operations started so far
  timeouts,    \* waits that have timed out
  \* What an observer notes; operations are numbered as they are started:
  intrOf,      \* the last operation that the hardware finished
  served,      \* the operation of the last interrupt handled: err_reg is its verdict
  stray        \* completions made that are not of the operation waited for

rngcVars == <<step, ret, masked, ctrl, op, hwError, hwStatus, intr, isr, seen, errReg,
              completions, ops, timeouts, intrOf, served, stray>>

Errors == {"none", "stat", "other"}

RngcInit ==
  /\ step = "probe"
  /\ ret = "none"
  /\ masked = TRUE /\ ctrl = TRUE
  /\ op = "none" /\ hwError = "none" /\ hwStatus = "none" /\ intr = FALSE
  /\ isr = "idle" /\ seen = "none"
  /\ errReg = "none"
  /\ completions = 0
  /\ ops = 0 /\ timeouts = 0
  /\ intrOf = 0 /\ served = 0 /\ stray = 0

hardware == <<op, hwError, hwStatus, intr, intrOf>>
isrState == <<isr, seen, errReg, served, stray>>
\* What the thread leaves alone.
others == <<isrState, hwStatus, intrOf>>

\* imx_rngc_irq_mask_clear: mask, and clear interrupt and error.
MaskClear == masked' = TRUE /\ intr' = FALSE /\ hwError' = "none"

\* An operation is written to the command register.
Start(o) ==
  /\ ops < MaxOps
  /\ ops' = ops + 1
  /\ op' = o

-----------------------------------------------------------------------------
(* imx_rngc_probe and imx_rngc_self_test                                   *)

\* Without the module parameter self_test probe goes straight to the registration.
SkipSelfTest ==
  /\ step = "probe"
  /\ step' = "registered"
  /\ UNCHANGED <<ret, masked, ctrl, hardware, isrState, completions, ops, timeouts>>

StartSelfTest ==
  /\ step = "probe"
  /\ masked' = FALSE
  /\ Start("selftest")
  /\ step' = "testing"
  /\ UNCHANGED <<ret, ctrl, hwError, intr, others, completions, timeouts>>

\* The wait ends: everything is masked and cleared, the verdict is in err_reg.
SelfTestDone ==
  /\ step = "testing" /\ completions > 0
  /\ completions' = completions - 1
  /\ MaskClear
  /\ step' = "tested"
  /\ UNCHANGED <<ret, ctrl, op, others, ops, timeouts>>

SelfTestVerdict ==
  /\ step = "tested"
  /\ ret' = IF errReg = "none" THEN "ok" ELSE "EIO"
  /\ step' = IF errReg = "none" THEN "registered" ELSE "failed"
  /\ UNCHANGED <<masked, ctrl, hardware, isrState, completions, ops, timeouts>>

\* An interrupt that can be delivered is delivered long before three seconds pass;
\* what a timeout can race with is the handler on another processor.
MayTimeOut == completions = 0 /\ ~(intr /\ ~masked)

SelfTestTimeout ==
  /\ step = "testing" /\ MayTimeOut
  /\ MaskClear
  /\ ret' = "ETIMEDOUT"
  /\ step' = "failed"
  /\ timeouts' = timeouts + 1
  /\ UNCHANGED <<ctrl, op, others, completions, ops>>

-----------------------------------------------------------------------------
(* imx_rngc_init and imx_rngc_cleanup, called by the hwrng core            *)

\* CLR_ERR, then the interrupt is unmasked, once for all rounds of the loop.
InitUnmask ==
  /\ step = "registered"
  /\ step' = "seed"
  /\ ret' = "none"
  /\ hwError' = "none" /\ intr' = (intr /\ hwError = "none")
  /\ masked' = FALSE
  /\ UNCHANGED <<ctrl, op, others, completions, ops, timeouts>>

StartSeed ==
  /\ step = "seed"
  /\ Start("seed")
  /\ step' = "seeding"
  /\ UNCHANGED <<ret, masked, ctrl, hwError, intr, others, completions, timeouts>>

SeedDone ==
  /\ step = "seeding" /\ completions > 0
  /\ completions' = completions - 1
  /\ step' = "seeded"
  /\ UNCHANGED <<ret, masked, ctrl, hardware, isrState, ops, timeouts>>

\* A statistical error repeats the loop, any other error fails.
SeedVerdict ==
  /\ step = "seeded"
  /\ step' = CASE errReg = "stat"  -> "seed"
               [] errReg = "other" -> "initFails"
               [] errReg = "none"  -> "autoSeed"
  /\ ret' = IF errReg = "other" THEN "EIO" ELSE ret
  /\ UNCHANGED <<masked, ctrl, hardware, isrState, completions, ops, timeouts>>

\* Mutant: the wait has no timeout.
SeedWaitsForever == FALSE

SeedTimeout ==
  /\ step = "seeding" /\ MayTimeOut
  /\ ret' = "ETIMEDOUT"
  /\ step' = "initFails"
  /\ timeouts' = timeouts + 1
  /\ UNCHANGED <<masked, ctrl, hardware, isrState, completions, ops>>

\* err: mask and return; the core may select the generator again.
InitFails ==
  /\ step = "initFails"
  /\ MaskClear
  /\ step' = "registered"
  /\ UNCHANGED <<ret, ctrl, op, others, completions, ops, timeouts>>

\* AUTO_SEED is set by reading and writing back the control register, which holds
\* the mask bits as well.
AutoSeedRead ==
  /\ step = "autoSeed"
  /\ ctrl' = masked
  /\ step' = "autoSeedWrite"
  /\ UNCHANGED <<ret, masked, hardware, isrState, completions, ops, timeouts>>

AutoSeedWrite ==
  /\ step = "autoSeedWrite"
  /\ masked' = ctrl
  /\ ret' = "ok"
  /\ step' = "ready"
  /\ UNCHANGED <<ctrl, hardware, isrState, completions, ops, timeouts>>

\* imx_rngc_cleanup: another generator is selected.
Cleanup ==
  /\ step = "ready"
  /\ MaskClear
  /\ step' = "registered"
  /\ UNCHANGED <<ret, ctrl, op, others, completions, ops, timeouts>>

-----------------------------------------------------------------------------
(* The hardware and imx_rngc_irq                                           *)

caller == <<step, ret, ctrl, ops, timeouts>>

\* The hardware finishes its operation, or does not; then it asserts the interrupt.
\* An operation that fails may end without being done.
HwFinish(e) ==
  /\ op # "none"
  /\ op' = "none"
  /\ hwError' = e
  /\ hwStatus' \in {"done"} \cup (IF e = "none" THEN {} ELSE {hwStatus})
  /\ intr' = TRUE /\ intrOf' = ops
  /\ UNCHANGED <<caller, masked, isrState, completions>>

\* Status and error register are read before they are cleared.
IrqRead ==
  /\ isr = "idle" /\ intr /\ ~masked
  /\ seen' = hwStatus
  /\ errReg' = hwError /\ served' = intrOf
  /\ isr' = "read"
  /\ UNCHANGED <<caller, masked, hardware, completions, stray>>

\* Mutant: the handler leaves the interrupt unmasked.
IrqClearOnly ==
  /\ isr = "read"
  /\ intr' = FALSE /\ hwError' = "none"
  /\ isr' = "cleared"
  /\ UNCHANGED <<caller, masked, op, hwStatus, intrOf, seen, errReg, completions, served,
                 stray>>

IrqMaskClear ==
  /\ isr = "read"
  /\ MaskClear
  /\ isr' = "cleared"
  /\ UNCHANGED <<caller, op, hwStatus, intrOf, seen, errReg, completions, served, stray>>

Waiting == step \in {"testing", "seeding"}

\* Only an operation that is done is completed.
IrqComplete ==
  /\ isr = "cleared"
  /\ completions' = IF seen = "done" THEN completions + 1 ELSE completions
  /\ stray' = IF seen = "done" /\ ~(Waiting /\ served = ops) THEN stray + 1 ELSE stray
  /\ isr' = "idle"
  /\ UNCHANGED <<caller, masked, hardware, seen, errReg, served>>

-----------------------------------------------------------------------------
DriverStep ==
  \/ SkipSelfTest \/ StartSelfTest \/ SelfTestDone \/ SelfTestVerdict
  \/ SelfTestTimeout \/ InitUnmask \/ StartSeed \/ SeedDone \/ SeedVerdict
  \/ SeedTimeout \/ InitFails \/ AutoSeedRead \/ AutoSeedWrite \/ Cleanup

Irq == IrqRead \/ IrqMaskClear \/ IrqComplete

RngcNext == DriverStep \/ Irq \/ \E e \in Errors : HwFinish(e)

\* The thread runs, its waits time out, interrupts are delivered. The hardware may
\* never finish.
RngcFairness == WF_rngcVars(DriverStep) /\ WF_rngcVars(Irq)

RngcSpec == RngcInit /\ [][RngcNext]_rngcVars /\ RngcFairness

-----------------------------------------------------------------------------
(* Properties                                                              *)

\* The type invariant: every completion not yet waited for (rng_op_done) is that of a
\* wait that has timed out, but for the one under way.
RngcTypeOK ==
  /\ step \in {"probe", "testing", "tested", "registered", "seed", "seeding", "seeded",
               "initFails", "autoSeed", "autoSeedWrite", "ready", "failed"}
  /\ ret \in {"none", "ok", "EIO", "ETIMEDOUT"}
  /\ masked \in BOOLEAN /\ ctrl \in BOOLEAN
  /\ op \in {"none", "selftest", "seed"}
  /\ hwError \in Errors /\ hwStatus \in {"none", "done"} /\ intr \in BOOLEAN
  /\ isr \in {"idle", "read", "cleared"} /\ seen \in {"none", "done"}
  /\ errReg \in Errors
  /\ ops \in 0..MaxOps
  /\ timeouts \in 0..ops
  /\ completions \in 0..timeouts + 1
  /\ intrOf \in 0..ops /\ served \in 0..intrOf /\ stray \in Nat

\* The verdict that imx_rngc_self_test and imx_rngc_init read from err_reg is that of
\* the operation they waited for, and no interrupt can overwrite it, whatever handlers
\* of waits given up before are still about, until one of them completes.  That needs a
\* timeout; nothing resets rng_op_done, so the stray completion ends the next wait at
\* once, and from then on each wait may end one operation too early.
VerdictIsFinal ==
  /\ step \in {"tested", "seeded"} /\ stray = 0 =>
       masked /\ isr = "idle" /\ op = "none" /\ served = ops
  /\ stray > 0 => timeouts > 0

\* While the generator is not in use nothing it does can interrupt, although init
\* fails in several ways and writes the mask bits back when it sets AUTO_SEED.
MaskedWhenUnused == step \in {"probe", "registered", "failed"} => masked

\* probe and init return whatever the hardware does, or does not do (the second
\* disjunct is the bound: a round of the loop that may not be started).
WaitEnds ==
  step \in {"testing", "seeding"}
    ~> (step \in {"ready", "registered", "failed"} \/ (step = "seed" /\ ops = MaxOps))

\* imx_rngc_init: "create seed, repeat while there is some statistical error": what
\* makes init time out is a seed that has not been finished, or was not done.
RepeatedOnError ==
  [][step = "seeding" /\ ret' = "ETIMEDOUT"
       => op # "none" \/ isr # "idle" \/ hwStatus = "none"]_rngcVars
=============================================================================
