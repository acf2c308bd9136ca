------------------------------ MODULE SessionDrivers -------------------------------
(***************************************************************************)
(* The table of module ProbeLadder for what bound drivers take and give    *)
(* back again: one entry per pair of functions (setup and exit, open and   *)
(* close, suspend and resume) or per call that must end as it began.  The  *)
(* first of the pair stands for probe and the second for remove; nothing   *)
(* is managed.  A state that must be undone (an interrupt that is off, a   *)
(* line that is driven) is a resource like a clock that is on.             *)
(***************************************************************************)
EXTENDS DriverSteps

Session(steps, stop) == Driver(steps, stop, Nothing)
\* A call that gives back what it takes before it returns.
Call(steps) == Session(steps, <<>>)

-----------------------------------------------------------------------------
(* flexcan                                                                 *)

flexcan_clks == Session(<<Own("ipg", <<>>), Own("per", <<"ipg">>)>>, <<"per", "ipg">>)

\* On success the module is disabled again and pm_runtime_put stops the clocks.
register_flexcandev ==
  LET off == <<"module", "clks">>
  IN  Session(<<Own("clks", <<>>), Try("disable", <<"clks">>), Sure(Own("module", <<>>)),
                Try("enable", off), Try("freeze", off), Try("fifo", off),
                Own("candev", off), Drop("module"), Drop("clks")>>,
              <<"candev">>)

\* Only the error path puts the node.
flexcan_stop_mode ==
  Session(<<Try("property", <<>>), Own("gpr", <<>>), Try("regmap", <<"gpr">>)>>, <<>>)

-----------------------------------------------------------------------------
(* The i.MX UART                                                           *)

\* imx_uart_dma_exit looks at what there is.
imx_uart_dma ==
  LET bus == <<"qos", "bus">>
  IN  Session(<<Sure(Own("bus", <<>>)), Sure(Own("qos", <<>>)), Own("rx", bus),
                Try("rxConfig", <<"rx">> \o bus), Own("rxBuf", <<"rx">> \o bus),
                Own("tx", <<"rx", "rxBuf">> \o bus),
                Try("txConfig", <<"rx", "rxBuf", "tx">> \o bus)>>,
              <<"rx", "rxBuf", "tx">> \o bus)

imx_uart_console ==
  Session(<<Own("ipg", <<>>), Try("options", <<"ipg">>), Own("per", <<"ipg">>)>>,
          <<"per", "ipg">>)

\* Without its second clock the port is used all the same; nothing undoes this call.
imx_uart_poll_init == Call(<<Own("ipg", <<>>), Binds(Own("per", <<"ipg">>))>>)

imx_uart_suspend ==
  Session(<<Sure(Own("portOff", <<>>)), Sure(Own("irqOff", <<>>)), Own("ipg", <<>>)>>,
          <<"portOff", "irqOff", "ipg">>)

imx_uart_freeze ==
  Session(<<Sure(Own("portOff", <<>>)), Own("ipg", <<>>)>>, <<"portOff", "ipg">>)

-----------------------------------------------------------------------------
(* The camera                                                              *)

\* The first open and the last close; a failure keeps the count, so that the next open
\* finds the device in use.
mx6s_csi_open ==
  Session(<<Sure(Own("count", <<>>)), Own("queue", <<>>), Sure(Own("pm", <<>>)),
            Sure(Own("bus", <<>>)), Ignored(Own("power", <<>>)), Sure(Own("csi", <<>>))>>,
          <<"count", "queue", "csi", "power", "bus", "pm">>)

mx6s_stream ==
  Session(<<Own("stream", <<>>), Ignored(Own("sensor", <<>>))>>, <<"stream", "sensor">>)

-----------------------------------------------------------------------------
(* Thermal                                                                 *)

imx_get_temp == Call(<<Own("pm", <<>>), Try("valid", <<>>), Drop("pm")>>)

imx_set_trip_temp ==
  Call(<<Own("pm", <<>>), Try("range", <<>>), Try("limit", <<>>), Drop("pm")>>)

\* Suspend, then resume.
imx_thermal_sleep ==
  Call(<<Own("zoneOff", <<>>), Own("suspended", <<>>), Try("resume", <<>>),
         Drop("suspended"), Try("enable", <<>>), Drop("zoneOff")>>)

\* A runtime suspend that is refused leaves the device on.
imx_thermal_runtime ==
  Session(<<Own("clk", <<>>), Try("powerUp", <<>>), Try("measure", <<>>)>>, <<"clk">>)

-----------------------------------------------------------------------------
(* The goodix touch screen                                                 *)

\* Suspend, then resume, of a controller whose interrupt pin the driver can drive.
goodix_sleep ==
  Call(<<Sure(Own("irqFreed", <<>>)), Own("intDriven", <<"irqFreed">>),
         Try("screenOff", <<"intDriven", "irqFreed">>), Try("wake", <<>>),
         Try("sync", <<>>), Drop("intDriven"), Try("reset", <<>>), Try("config", <<>>),
         Try("irq", <<>>), Drop("irqFreed")>>)

\* The reset leaves the interrupt pin driven, the upload mode the processors held.
goodix_firmware_upload ==
  Call(<<Own("fw", <<>>), Try("verify", <<"fw">>), Sure(Own("intDriven", <<>>)),
         Try("reset", <<"fw">>), Sure(Own("cpuHeld", <<>>)), Try("mode", <<"fw">>),
         Try("upload", <<"fw">>), Try("start", <<"fw">>), Drop("cpuHeld"),
         Try("sync", <<"fw">>), Drop("intDriven"), Drop("fw")>>)

-----------------------------------------------------------------------------
(* The clocks of a pwm that is switched on and off                         *)

pwm_clk == Session(<<Own("ipg", <<>>), Own("per", <<"ipg">>)>>, <<"per", "ipg">>)

\* With the third clock, which not every device has.
pwm_imx27_clk ==
  Session(<<Own("32k", <<>>), Own("ipg", <<"32k">>), Own("per", <<"ipg", "32k">>)>>,
          <<"per", "ipg", "32k">>)

SessionTable ==
  "flexcan_clks" :> flexcan_clks @@ "register_flexcandev" :> register_flexcandev @@
  "flexcan_stop_mode" :> flexcan_stop_mode @@ "imx_uart_dma" :> imx_uart_dma @@
  "imx_uart_console" :> imx_uart_console @@
  "imx_uart_poll_init" :> imx_uart_poll_init @@
  "imx_uart_suspend" :> imx_uart_suspend @@ "imx_uart_freeze" :> imx_uart_freeze @@
  "mx6s_csi_open" :> mx6s_csi_open @@ "mx6s_stream" :> mx6s_stream @@
  "imx_get_temp" :> imx_get_temp @@ "imx_set_trip_temp" :> imx_set_trip_temp @@
  "imx_thermal_sleep" :> imx_thermal_sleep @@
  "imx_thermal_runtime" :> imx_thermal_runtime @@ "goodix_sleep" :> goodix_sleep @@
  "goodix_firmware_upload" :> goodix_firmware_upload @@ "pwm_clk" :> pwm_clk @@
  "pwm_imx27_clk" :> pwm_imx27_clk

-----------------------------------------------------------------------------
(* What these functions are known to do wrong.                             *)

\* A call that fails midway returns without undoing what it did; nothing ever undoes
\* poll_init or puts the node of the stop mode.
SessionLeaks ==
  {<<"flexcan_stop_mode", "gpr">>, <<"imx_uart_poll_init", "ipg">>,
   <<"imx_uart_poll_init", "per">>, <<"imx_uart_suspend", "portOff">>,
   <<"imx_uart_suspend", "irqOff">>, <<"imx_uart_freeze", "portOff">>,
   <<"mx6s_csi_open", "count">>, <<"imx_get_temp", "pm">>,
   <<"imx_set_trip_temp", "pm">>, <<"imx_thermal_sleep", "zoneOff">>,
   <<"imx_thermal_sleep", "suspended">>, <<"imx_thermal_runtime", "clk">>,
   <<"goodix_sleep", "irqFreed">>, <<"goodix_sleep", "intDriven">>,
   <<"goodix_firmware_upload", "intDriven">>, <<"goodix_firmware_upload", "cpuHeld">>}

\* The results of the sensor's operations are not looked at.
SessionDoubles == {<<"mx6s_csi_open", "power">>, <<"mx6s_stream", "sensor">>}

SessionMissing ==
  {<<"imx_uart_poll_init", "ipg">>, <<"imx_uart_poll_init", "per">>,
   <<"mx6s_csi_open", "power">>, <<"mx6s_stream", "sensor">>}
====================================================================================
