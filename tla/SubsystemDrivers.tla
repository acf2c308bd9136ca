---------------------------- MODULE SubsystemDrivers -----------------------------
(***************************************************************************)
(* The table of module ProbeLadder for the drivers that register with a    *)
(* subsystem of the kernel: input, IIO, RTC, hwrng, nvmem, block, thermal, *)
(* pwm, watchdog, DRM, serial, net and V4L2.                               *)
(***************************************************************************)
EXTENDS DriverSteps

-----------------------------------------------------------------------------
(* Input, IIO, RTC, random numbers                                         *)

key_input ==
  Driver(<<Chip, Devm("inputdev", <<>>), Devm("input", <<>>), Ready("timer"),
           Devm("gpio", <<>>), Try("irqnum", <<>>), Devm("irq", <<>>)>>,
         <<"timer">>,
         "irq" :> {"chip", "timer", "gpio", "inputdev"})

\* Clock and reference voltage are switched on by hand, everything else is managed.
iio_adc ==
  LET on == <<"clkOn", "vrefOn">>
  IN  Driver(<<Chip, Devm("regs", <<>>), Try("irqnum", <<>>), Devm("irq", <<>>),
               Devm("clk", <<>>), Devm("vref", <<>>), Own("vrefOn", <<>>),
               Ready("completion"), Own("clkOn", <<"vrefOn">>), Devm("buffer", on),
               Devm("iio", on)>>,
             <<"vrefOn", "clkOn">>,
             "iio" :> {"chip", "regs", "clkOn", "vrefOn", "completion"} @@
             "irq" :> {"chip", "regs", "completion"})

\* The results of both devm_gpiod_get come after the registration and are not tested.
iio_hx711 ==
  Driver(<<Chip, Devm("iio", <<>>), Ignored(Devm("sck", <<>>)),
           Ignored(Devm("sda", <<>>))>>,
         <<>>,
         "iio" :> {"chip", "sck", "sda"})

rtcSteps ==
  <<Try("reset", <<>>), Devm("rtcdev", <<>>), Devm("rtc", <<>>), Devm("gpio", <<>>),
    Try("irqnum", <<>>), Devm("irq", <<>>)>>

bus_rtc ==
  Driver(<<Chip>> \o rtcSteps, <<>>,
         "rtc" :> {"chip", "rtcdev"} @@ "irq" :> {"chip", "rtcdev"})

regmap_rtc ==
  Driver(<<Chip, Devm("regmap", <<>>)>> \o rtcSteps, <<>>,
         "rtc" :> {"chip", "regmap", "rtcdev"} @@ "irq" :> {"chip", "regmap", "rtcdev"})

sf_rng == Driver(<<Chip, Devm("hwrng", <<>>)>>, <<>>, "hwrng" :> {"chip"})

imx_rng ==
  Driver(<<Chip, Devm("regs", <<>>), Devm("clk", <<>>), Try("irqnum", <<>>),
           Try("version", <<>>), Ready("completion"), Devm("irq", <<>>),
           Try("selftest", <<>>), Devm("hwrng", <<>>)>>,
         <<>>,
         "irq" :> {"chip", "regs", "completion"} @@
         "hwrng" :> {"chip", "regs", "clk", "irq", "completion"})

\* devm_kzalloc returns NULL, and the code tests IS_ERR.
nvmem ==
  Driver(<<Chip, Ready("lock"), Ignored(Devm("buffer", <<>>)), Devm("nvmem", <<>>)>>,
         <<>>,
         "nvmem" :> {"chip", "lock", "buffer"})

\* The ladder gives back the managed cell by hand with the call that devres is not
\* told of, while the first attribute that reads it is still there.
nvmem_ref ==
  Driver(<<Chip, Own("user_cell", <<>>), Devm("cell", <<"user_cell">>),
           Own("uid_high", <<"cell", "user_cell">>),
           Own("uid_low", <<"uid_high", "cell", "user_cell">>)>>,
         <<"user_cell", "uid_high", "uid_low">>,
         "user_cell" :> {"chip", "cell"} @@ "uid_high" :> {"chip"} @@
         "uid_low" :> {"chip"})

-----------------------------------------------------------------------------
(* Block devices: init and exit of the two modules                         *)

ram_disk ==
  Driver(<<Own("major", <<>>), Own("disk", <<"major">>), Ready("lock"),
           Own("mem", <<"disk", "major">>), Own("gendisk", <<"mem", "disk", "major">>)>>,
         <<"gendisk", "disk", "major", "mem">>,
         "gendisk" :> {"disk", "mem", "lock"})

\* blk_mq_alloc_disk returns an error pointer, and the code tests for NULL.
ram_disk_queue ==
  Driver(<<Own("major", <<>>), Own("mem", <<"major">>), Ready("lock"),
           Own("tags", <<"mem", "major">>), Ignored(Own("disk", <<>>)),
           Own("gendisk", <<"disk", "tags", "mem", "major">>)>>,
         <<"gendisk", "disk", "tags", "mem", "major">>,
         "gendisk" :> {"disk", "mem", "tags", "lock"})

-----------------------------------------------------------------------------
(* Touch screens and joystick                                              *)

touchSteps ==
  <<Devm("reset", <<>>), Devm("int", <<>>), Try("firmware", <<>>), Devm("irq", <<>>),
    Devm("inputdev", <<>>), Try("slots", <<>>), Devm("input", <<>>)>>

\* The threaded handler reports to an input device allocated after it was requested
\* and freed before it is.
goodix_i2c ==
  [Driver(<<Chip>> \o touchSteps, <<"input">>, "irq" :> {"chip", "inputdev"})
     EXCEPT !.aware = {"input"}]

goodix_regmap ==
  [Driver(<<Chip, Devm("regmap", <<>>)>> \o touchSteps, <<"input">>,
          "irq" :> {"chip", "regmap", "inputdev"})
     EXCEPT !.aware = {"input"}]

\* goodix_configure_dev: the input devices, then the interrupt.
goodix_configure_dev ==
  <<Devm("inputdev", <<>>), Try("config", <<>>), Devm("input", <<>>), Devm("pen", <<>>),
    Devm("irq", <<>>)>>

\* Without a configuration on disk: everything happens in probe.
goodix ==
  LET power == <<"vddio", "avdd28">>
  IN  [Driver(<<Chip, Devm("gpios", <<>>), Own("avdd28", <<>>),
                Own("vddio", <<"avdd28">>), Devm("action", power), Try("test", <<>>),
                Try("firmware", <<>>), Try("version", <<>>)>>
              \o goodix_configure_dev,
              <<>>,
              "irq" :> {"chip", "gpios", "avdd28", "vddio", "inputdev", "pen"})
         EXCEPT !.also = "action" :> {"vddio", "avdd28"}]

\* A joystick whose channels are buffered, not polled.
adc_joystick ==
  [Driver(<<Chip, Devm("chans", <<>>), Try("interval", <<>>), Devm("inputdev", <<>>),
            Try("count", <<>>), Devm("axes", <<>>), Try("children", <<>>),
            Own("cb", <<>>), Devm("cbAction", <<"cb">>), Devm("input", <<>>)>>,
          <<>>,
          "input" :> {"chip", "chans", "inputdev", "axes", "cb"})
     EXCEPT !.also = "cbAction" :> {"cb"}]

-----------------------------------------------------------------------------
(* Thermal, fans, pwm, backlight, watchdog                                 *)

thermal_fan ==
  Driver(<<Chip, Devm("pwm", <<>>), Try("count", <<>>), Devm("levels", <<>>),
           Try("range", <<>>), Devm("cooling", <<>>)>>,
         <<>>,
         "cooling" :> {"chip", "pwm", "levels"})

\* parse_thermal_dts, with one trip: of_find_node_by_name puts the node it starts
\* from, the returns in the loop keep the nodes, the cooling device is never put.
parse_thermal_dts ==
  <<Devm("chans", <<>>), Drop("devNode"), Own("mapNode", <<>>), Try("trips", <<>>),
    Devm("param", <<>>), Sure(Own("tripNode", <<>>)), Try("temperature", <<>>),
    Own("cooling", <<>>), Try("cells", <<>>), Drop("tripNode"), Drop("mapNode")>>

\* When the zone cannot be enabled probe unregisters it and returns 0.
thermal_sensor ==
  Driver(<<Chip>> \o parse_thermal_dts \o
         <<Own("tz", <<>>), Binds(Try("enable", <<"tz">>))>>,
         <<"tz">>,
         "tz" :> {"chip", "chans", "param"})

\* imx_thermal_register_legacy_cooling: devfreq defers, or fails.
register_legacy_cooling ==
  <<Own("policy", <<>>), Own("cooling", <<"policy">>), Try("deferred", <<>>),
    Own("devfreq", <<"cooling">>)>>

imx_thermal ==
  LET legacy == <<"cooling", "policy", "devfreq">>
      off    == <<"pm", "clkOn">> \o legacy
  IN  Driver(<<Chip, Try("tempmon", <<>>), Try("irqnum", <<>>), Try("calibration", <<>>)>>
             \o register_legacy_cooling \o
             <<Devm("clk", legacy), Own("clkOn", legacy), Own("tz", <<"clkOn">> \o legacy),
               Sure(Own("pm", <<>>)), Try("resume", off), Try("enable", <<"tz">> \o off),
               Devm("irq", <<"tz">> \o off), Drop("clkOn")>>,
             <<"pm", "tz">> \o legacy,
             "irq" :> {"chip", "tz"})

\* pwm_fan_of_get_cooling_data, then the registration as a cooling device.
coolingSteps ==
  <<Try("count", <<>>), Devm("levels", <<>>), Try("range", <<>>), Devm("cooling", <<>>)>>

\* The levels are allocated last, so devres frees them while hwmon can still be
\* written to, and the tachometers while the timer that samples them is armed.
pwm_fan ==
  [Driver(<<Chip, Ready("lock"), Devm("pwm", <<>>), Optional(Devm("reg_en", <<>>)),
            Own("power", <<>>), Devm("cleanup", <<"power">>), Try("count", <<>>),
            Devm("tachs", <<>>), Devm("channels", <<>>), Devm("irq", <<>>),
            Ready("armed"), Devm("hwmon", <<>>)>> \o coolingSteps,
          <<>>,
          "irq" :> {"tachs"} @@ "armed" :> {"chip", "tachs"} @@
          "hwmon" :> {"chip", "lock", "pwm", "channels", "tachs", "levels"} @@
          "cooling" :> {"chip", "lock", "pwm", "levels"})
     EXCEPT !.also = "cleanup" :> {"power", "armed"}]

kernel_pwm_fan ==
  [Driver(<<Chip, Ready("lock"), Devm("pwm", <<>>), Optional(Devm("reg_en", <<>>)),
            Own("power", <<>>), Devm("cleanup", <<"power">>), Devm("channels", <<>>),
            Devm("hwmon", <<>>)>> \o coolingSteps,
          <<>>,
          "hwmon" :> {"chip", "lock", "pwm", "channels", "levels"} @@
          "cooling" :> {"chip", "lock", "pwm", "levels"})
     EXCEPT !.also = "cleanup" :> {"power"}]

\* The clocks are switched off again unless the pwm runs already.
pwm_imx27 ==
  Driver(<<Chip, Devm("clks", <<>>), Ready("lock"), Devm("regs", <<>>),
           Own("clkOn", <<>>), MayDrop("clkOn"), Devm("pwmchip", <<>>)>>,
         <<>>,
         "pwmchip" :> {"chip", "clks", "lock", "regs"})

pwm_provider ==
  Driver(<<Chip, Devm("clks", <<>>), Own("clkOn", <<>>), Devm("regs", <<>>),
           MayDrop("clkOn"), Devm("pwmchip", <<>>), Ready("lock")>>,
         <<>>,
         "pwmchip" :> {"chip", "clks", "lock", "regs"})

\* Only NULL is tested, devm_gpiod_get returns error pointers.
wdt ==
  Driver(<<Chip, Ignored(Devm("gpio", <<>>)), Devm("wdt", <<>>)>>, <<>>,
         "wdt" :> {"chip", "gpio"})

\* With a device tree node neither missing levels nor a missing pwm end probe.
pwm_bl ==
  Driver(<<Chip, Ignored(Devm("levels", <<>>)), Try("default", <<>>),
           Ignored(Devm("pwm", <<>>)), Own("backlight", <<>>)>>,
         <<"backlight">>,
         "backlight" :> {"chip", "levels", "pwm"})

-----------------------------------------------------------------------------
(* Display, serial, CAN, camera                                            *)

st7789 ==
  LET panelOff == <<"panel", "lock">>
      drmGone  == <<"modes", "drm">> \o panelOff
  IN  Driver(<<Chip, Ready("lock"), Try("setup", <<>>), Devm("dc", <<>>), Devm("rst", <<>>),
               Devm("backlight", <<>>), Try("dt", <<>>), Devm("rowbuf", <<>>),
               Own("panel", <<>>), Own("drm", panelOff), Sure(Own("modes", <<>>)),
               Devm("connector", drmGone), Try("init", drmGone), Try("pipe", drmGone),
               Own("drmdev", drmGone)>>,
             <<"drmdev", "panel", "modes", "drm", "lock">>,
             "drmdev" :> {"chip", "lock", "dc", "rowbuf", "panel", "drm", "modes",
                          "connector"})

\* imx_uart_ports[line] outlives the port it points to.
imx_uart ==
  Driver(<<Chip, Try("alias", <<>>), Devm("regs", <<>>), Try("irqnum", <<>>),
           Ready("timer"), Devm("gpios", <<>>), Devm("clks", <<>>), Own("clkOn", <<>>),
           Try("rs485", <<"clkOn">>), Drop("clkOn"), Ready("hrtimers"), Devm("irq", <<>>),
           Ready("ports"), Own("uart", <<>>)>>,
         <<"uart">>,
         "irq" :> {"chip", "regs"} @@ "ports" :> {"chip"} @@
         "uart" :> {"chip", "regs", "clks", "timer", "gpios", "hrtimers", "irq"})

flexcan ==
  Driver(<<Optional(Devm("xceiver", <<>>)), Devm("clks", <<>>), Try("irqnum", <<>>),
           Devm("regs", <<>>), Try("quirks", <<>>), Own("candev", <<>>),
           Try("irqboff", <<"candev">>), Sure(Own("pm", <<>>)),
           Own("net", <<"pm", "candev">>), Try("stopmode", <<"net", "pm", "candev">>)>>,
         <<"net", "pm", "candev">>,
         "net" :> {"candev", "regs", "clks", "pm"})

\* mx6sx_register_subdevs; its failures keep the async subdevice it has added.
register_subdevs ==
  LET undo == <<"video", "v4l2">>
  IN  <<Try("remote", undo), Own("asd", undo), Own("notifier", undo)>>

\* Unregistering the video device releases it; the notifier's list is cleaned up
\* before the notifier is unregistered.
mx6s_csi ==
  [Driver(<<Chip, Try("resource", <<>>), Devm("regs", <<>>), Devm("clks", <<>>),
            Try("match", <<>>), Own("v4l2", <<>>), Ready("lock"), Own("vdev", <<"v4l2">>),
            Own("video", <<"vdev", "v4l2">>), Devm("irq", <<"video", "v4l2">>)>>
          \o register_subdevs \o <<Sure(Own("pm", <<>>))>>,
          <<"asd", "notifier", "video", "v4l2", "pm">>,
          "video" :> {"chip", "lock", "regs", "clks", "v4l2", "vdev"} @@
          "irq" :> {"chip", "lock", "regs"} @@ "notifier" :> {"asd", "v4l2"})
     EXCEPT !.also = "video" :> {"vdev"}]

SubsystemTable ==
  "key_input" :> key_input @@ "iio_adc" :> iio_adc @@ "iio_hx711" :> iio_hx711 @@
  "bus_rtc" :> bus_rtc @@ "regmap_rtc" :> regmap_rtc @@ "sf_rng" :> sf_rng @@
  "imx_rng" :> imx_rng @@ "nvmem" :> nvmem @@ "nvmem_ref" :> nvmem_ref @@
  "ram_disk" :> ram_disk @@ "ram_disk_queue" :> ram_disk_queue @@
  "goodix_i2c" :> goodix_i2c @@ "goodix_regmap" :> goodix_regmap @@
  "goodix" :> goodix @@ "adc_joystick" :> adc_joystick @@
  "thermal_fan" :> thermal_fan @@ "thermal_sensor" :> thermal_sensor @@
  "imx_thermal" :> imx_thermal @@ "pwm_fan" :> pwm_fan @@
  "kernel_pwm_fan" :> kernel_pwm_fan @@ "pwm_imx27" :> pwm_imx27 @@
  "pwm_provider" :> pwm_provider @@ "wdt" :> wdt @@ "pwm_bl" :> pwm_bl @@
  "st7789" :> st7789 @@ "imx_uart" :> imx_uart @@ "flexcan" :> flexcan @@
  "mx6s_csi" :> mx6s_csi

-----------------------------------------------------------------------------
(* What these drivers are known to do wrong: the hazards of the README.    *)

\* On the error paths of probe only, but for the clock of a pwm that was running when
\* it was probed, and the cooling devices of the sensor's trips.
SubsystemLeaks ==
  {<<"imx_thermal", "policy">>, <<"imx_thermal", "cooling">>, <<"imx_thermal", "tz">>,
   <<"mx6s_csi", "asd">>, <<"pwm_imx27", "clkOn">>, <<"pwm_provider", "clkOn">>,
   <<"thermal_sensor", "cooling">>, <<"thermal_sensor", "mapNode">>,
   <<"thermal_sensor", "tripNode">>}

SubsystemDoubles ==
  {<<"nvmem_ref", "cell">>, <<"ram_disk_queue", "disk">>,
   <<"thermal_sensor", "devNode">>, <<"thermal_sensor", "tz">>}

SubsystemMissing ==
  {<<"iio_hx711", "sck">>, <<"iio_hx711", "sda">>, <<"nvmem", "buffer">>,
   <<"pwm_bl", "levels">>, <<"pwm_bl", "pwm">>, <<"ram_disk_queue", "disk">>,
   <<"thermal_sensor", "tz">>, <<"wdt", "gpio">>}

SubsystemBare ==
  {<<"goodix_i2c", "irq", "inputdev">>, <<"goodix_regmap", "irq", "inputdev">>,
   <<"iio_adc", "iio", "clkOn">>, <<"iio_adc", "iio", "vrefOn">>,
   <<"iio_adc", "irq", "completion">>, <<"iio_hx711", "iio", "sck">>,
   <<"iio_hx711", "iio", "sda">>, <<"imx_thermal", "irq", "tz">>,
   <<"imx_uart", "ports", "chip">>, <<"kernel_pwm_fan", "hwmon", "levels">>,
   <<"key_input", "irq", "timer">>, <<"mx6s_csi", "notifier", "asd">>,
   <<"nvmem", "nvmem", "buffer">>, <<"nvmem_ref", "user_cell", "cell">>,
   <<"pwm_bl", "backlight", "levels">>, <<"pwm_bl", "backlight", "pwm">>,
   <<"pwm_fan", "armed", "tachs">>, <<"pwm_fan", "hwmon", "levels">>,
   <<"pwm_provider", "pwmchip", "lock">>, <<"ram_disk_queue", "gendisk", "disk">>,
   <<"wdt", "wdt", "gpio">>}
==================================================================================
