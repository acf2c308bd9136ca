------------------------------- MODULE CharDrivers -------------------------------
(***************************************************************************)
(* The table of module ProbeLadder for the drivers that serve a device     *)
(* node of their own: what probe takes in its order, what each error path  *)
(* and remove give back, and what the file operations and handlers use.    *)
(***************************************************************************)
EXTENDS DriverSteps

\* led_hardware_init: the LED's gpio, two of the five mapped registers, pinctrl.
led_hardware_init ==
  LET mapped == <<"io0", "io1">>
  IN  <<Devm("gpio", <<>>), Own("io0", <<>>), Own("io1", <<"io0">>),
        Devm("pinctrl", mapped), Try("states", mapped), Try("match", mapped)>>

\* led_device_create: the node, the sysfs attribute and the LED class device.
led_device_create(outer) ==
  CharDevice(outer) \o
  <<Own("attr", CharDeviceGone \o outer),
    Devm("leds", <<"attr">> \o CharDeviceGone \o outer)>>

kernel_led ==
  Driver(<<Chip>> \o led_hardware_init \o led_device_create(<<"io0", "io1">>),
         <<"attr">> \o CharDeviceGone \o <<"io0", "io1">>,
         "cdev" :> {"chip", "gpio"} @@
         "attr" :> {"chip", "gpio", "io0", "io1", "pinctrl"} @@
         "leds" :> {"chip", "gpio"})

loopled ==
  Driver(<<Chip, Try("count", <<>>), Devm("gpios", <<>>)>> \o CharDevice(<<>>),
         CharDeviceGone,
         "cdev" :> {"chip", "gpios"})

beep ==
  Driver(<<Chip, Devm("gpio", <<>>), Try("match", <<>>), Own("misc", <<>>)>>,
         <<"misc">>,
         "misc" :> {"chip", "gpio"})

bus_i2c ==
  Driver(<<Chip, Try("reset", <<>>), Try("enable", <<>>)>> \o CharDevice(<<>>),
         CharDeviceGone,
         "cdev" :> {"chip"})

\* The interrupt is requested last, when the node can be open already.
regmap_i2c ==
  Driver(<<Chip, Ready("lock"), Devm("regmap", <<>>), Try("reset", <<>>),
           Try("enable", <<>>)>>
         \o CharDevice(<<>>)
         \o <<Devm("gpio", CharDeviceGone), Try("irqnum", CharDeviceGone),
              Devm("irq", CharDeviceGone)>>,
         CharDeviceGone,
         "cdev" :> {"chip", "lock", "regmap"} @@
         "irq" :> {"chip", "lock", "regmap"})

bus_spi ==
  Driver(<<Chip, Try("setup", <<>>), Try("registers", <<>>)>> \o CharDevice(<<>>),
         CharDeviceGone,
         "cdev" :> {"chip"})

\* The result of devm_regmap_init_spi is not tested.
regmap_spi ==
  Driver(<<Chip, Ignored(Devm("regmap", <<>>))>> \o CharDevice(<<>>),
         CharDeviceGone,
         "cdev" :> {"chip", "regmap"})

\* The wait queue and the timer are set up when node and interrupt are live already,
\* and remove deletes the timer while devres still has the interrupt.
key_async ==
  Driver(<<Chip, Try("gpionum", <<>>), Ignored(Devm("gpio", <<>>)), Devm("irq", <<>>)>>
         \o CharDevice(<<>>)
         \o <<Ready("status"), Ready("queue"), Ready("timer")>>,
         CharDeviceGone \o <<"timer">>,
         "cdev" :> {"chip", "status", "queue"} @@
         "irq" :> {"chip", "timer"})

dev_hx711 ==
  Driver(<<Chip, Devm("sck", <<>>), Devm("sda", <<>>)>> \o CharDevice(<<>>),
         CharDeviceGone,
         "cdev" :> {"chip", "sck", "sda"})

pwm_consumer ==
  Driver(<<Chip, Devm("pwm", <<>>)>> \o CharDevice(<<>>),
         CharDeviceGone,
         "cdev" :> {"chip", "pwm"})

kernel_example ==
  Driver(<<Chip>> \o CharDevice(<<>>), CharDeviceGone, "cdev" :> {"chip"})

kernel_platform_driver ==
  Driver(<<Chip>> \o CharDevice(<<>>), CharDeviceGone, "cdev" :> {"chip"})

CharTable ==
  "kernel_led" :> kernel_led @@ "loopled" :> loopled @@ "beep" :> beep @@
  "bus_i2c" :> bus_i2c @@ "regmap_i2c" :> regmap_i2c @@ "bus_spi" :> bus_spi @@
  "regmap_spi" :> regmap_spi @@ "key_async" :> key_async @@
  "dev_hx711" :> dev_hx711 @@ "pwm_consumer" :> pwm_consumer @@
  "kernel_example" :> kernel_example @@
  "kernel_platform_driver" :> kernel_platform_driver

-----------------------------------------------------------------------------
(* What these drivers are known to do wrong: the hazards of the README.    *)

CharMissing == {<<"regmap_spi", "regmap">>, <<"key_async", "gpio">>}

CharBare ==
  {<<"regmap_spi", "cdev", "regmap">>, <<"key_async", "irq", "timer">>,
   <<"key_async", "cdev", "queue">>, <<"key_async", "cdev", "status">>}
==================================================================================
