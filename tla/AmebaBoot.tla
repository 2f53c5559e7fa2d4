----------------------------- MODULE AmebaBoot -----------------------------
(***************************************************************************)
(* How the firmware comes up.  In the build of the repository ("sample")   *)
(* the task of the SDK example connects to Wi-Fi and starts the gateway,   *)
(* and a monitor task, of higher priority, retries and may start it too.   *)
(* With GATEWAY_AMEBA_ASSUME_WIFI_SAMPLE 0 ("own") the gateway task brings *)
(* Wi-Fi up itself.  Either way it then starts USB and enters its loop.    *)
(*                                                                         *)
(* The SDK's calls block, and return.  Any unlocked step of one task may   *)
(* be followed by one of another.                                          *)
(***************************************************************************)
EXTENDS Naturals

CONSTANT Builds  \* which builds: "sample", "own"

(* What the constant has to be. *)
BootAssumption == Builds \subseteq {"sample", "own"}

Starters == {"thread", "monitor"}  \* the two tasks of the example
Gateways == {1, 2}                 \* tasks example_gateway_ameba may have created

VARIABLES
  build,       \* chosen at the start
  pc,          \* where each task of the example is
  gw,          \* where each gateway task is
  wlan,        \* wifi_on has been called
  link,        \* wifi_get_setting reports an SSID
  ip,          \* the interface has an address; it keeps it when the link is lost
  due,         \* SAMPLE_CONNECT_RETRY_TICKS have passed since the last attempt
  hookCalled,  \* sample_gateway_hook_called
  registered,  \* gateway_atcmd_registered
  tables,      \* history: how often the AT commands were added
  handlers,    \* gateway_wifi_connect_hdl and _disconnect_hdl are registered
  connected,   \* gateway_wifi_connected
  dhcpReady,   \* gateway_wifi_dhcp_ready
  usbStarted,  \* gateway_usb_started
  late         \* 30 s have passed since DHCP was started

at     == <<registered, tables>>
wifi   == <<wlan, link, ip, due>>
flags  == <<handlers, connected, dhcpReady>>
vars   == <<build, pc, gw, wifi, hookCalled, at, flags, usbStarted, late>>

Goes(p, to) == pc' = [pc EXCEPT ![p] = to]
GwGoes(g, to) == gw' = [gw EXCEPT ![g] = to]

Init ==
  /\ build \in Builds
  /\ pc = [p \in Starters |-> IF p = "thread" /\ build = "sample" THEN "begin" ELSE "none"]
  /\ gw = [g \in Gateways |-> IF g = 1 /\ build = "own" THEN "boot" ELSE "none"]
  /\ wlan = FALSE /\ link = FALSE /\ ip = FALSE /\ due = TRUE
  /\ hookCalled = FALSE /\ registered = (build = "own") /\ tables = (IF build = "own" THEN 1 ELSE 0)
  /\ handlers = FALSE /\ connected = FALSE /\ dhcpReady = FALSE
  /\ usbStarted = FALSE /\ late = FALSE

-----------------------------------------------------------------------------
(* The tasks of the example.                                               *)

(* Mutant: the registration does not set gateway_atcmd_registered. *)
MutBegins ==
  /\ pc["thread"] = "begin" /\ Goes("thread", "create")
  /\ tables' = tables + 1
  /\ UNCHANGED <<build, gw, wifi, hookCalled, registered, flags, usbStarted, late>>

(* high_load_case_memory_usage registers the AT commands while it is alone. *)
Begins ==
  /\ pc["thread"] = "begin" /\ Goes("thread", "create")
  /\ registered' = TRUE /\ tables' = tables + 1
  /\ UNCHANGED <<build, gw, wifi, hookCalled, flags, usbStarted, late>>

CreatesMonitor ==
  /\ pc["thread"] = "create"
  /\ \/ pc' = [pc EXCEPT !["thread"] = "on", !["monitor"] = "round"]
     \/ Goes("thread", "on")
  /\ UNCHANGED <<build, gw, wifi, hookCalled, at, flags, usbStarted, late>>

(* wifi_on(RTW_MODE_STA); without it the thread returns. *)
TurnsOn ==
  /\ pc["thread"] = "on"
  /\ \/ wlan' = TRUE /\ Goes("thread", "attempt")
     \/ UNCHANGED wlan /\ Goes("thread", "done")
  /\ UNCHANGED <<build, gw, link, ip, due, hookCalled, at, flags, usbStarted, late>>

(* The monitor's round: without a link it retries every 5000 ticks. *)
MonitorLooks ==
  /\ pc["monitor"] = "round"
  /\ Goes("monitor", IF ~link /\ due THEN "attempt" ELSE "test")
  /\ UNCHANGED <<build, gw, wifi, hookCalled, at, flags, usbStarted, late>>

(* sample_attempt_wifi_connect: the time is taken, the networks scanned,   *)
(* and the access point accepts or not.                                    *)
Attempts(p) ==
  /\ pc[p] = "attempt" /\ due' = FALSE
  /\ \/ wlan /\ link' = TRUE /\ Goes(p, "dhcp")
     \/ UNCHANGED link /\ Goes(p, "test")
  /\ UNCHANGED <<build, gw, wlan, ip, hookCalled, at, flags, usbStarted, late>>

StartsDhcp(p) ==
  /\ pc[p] = "dhcp" /\ Goes(p, "test")
  /\ ip' \in {ip, link}
  /\ UNCHANGED <<build, gw, wlan, link, due, hookCalled, at, flags, usbStarted, late>>

(* sample_maybe_start_gateway: the test, and the assignment that follows   *)
(* it after two printfs, are steps of their own.                           *)
After(p) == IF p = "thread" THEN "done" ELSE "sleep"

TestsHook(p) ==
  /\ pc[p] = "test" /\ Goes(p, IF link /\ ~hookCalled THEN "hook" ELSE After(p))
  /\ UNCHANGED <<build, gw, wifi, hookCalled, at, flags, usbStarted, late>>

CallsHook(p) ==
  /\ pc[p] = "hook" /\ hookCalled' = TRUE /\ Goes(p, "atcmd")
  /\ UNCHANGED <<build, gw, wifi, at, flags, usbStarted, late>>

(* example_gateway_ameba: gateway_ameba_register_atcmd and xTaskCreate.  A *)
(* task that could not be created is not tried again.                      *)
TestsAtcmd(p) ==
  /\ pc[p] = "atcmd" /\ Goes(p, IF registered THEN "spawn" ELSE "add")
  /\ UNCHANGED <<build, gw, wifi, hookCalled, at, flags, usbStarted, late>>

AddsAtcmd(p) ==
  /\ pc[p] = "add" /\ registered' = TRUE /\ tables' = tables + 1 /\ Goes(p, "spawn")
  /\ UNCHANGED <<build, gw, wifi, hookCalled, flags, usbStarted, late>>

Spawns(p) ==
  /\ pc[p] = "spawn" /\ Goes(p, After(p))
  /\ \E g \in Gateways : gw[g] = "none" /\ (g = 2 => gw[1] # "none")
                         /\ (GwGoes(g, "boot") \/ GwGoes(g, "failed"))
  /\ UNCHANGED <<build, wifi, hookCalled, at, flags, usbStarted, late>>

MonitorWakes ==
  /\ pc["monitor"] = "sleep" /\ Goes("monitor", "round")
  /\ UNCHANGED <<build, gw, wifi, hookCalled, at, flags, usbStarted, late>>

-----------------------------------------------------------------------------
(* The gateway task, up to its loop.                                       *)

(* With the sample's Wi-Fi it takes over what is there. *)
AssumesWifi(g) ==
  /\ build = "sample" /\ gw[g] = "boot" /\ GwGoes(g, "usb")
  /\ connected' = (connected \/ link) /\ dhcpReady' = (dhcpReady \/ (link /\ ip))
  /\ UNCHANGED <<build, pc, wifi, hookCalled, at, handlers, usbStarted, late>>

(* gateway_wifi_bring_up_sta: wifi_on, the event handlers, wifi_connect,   *)
(* DHCP, and polling for an address; each may fail.                        *)
OwnTurnsOn(g) ==
  /\ build = "own" /\ gw[g] = "boot"
  /\ \/ wlan' = TRUE /\ handlers' = TRUE /\ GwGoes(g, "connect")
     \/ UNCHANGED <<wlan, handlers>> /\ GwGoes(g, "usb")
  /\ UNCHANGED <<build, pc, link, ip, due, hookCalled, at, connected, dhcpReady, usbStarted, late>>

OwnConnects(g) ==
  /\ gw[g] = "connect"
  /\ \/ link' = TRUE /\ connected' = TRUE /\ GwGoes(g, "dhcp")
     \/ UNCHANGED <<link, connected>> /\ GwGoes(g, "usb")
  /\ UNCHANGED <<build, pc, wlan, ip, due, hookCalled, at, handlers, dhcpReady, usbStarted, late>>

OwnDhcp(g) ==
  /\ gw[g] = "dhcp" /\ late' = FALSE
  /\ \/ ip' \in {ip, link} /\ GwGoes(g, "wait")
     \/ UNCHANGED ip /\ GwGoes(g, "usb")
  /\ UNCHANGED <<build, pc, wlan, link, due, hookCalled, at, flags, usbStarted>>

OwnWaits(g) ==
  /\ gw[g] = "wait" /\ (ip \/ late)
  /\ GwGoes(g, IF ip THEN "ready" ELSE "usb")
  /\ UNCHANGED <<build, pc, wifi, hookCalled, at, flags, usbStarted, late>>

(* The address may have been stale, or the link lost, since it was seen. *)
OwnReady(g) ==
  /\ gw[g] = "ready" /\ dhcpReady' = TRUE /\ GwGoes(g, "usb")
  /\ UNCHANGED <<build, pc, wifi, hookCalled, at, handlers, connected, usbStarted, late>>

(* gateway_usb_start: tried once; wait_usb_ready blocks before the probe. *)
UsbTests(g) ==
  /\ gw[g] = "usb" /\ GwGoes(g, IF usbStarted THEN "loop" ELSE "probe")
  /\ UNCHANGED <<build, pc, wifi, hookCalled, at, flags, usbStarted, late>>

UsbProbes(g) ==
  /\ gw[g] = "probe" /\ GwGoes(g, "loop") /\ usbStarted' \in {usbStarted, TRUE}
  /\ UNCHANGED <<build, pc, wifi, hookCalled, at, flags, late>>

(* The loop's own look at Wi-Fi, in the sample's build only. *)
LoopLooks(g) ==
  /\ build = "sample" /\ gw[g] = "loop"
  /\ connected' = (connected \/ link) /\ dhcpReady' = (dhcpReady \/ (connected' /\ ip))
  /\ UNCHANGED <<build, pc, gw, wifi, hookCalled, at, handlers, usbStarted, late>>

-----------------------------------------------------------------------------
(* Wi-Fi and the clock.                                                    *)

DisconnectHdl ==
  IF handlers THEN connected' = FALSE /\ dhcpReady' = FALSE ELSE UNCHANGED <<connected, dhcpReady>>

LinkLost ==
  /\ link /\ link' = FALSE /\ DisconnectHdl
  /\ UNCHANGED <<build, pc, gw, wlan, ip, due, hookCalled, at, handlers, usbStarted, late>>

(* The driver connects again, and asks for an address, by itself. *)
ConnectHdl == IF handlers THEN connected' = TRUE ELSE UNCHANGED connected

LinkBack ==
  /\ wlan /\ ~link /\ link' = TRUE /\ ConnectHdl /\ ip' \in {ip, TRUE}
  /\ UNCHANGED <<build, pc, gw, wlan, due, hookCalled, at, handlers, dhcpReady, usbStarted, late>>

TimePasses ==
  /\ ~(due /\ late) /\ due' = TRUE /\ late' = TRUE
  /\ UNCHANGED <<build, pc, gw, wlan, link, ip, hookCalled, at, flags, usbStarted>>

Example(p) ==
  \/ p = "thread" /\ (Begins \/ CreatesMonitor \/ TurnsOn)
  \/ p = "monitor" /\ (MonitorLooks \/ MonitorWakes)
  \/ Attempts(p) \/ StartsDhcp(p) \/ TestsHook(p) \/ CallsHook(p)
  \/ TestsAtcmd(p) \/ AddsAtcmd(p) \/ Spawns(p)

Gateway(g) ==
  \/ AssumesWifi(g) \/ OwnTurnsOn(g) \/ OwnConnects(g) \/ OwnDhcp(g) \/ OwnWaits(g)
  \/ OwnReady(g) \/ UsbTests(g) \/ UsbProbes(g) \/ LoopLooks(g)

Next ==
  \/ \E p \in Starters : Example(p)
  \/ \E g \in Gateways : Gateway(g)
  \/ LinkLost \/ LinkBack \/ TimePasses

Spec == Init /\ [][Next]_vars

(* Tasks are scheduled and the SDK's calls return. *)
FairSpec ==
  /\ Spec /\ WF_vars(TimePasses)
  /\ \A p \in Starters : WF_vars(Example(p))
  /\ \A g \in Gateways : WF_vars(Gateway(g))

-----------------------------------------------------------------------------
(* Types of the state. *)
TypeOK ==
  /\ build \in Builds
  /\ pc \in [Starters -> {"none", "begin", "create", "on", "round", "attempt", "dhcp", "test", "hook",
                          "atcmd", "add", "spawn", "sleep", "done"}]
  /\ gw \in [Gateways -> {"none", "boot", "connect", "dhcp", "wait", "ready", "usb", "probe", "loop", "failed"}]
  /\ {wlan, link, ip, due, hookCalled, registered, handlers} \subseteq BOOLEAN
  /\ {connected, dhcpReady, usbStarted, late} \subseteq BOOLEAN
  /\ tables \in 0 .. 2

(* The AT commands are added to the console's table at most once, although *)
(* neither the test of gateway_atcmd_registered nor that of the hook is    *)
(* protected and two gateway tasks may come of it.                         *)
AtCommandsOnce == tables <= 1

(* However the two tasks race for the hook, each gets past it once at most *)
(* (the monitor comes round again and again), and no third gateway task is *)
(* ever to be created: one that is to be created finds a place.            *)
OnePerStarter == \A p \in Starters : pc[p] = "spawn" => \E g \in Gateways : gw[g] = "none"

(* In the sample's build, where no handler takes anything back, a gateway  *)
(* that believes in its address believes in its link.                      *)
AddressNeedsLink == build = "sample" /\ dhcpReady => connected

(* What holds all along the start.                                         *)
BootSound == TypeOK /\ AtCommandsOnce /\ OnePerStarter /\ AddressNeedsLink

(* Whatever fails on the way, a gateway task reaches USB and its loop. *)
ReachesLoop == \A g \in Gateways : gw[g] = "boot" ~> gw[g] = "loop"

(* Once there is a link and an address to stay, the gateway is started, if *)
(* there is memory for its task, and uses them: a link that came late, an  *)
(* address that came after the gateway started, a link lost on the way.    *)
BootCompletes ==
  <>[](build = "sample" /\ link /\ ip /\ pc["monitor"] # "none") =>
    <>(\E g \in Gateways : gw[g] = "failed" \/ (gw[g] = "loop" /\ connected /\ dhcpReady))

(* As long as there is no link the monitor keeps asking for one, whether   *)
(* or not the gateway was started already.                                 *)
RetriesLink == <>[](~link /\ pc["monitor"] # "none") => []<>(pc["monitor"] = "attempt")
=============================================================================
