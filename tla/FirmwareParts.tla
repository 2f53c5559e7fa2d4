---------------------------- MODULE FirmwareParts ----------------------------
(***************************************************************************)
(* Two models of the firmware that share no state, side by side: the       *)
(* upstream connection (AmebaUpstream) and the start of the system         *)
(* (AmebaBoot).  A behaviour is one of one part; the other rests in an     *)
(* initial state.                                                          *)
(***************************************************************************)
EXTENDS AmebaUpstream

VARIABLE part

(* AmebaBoot *)
CONSTANT Builds

VARIABLES build, starters, gw, wlan, link, ip, due, hookCalled, registered, tables,
          handlers, wifiConnected, dhcpReady, usbStarted, late

Boot == INSTANCE AmebaBoot WITH pc <- starters, connected <- wifiConnected

ASSUME PartsAssumption == Boot!BootAssumption

bootVars == <<build, starters, gw, wlan, link, ip, due, hookCalled, registered, tables,
              handlers, wifiConnected, dhcpReady, usbStarted, late>>

FirmwareInit ==
  /\ part \in {"upstream", "boot"}
  /\ Init /\ Boot!Init
  /\ part # "upstream" => wifi
  /\ part # "boot" => build = CHOOSE b \in Builds : TRUE

UpstreamNext == part = "upstream" /\ Next /\ UNCHANGED <<part, bootVars>>
BootNext     == part = "boot" /\ Boot!Next /\ UNCHANGED <<part, vars>>

(* The start is over: nothing more has to happen. *)
AllDone == part = "boot" /\ UNCHANGED <<part, vars, bootVars>>

FirmwareNext == UpstreamNext \/ BootNext \/ AllDone

(* The fairness of AmebaUpstream and of AmebaBoot, each in its own part. *)
UpstreamFairness ==
  /\ WF_vars(part = "upstream" /\ Task)
  /\ WF_vars(part = "upstream" /\ sent % 2 = 1 /\ (Sends \/ PeerCloses))

BootFairness ==
  /\ WF_bootVars(part = "boot" /\ Boot!TimePasses)
  /\ \A p \in {"thread", "monitor"} : WF_bootVars(part = "boot" /\ Boot!Example(p))
  /\ \A g \in {1, 2} : WF_bootVars(part = "boot" /\ Boot!Gateway(g))

FirmwareSpec ==
  FirmwareInit /\ [][FirmwareNext]_<<part, vars, bootVars>> /\ UpstreamFairness /\ BootFairness

-----------------------------------------------------------------------------
(* The AT commands are added once, each task of the example starts one     *)
(* gateway task at most, and an address is believed in with its link.      *)
BootSound == Boot!BootSound

(* Attempts are paced across a wrapping tick counter, the last             *)
(* configuration is used, and a lost connection is tried again; the        *)
(* gateway task always reaches its loop, a lasting link and address are    *)
(* used, and a lost link is retried.                                       *)
FirmwareMoves ==
  /\ RetryPaced /\ LatestUsed /\ Retries
  /\ Boot!ReachesLoop /\ Boot!BootCompletes /\ Boot!RetriesLink
=============================================================================
