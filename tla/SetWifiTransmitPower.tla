------------------------- MODULE SetWifiTransmitPower -------------------------
(***************************************************************************)
(* set_wifi_transmit_power: the helper powerd runs to switch the WiFi      *)
(* transmit-power profile between tablet and clamshell.  One process,      *)
(* SetWiFiTransmitPower::SetPowerMode(), builds an nl80211 vendor command  *)
(* for the driver it guesses, sends it on a generic-netlink socket and     *)
(* reads the kernel's answer through libnl callbacks that store the        *)
(* result in err_.  Generic netlink is handled inside the sendmsg() of     *)
(* nl_send_auto(): the kernel hands the command to the driver and queues   *)
(* an ACK (an nlmsgerr with error 0; libnl requests one on every           *)
(* nl_send_auto()) or an error on the socket before the call returns.     *)
(*                                                                         *)
(* The environment is fixed in Init: the tablet flag, the driver of the    *)
(* wireless device and the interface names that exist.  Attribute          *)
(* construction (the nla_put calls) is taken to succeed: the message is a *)
(* few dozen bytes in a page-sized buffer.                                 *)
(***************************************************************************)
EXTENDS Integers, Sequences, TLC

\* Kernel drivers a device may use; only the first two have the vendor
\* commands the helper knows.
HwDrivers == {"mwifiex", "iwl7000", "ath10k"}
Interfaces == {"mlan0", "wlan0"}

MWIFIEX_VENDOR_ID == 20547                     \* 0x005043
MWIFIEX_VENDOR_CMD_SET_TX_POWER_LIMIT == 0
MWIFIEX_VENDOR_CMD_ATTR_TXP_LIMIT_24 == 1
MWIFIEX_VENDOR_CMD_ATTR_TXP_LIMIT_52 == 2
INTEL_OUI == 5941                              \* 0x001735
IWL_MVM_VENDOR_CMD_SET_SAR_PROFILE == 28
IWL_MVM_VENDOR_ATTR_SAR_CHAIN_A_PROFILE == 58
IWL_MVM_VENDOR_ATTR_SAR_CHAIN_B_PROFILE == 59
IWL_TABLET_PROFILE_INDEX == 1
IWL_CLAMSHELL_PROFILE_INDEX == 2
EOPNOTSUPP == 95

VARIABLES
  tablet,     \* FLAGS_tablet
  driver,     \* the driver bound to the wireless device
  ifaces,     \* the interface names if_nametoindex() resolves
  pc,         \* where SetPowerMode() is: connect, resolve, build, send, recv,
              \* done (returned, main() exits 0) or aborted (CHECK/LOG(FATAL))
  err_,       \* SetWiFiTransmitPower::err_, written by the callbacks
  msg,        \* the vendor command built, or NoMsg
  to_user,    \* the kernel's answers not yet read by nl_recvmsgs()
  applied     \* the vendor command the driver has taken, or NoMsg

vars == <<tablet, driver, ifaces, pc, err_, msg, to_user, applied>>

NoMsg == [ifindex |-> "none"]

\* GetWirelessDriverType(): the mwifiex sysfs directory exists only when
\* that module is loaded; every other device is taken to be Intel.
GetWirelessDriverType == IF driver = "mwifiex" THEN "MWIFIEX" ELSE "IWL"

\* GetWirelessDeviceIndex(): mlan0 first, then wlan0; neither is fatal.
GetWirelessDeviceIndex == IF "mlan0" \in ifaces THEN "mlan0" ELSE "wlan0"

\* FillMessageMwifiex(): both band limits carry the tablet flag as a u8.
FillMessageMwifiex(t) ==
  [vendor |-> MWIFIEX_VENDOR_ID, subcmd |-> MWIFIEX_VENDOR_CMD_SET_TX_POWER_LIMIT,
   data |-> (MWIFIEX_VENDOR_CMD_ATTR_TXP_LIMIT_24 :> IF t THEN 1 ELSE 0) @@
            (MWIFIEX_VENDOR_CMD_ATTR_TXP_LIMIT_52 :> IF t THEN 1 ELSE 0)]

\* FillMessageIwl(): both chains get the SAR profile of the mode.
FillMessageIwl(t) ==
  LET index == IF t THEN IWL_TABLET_PROFILE_INDEX ELSE IWL_CLAMSHELL_PROFILE_INDEX
  IN  [vendor |-> INTEL_OUI, subcmd |-> IWL_MVM_VENDOR_CMD_SET_SAR_PROFILE,
       data |-> (IWL_MVM_VENDOR_ATTR_SAR_CHAIN_A_PROFILE :> index) @@
                (IWL_MVM_VENDOR_ATTR_SAR_CHAIN_B_PROFILE :> index)]

\* The libnl callbacks registered in the constructor: an ACK runs
\* AckHandler (err_ = 0), an nlmsgerr with an error runs ErrorHandler
\* (err_ = err->error).
Handler(answer) == answer

\* The constructor sets err_ to 0; the process then enters SetPowerMode().
Init ==
  /\ tablet \in BOOLEAN
  /\ driver \in HwDrivers
  /\ ifaces \in SUBSET Interfaces
  /\ pc = "connect"
  /\ err_ = 0
  /\ msg = NoMsg
  /\ to_user = <<>>
  /\ applied = NoMsg

Abort == pc' = "aborted"

\* genl_connect(), then CHECK(!err).
GenlConnect ==
  /\ pc = "connect"
  /\ pc' = "resolve" \/ Abort
  /\ UNCHANGED <<tablet, driver, ifaces, err_, msg, to_user, applied>>

\* genl_ctrl_resolve("nl80211"), then CHECK_GE(id, 0).
GenlCtrlResolve ==
  /\ pc = "resolve"
  /\ pc' = "build" \/ Abort
  /\ UNCHANGED <<tablet, driver, ifaces, err_, msg, to_user, applied>>

\* The header, the interface index and the driver's vendor attributes.
BuildMessage ==
  /\ pc = "build"
  /\ IF ifaces = {}
       THEN Abort /\ UNCHANGED msg
       ELSE /\ msg' = [ifindex |-> GetWirelessDeviceIndex] @@
                      (IF GetWirelessDriverType = "MWIFIEX"
                         THEN FillMessageMwifiex(tablet) ELSE FillMessageIwl(tablet))
            /\ pc' = "send"
  /\ UNCHANGED <<tablet, driver, ifaces, err_, to_user, applied>>

\* while (err_ != 0) nl_recvmsgs(nl_sock_, cb_): each call blocks for the
\* next answer and runs its callback.
NlRecvmsgs ==
  /\ pc = "recv" /\ err_ # 0 /\ to_user # <<>>
  /\ err_' = Handler(Head(to_user))
  /\ to_user' = Tail(to_user)
  /\ UNCHANGED <<tablet, driver, ifaces, pc, msg, applied>>

\* The loop is left: nlmsg_free(), the destructor, and main() returns 0.
Return ==
  /\ pc = "recv" /\ err_ = 0
  /\ pc' = "done"
  /\ UNCHANGED <<tablet, driver, ifaces, err_, msg, to_user, applied>>

\* The driver of the device takes its own vendor command; any other
\* vendor id, or an interface that is gone, is refused with -EOPNOTSUPP.
OwnVendor == [mwifiex |-> MWIFIEX_VENDOR_ID, iwl7000 |-> INTEL_OUI, ath10k |-> 0]
Accepts(m) == m.ifindex \in ifaces /\ m.vendor = OwnVendor[driver]

\* nl_send_auto(), then CHECK_GE(err, 0).  The kernel runs the nl80211
\* handler and queues its answer within the sendmsg() call.
NlSendAuto ==
  /\ pc = "send"
  /\ \/ /\ to_user' = Append(to_user, IF Accepts(msg) THEN 0 ELSE -EOPNOTSUPP)
        /\ applied' = IF Accepts(msg) THEN msg ELSE applied
        /\ pc' = "recv"
     \/ Abort /\ UNCHANGED <<to_user, applied>>
  /\ UNCHANGED <<tablet, driver, ifaces, err_, msg>>

Next ==
  \/ GenlConnect \/ GenlCtrlResolve \/ BuildMessage \/ NlSendAuto
  \/ NlRecvmsgs \/ Return

Spec == Init /\ [][Next]_vars

(***************************************************************************)
(* Properties                                                              *)
(***************************************************************************)

\* err_ is there "for communicating with libnl callbacks": SetPowerMode()
\* waits in nl_recvmsgs() for the kernel's answer.  So when it returns and
\* main() exits 0, the driver has taken the command it built: the exit
\* status tells powerd the new profile is in force.
ReturnMeansApplied == pc = "done" => applied = msg
=============================================================================
