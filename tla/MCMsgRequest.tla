---------------------------- MODULE MCMsgRequest ----------------------------
(* Two threads that ask for the same kind of confirmation, as wlan_ui.c:2074 *)
(* and hostapd_intf.c:962 do, and one that asks for another.                 *)
EXTENDS MsgRequest

CONSTANTS a, b, c, bss_info, sta_add

ThreeCallers == {a, b, c}
TwoKinds == [x \in ThreeCallers |-> IF x = c THEN sta_add ELSE bss_info]
OneEach == [x \in ThreeCallers |-> 1]

\* The third asks again.
FewCalls == [x \in ThreeCallers |-> IF x = c THEN 2 ELSE 1]
=============================================================================
