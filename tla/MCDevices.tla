----------------------------- MODULE MCDevices -----------------------------
(* Small instances of ZbDeviceMgr for TLC. *)
EXTENDS ZbDeviceMgr, TLC

CONSTANTS d1, d2, d3, a1, a2, onOff, level

\* A lamp with two capabilities and devices with one.
MCDevices3 == {d1, d2, d3}
MCAddresses == {a1, a2}
MCCapsOf3 == [d \in MCDevices3 |-> IF d = d1 THEN {onOff, level} ELSE {onOff}]

\* Addresses are alike, and so are the devices with one capability.
MCSymmetry == {[x \in {a1, a2, d2, d3} |-> IF x \in MCAddresses THEN p[x] ELSE q[x]] :
                  p \in Permutations(MCAddresses), q \in Permutations({d2, d3})}
=============================================================================
