------------------ MODULE MCServerBackedStateKeyGenerator ------------------
EXTENDS ServerBackedStateKeyGenerator

CONSTANTS cb1, cb2, S1, S2, G, D, GoodSecret, BadSecret

MCCallbacks == {cb1, cb2}

\* Machine infos: each serial-number key absent or one of two serials (so
\* the priority order matters), the other keys absent or present, the
\* secret absent, well-formed or malformed.
MCMachineInfos ==
  { p \in [MachineInfoKeys -> {Empty, S1, S2, G, D, GoodSecret, BadSecret}] :
      /\ \A k \in ToSet(SerialNumberKeys) : p[k] \in {Empty, S1, S2}
      /\ p[kGroupCodeKey] \in {Empty, G}
      /\ p[kDiskSerialNumberKey] \in {Empty, D}
      /\ p[kStableDeviceSecretKey] \in {Empty, GoodSecret, BadSecret} }

MCGoodSecrets == {GoodSecret}
=============================================================================
